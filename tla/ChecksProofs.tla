---------------------------- MODULE ChecksProofs ----------------------------
(***************************************************************************)
(* Proofs of what "gbp check" leaves behind and reports while jobs run     *)
(* beside it.  As long as nothing that was completed is deleted during a   *)
(* check, the check does not write: then its steps are stutters of the     *)
(* module Publisher, and the invariants of Publisher hold.  And proofs of  *)
(* what it does not fail to report when a process has died.                *)
(***************************************************************************)
EXTENDS Checks, PublicationProofs, CrashProofs, FiniteSetTheorems

allVars == <<vars, checkVars>>

(***************************************************************************)
(* The check leaves nothing behind                                         *)
(***************************************************************************)

\* Every completed build has its trees.
LEMMA InvStores ==
    ASSUME Inv
    PROVE  TypeOK /\ \A b \in Builds : Completed(b) => StoragePulled(b)
<1>1. CompletedIsWhole
  BY InvWhole
<1> QED
  BY <1>1 DEF Inv, CompletedIsWhole, Whole, StoragePulled, Exists

\* In a completed build no directory is missing, and the check only makes
\* directories for builds that are completed: no step of it writes anything.
LEMMA CheckIsReader ==
    ASSUME \A b \in Builds : Completed(b) => StoragePulled(b),
           ListsHold, BeginCheck \/ CheckStep
    PROVE  UNCHANGED <<vars, json, leftover, torn, raced>>
<1>1. BeginCheck => UNCHANGED <<vars, json, leftover, torn, raced>>
  BY DEF BeginCheck
<1>2. \A next : Look(next) => UNCHANGED <<vars, json, leftover, torn, raced>>
  BY DEF Look, GoOn, vars
<1> DEFINE Goal == UNCHANGED <<vars, json, leftover, torn, raced>>
<1> HIDE DEF Goal
<1>3. \/ ListRecords \/ NextRecord \/ ExistsTest \/ ListContent \/ Orphan
      \/ ListTags \/ Target \/ DirtyTemp \/ ListJsonRecords \/ CorruptGbpJson
      \/ Report
      => \E next : Look(next)
  BY DEF ListRecords, NextRecord, ExistsTest, ListContent, Orphan, ListTags,
         Target, DirtyTemp, ListJsonRecords, CorruptGbpJson, Report
<1>4. Mkdir => \E next : Look(next)
  <2>1. SUFFICES ASSUME Mkdir PROVE Exists(check.build, Aux)
    BY DEF Mkdir
  <2>2. check.build \in Builds /\ Completed(check.build)
    BY <2>1 DEF Mkdir, ListsHold
  <2> QED
    BY <2>2, ChecksAssumption DEF StoragePulled
<1> QED
  BY <1>1, <1>2, <1>3, <1>4 DEF CheckStep, Goal

\* What the steps make of the local state of the check.
LEMMA CheckStepType ==
    ASSUME TypeOK, check # Nil => check \in Check, CheckStep, check' # Nil
    PROVE  check # Nil /\ check' \in Check
<1>1. check # Nil /\ check \in Check
  BY DEF CheckStep, ListRecords, NextRecord, ExistsTest, Mkdir,
         ListContent, Orphan, ListTags, Target, DirtyTemp, ListJsonRecords,
         CorruptGbpJson, Report
<1>2. \A next : Look(next) => check' = next
  BY DEF Look, GoOn
<1>3. ASSUME NEW step \in {"next", "gbp.json"}
      PROVE  Listed(step) \in Check
  BY <1>1 DEF Listed, Check, CheckSteps
<1>4. ListRecords \/ ListJsonRecords => check' \in Check
  BY <1>2, <1>3 DEF ListRecords, ListJsonRecords
<1>5. NextRecord => check' \in Check
  <2>1. \A b \in FirstRows :
          [check EXCEPT !.step = "exists", !.build = b, !.item = 1,
                        !.missing = FALSE, !.rows = @ \ {b}] \in Check
    BY <1>1, ContentBounds DEF FirstRows, Check, CheckSteps
  <2>2. [check EXCEPT !.step = "orphans", !.item = 1, !.completed = {},
                      !.build = Nil] \in Check
    BY <1>1, ContentBounds DEF Check, CheckSteps
  <2> QED
    BY <1>2, <2>1, <2>2 DEF NextRecord
<1>6. \A missing \in BOOLEAN : AfterContent(missing) \in Check
  <2>1. SUFFICES ASSUME NEW missing \in BOOLEAN
                 PROVE  AfterContent(missing) \in Check
    OBVIOUS
  <2>2. check.item \in Content /\ check.missing \in BOOLEAN
        /\ check.errors \in BOOLEAN /\ check.warnings \in BOOLEAN
    BY <1>1 DEF Check
  <2>3. check.item < N => check.item + 1 \in Content
    BY <2>2, ContentBounds
  <2>4. \A i \in Content :
          [check EXCEPT !.step = "exists", !.item = i, !.missing = missing] \in Check
    BY <1>1 DEF Check, CheckSteps
  <2>5. \A e, w \in BOOLEAN :
          [check EXCEPT !.step = "next", !.missing = FALSE,
                        !.errors = e, !.warnings = w] \in Check
    BY <1>1 DEF Check, CheckSteps
  <2>6. CASE check.item < N
    BY <2>3, <2>4, <2>6 DEF AfterContent
  <2>7. CASE ~(check.item < N)
    <3>1. AfterContent(missing) =
            [check EXCEPT !.step = "next", !.missing = FALSE,
               !.errors = @ \/ (missing /\ check.build \in check.completed),
               !.warnings = @ \/ (missing /\ check.build \notin check.completed)]
      BY <2>7 DEF AfterContent
    <3> QED
      BY <2>2, <2>5, <3>1
  <2> QED
    BY <2>6, <2>7
<1>7. ExistsTest => check' \in Check
  <2>1. check.missing \in BOOLEAN
    BY <1>1 DEF Check
  <2>2. [check EXCEPT !.step = "mkdir", !.warnings = TRUE] \in Check
    BY <1>1 DEF Check, CheckSteps
  <2> QED
    BY <1>2, <1>6, <2>1, <2>2 DEF ExistsTest
<1>8. ListContent => check' \in Check
  <2>1. \A rows \in SUBSET Builds, tags \in SUBSET Tags :
          [check EXCEPT !.step = "orphan", !.rows = rows, !.tags = tags] \in Check
    BY <1>1 DEF Check, CheckSteps
  <2>2. [check EXCEPT !.step = "orphan",
                      !.rows = {b \in Builds : Exists(b, check.item)},
                      !.tags = {t \in Tags : links[t][check.item] # Nil}] \in Check
    BY <2>1
  <2> QED
    BY <1>2, <2>2 DEF ListContent
<1>9. Orphan => check' \in Check
  <2>1. check.item < N => check.item + 1 \in Content
    BY <1>1, ContentBounds DEF Check
  <2>2. \A b : [check EXCEPT !.rows = @ \ {b}, !.errors = @ \/ ~RecordExists(b)]
                 \in Check
    BY <1>1 DEF Check
  <2>3. \A t : [check EXCEPT !.tags = @ \ {t},
                             !.errors = @ \/ Dangles(t, check.item)] \in Check
    BY <1>1 DEF Check
  <2>4. (IF check.item < N THEN [check EXCEPT !.step = "orphans", !.item = @ + 1]
         ELSE [check EXCEPT !.step = "tags", !.item = 1]) \in Check
    BY <1>1, <2>1, ContentBounds DEF Check, CheckSteps
  <2>5. ASSUME Orphan
        PROVE  \/ \E b : check' = [check EXCEPT !.rows = @ \ {b},
                                        !.errors = @ \/ ~RecordExists(b)]
               \/ \E t : check' = [check EXCEPT !.tags = @ \ {t},
                                        !.errors = @ \/ Dangles(t, check.item)]
               \/ check' = IF check.item < N
                           THEN [check EXCEPT !.step = "orphans", !.item = @ + 1]
                           ELSE [check EXCEPT !.step = "tags", !.item = 1]
    BY <1>2, <2>5, Zenon DEF Orphan
  <2>6. ASSUME NEW b, check' = [check EXCEPT !.rows = @ \ {b},
                                             !.errors = @ \/ ~RecordExists(b)]
        PROVE  check' \in Check
    BY <2>2, <2>6
  <2>7. ASSUME NEW t, check' = [check EXCEPT !.tags = @ \ {t},
                                             !.errors = @ \/ Dangles(t, check.item)]
        PROVE  check' \in Check
    BY <2>3, <2>7
  <2> QED
    BY <2>4, <2>5, <2>6, <2>7
<1>10. ListTags => check' \in Check
  <2>1. \A tags \in SUBSET Tags :
          [check EXCEPT !.step = "target", !.tags = tags] \in Check
    BY <1>1 DEF Check, CheckSteps
  <2>2. [check EXCEPT !.step = "target",
                      !.tags = {t \in Tags : links[t][check.item] # Nil}] \in Check
    BY <2>1
  <2> QED
    BY <1>2, <2>2 DEF ListTags
<1>11. DirtyTemp => check' \in Check
  <2>1. \A warnings \in BOOLEAN :
          [check EXCEPT !.step = "json records", !.warnings = warnings] \in Check
    BY <1>1 DEF Check, CheckSteps
  <2>2. [check EXCEPT !.step = "json records",
           !.warnings = @ \/ leftover \/ \E p \in Procs : pc[p] \in TempSteps]
             \in Check
    BY <2>1
  <2> QED
    BY <1>2, <2>2 DEF DirtyTemp
<1>12. CorruptGbpJson \/ Report => check' \in Check
  <2>1. ASSUME NEW b, NEW state,
               Look([check EXCEPT !.rows = @ \ {b},
                                  !.warnings = @ \/ Warns(state),
                                  !.errors = @ \/ state = "corrupt",
                                  !.excuse = @ \/ BeingWritten(b)])
        PROVE  check' \in Check
    <3>1. \A w, e, x \in BOOLEAN :
            [check EXCEPT !.rows = @ \ {b}, !.warnings = w, !.errors = e,
                          !.excuse = x] \in Check
      BY <1>1 DEF Check
    <3>2. [check EXCEPT !.rows = @ \ {b}, !.warnings = @ \/ Warns(state),
                        !.errors = @ \/ state = "corrupt",
                        !.excuse = @ \/ BeingWritten(b)] \in Check
      BY <3>1
    <3> QED
      BY <1>2, <2>1, <3>2
  <2>2. [check EXCEPT !.step = "report", !.completed = {}] \in Check
    BY <1>1 DEF Check, CheckSteps
  <2> QED
    BY <1>2, <2>1, <2>2 DEF CorruptGbpJson, Report
<1>13. Target => check' \in Check
  <2>1. ASSUME NEW t \in check.tags,
               Look([check EXCEPT !.tags = @ \ {t},
                  !.targets[t] = @ \cup ({links[t][check.item]} \ {Nil})])
        PROVE  check' \in Check
    <3>1. t \in Tags /\ check.item \in Content
      BY <1>1, <2>1 DEF Check
    <3>2. {links[t][check.item]} \ {Nil} \in SUBSET Builds
      BY <3>1 DEF TypeOK, StorageTypeOK
    <3>3. \A set \in SUBSET Builds :
            [check EXCEPT !.tags = @ \ {t}, !.targets[t] = @ \cup set] \in Check
      BY <1>1, <3>1 DEF Check
    <3> QED
      BY <1>2, <2>1, <3>2, <3>3
  <2>2. ASSUME check.tags = {},
               Look(IF check.item < N
                    THEN [check EXCEPT !.step = "tags", !.item = @ + 1]
                    ELSE [check EXCEPT !.step = "temp", !.item = 1,
                            !.targets = [t \in Tags |-> {}],
                            !.errors = @ \/ \E t \in Tags :
                                  Cardinality(check.targets[t]) > 1])
        PROVE  check' \in Check
    <3>1. \A i \in Content : [check EXCEPT !.step = "tags", !.item = i] \in Check
      BY <1>1 DEF Check, CheckSteps
    <3>2. check.item < N => check.item + 1 \in Content
      BY <1>1, ContentBounds DEF Check
    <3>3. \A e \in BOOLEAN :
            [check EXCEPT !.step = "temp", !.item = 1,
                          !.targets = [t \in Tags |-> {}], !.errors = e] \in Check
      BY <1>1, ContentBounds DEF Check, CheckSteps
    <3>4. [check EXCEPT !.step = "temp", !.item = 1,
                        !.targets = [t \in Tags |-> {}],
                        !.errors = @ \/ \E t \in Tags :
                              Cardinality(check.targets[t]) > 1] \in Check
      BY <3>3
    <3> QED
      BY <1>2, <2>2, <3>1, <3>2, <3>4
  <2> QED
    BY <2>1, <2>2 DEF Target
<1>14. Mkdir => check' \in Check
  <2>1. check.missing \in BOOLEAN
    BY <1>1 DEF Check
  <2> QED
    BY <1>2, <1>6, <2>1 DEF Mkdir, GoOn
<1> QED
  BY <1>1, <1>4, <1>5, <1>7, <1>8, <1>9, <1>10, <1>11, <1>12, <1>13, <1>14
     DEF CheckStep

\* What the check has read remains true as long as it is the check that steps.
LEMMA CheckKeepsLists ==
    ASSUME TypeOK, \A b \in Builds : Completed(b) => StoragePulled(b),
           ListsHold, BeginCheck \/ CheckStep
    PROVE  ListsHold'
<1>1. UNCHANGED <<vars, json, leftover, torn, raced>>
  BY CheckIsReader
<1>2. \A b \in Builds : Completed(b)' <=> Completed(b)
  BY <1>1 DEF vars, Completed
<1> DEFINE Fine(c) ==
             /\ c \in Check
             /\ \A b \in c.completed : Completed(b)
             /\ c.step \in {"exists", "mkdir"} => c.build \in Builds
             /\ c.step = "mkdir" => c.item = Aux /\ c.build \in c.completed
<1>3. SUFFICES ASSUME check' # Nil PROVE Fine(check')
  <2>1. Fine(check') => \A b \in check'.completed : Completed(b)'
    BY <1>2 DEF Check
  <2> QED
    BY <2>1 DEF ListsHold
<1>4. ASSUME BeginCheck PROVE Fine(check')
  <2>1. \A excuse \in BOOLEAN : Fine([EmptyCheck EXCEPT !.excuse = excuse])
    BY ContentBounds DEF EmptyCheck, Check, CheckSteps
  <2>2. Fine([EmptyCheck EXCEPT !.excuse = \E t \in Tags, c \in Content : Dangles(t, c)])
    BY <2>1
  <2> QED
    BY <1>4, <2>2 DEF BeginCheck
<1>5. ASSUME CheckStep PROVE Fine(check')
  <2> DEFINE Goal == Fine(check')
  <2>1. \A next : Look(next) => check' = next
    BY DEF Look, GoOn
  <2>2. ~Mkdir \/ check' = Nil
    <3>1. Mkdir => Exists(check.build, Aux)
      <4>1. SUFFICES ASSUME Mkdir PROVE Exists(check.build, Aux)
        OBVIOUS
      <4>2. check.build \in Builds /\ Completed(check.build)
        BY <4>1 DEF Mkdir, ListsHold
      <4> QED
        BY <4>2, ChecksAssumption DEF StoragePulled
    <3> QED
      BY <2>1, <3>1 DEF Mkdir
  <2>3. check # Nil /\ check \in Check /\ check' \in Check
    <3> HIDE DEF Goal, Fine
    <3>1. check' # Nil /\ CheckStep /\ ~Mkdir
      BY <1>3, <1>5, <2>2
    <3>2. check # Nil /\ check' \in Check
      BY <3>1, CheckStepType DEF ListsHold
    <3> QED
      BY <3>2 DEF ListsHold
  <2>4. \A b \in check.completed : Completed(b)
    <3> HIDE DEF Goal, Fine
    <3>1. check # Nil
      BY <2>3
    <3> QED
      BY <3>1, Zenon DEF ListsHold
  <2>5. ASSUME check'.step \notin {"exists", "mkdir"},
               check'.completed \subseteq {b \in Builds : Completed(b)}
        PROVE  Goal
    BY <2>3, <2>5
  <2>6. \A missing : /\ AfterContent(missing).completed = check.completed
                     /\ AfterContent(missing).build = check.build
                     /\ AfterContent(missing).step \in {"exists", "next"}
    BY <2>3 DEF AfterContent, Check
  <2>7. ASSUME ListRecords \/ ListJsonRecords PROVE Goal
    <3>1. \A step : /\ Listed(step).step = step
                    /\ Listed(step).completed = {b \in Builds : Completed(b)}
      BY <2>3 DEF Listed, Check
    <3> QED
      BY <2>1, <2>5, <2>7, <3>1 DEF ListRecords, ListJsonRecords
  <2>8. ASSUME NextRecord PROVE Goal
    <3>1. ASSUME NEW b \in FirstRows,
                 Look([check EXCEPT !.step = "exists", !.build = b, !.item = 1,
                                    !.missing = FALSE, !.rows = @ \ {b}])
          PROVE  Goal
      <4>1. check'.step = "exists" /\ check'.build = b
            /\ check'.completed = check.completed
        BY <2>1, <2>3, <3>1 DEF Check
      <4>2. b \in Builds
        BY <2>3 DEF FirstRows, Check
      <4> QED
        BY <2>3, <2>4, <4>1, <4>2
    <3>2. ASSUME Look([check EXCEPT !.step = "orphans", !.item = 1,
                                    !.completed = {}, !.build = Nil])
          PROVE  Goal
      <4>1. check'.step = "orphans" /\ check'.completed = {}
        BY <2>1, <2>3, <3>2 DEF Check
      <4> QED
        BY <2>5, <4>1
    <3> QED
      BY <2>8, <3>1, <3>2 DEF NextRecord
  <2>9. ASSUME ExistsTest PROVE Goal
    <3>1. check.build \in Builds
      BY <2>3, <2>9 DEF ExistsTest, ListsHold
    <3>2. ASSUME NEW missing, Look(AfterContent(missing)) PROVE Goal
      BY <2>1, <2>3, <2>4, <2>6, <3>1, <3>2
    <3>3. ASSUME check.item = Aux /\ check.build \in check.completed,
                 Look([check EXCEPT !.step = "mkdir", !.warnings = TRUE])
          PROVE  Goal
      <4>1. check'.step = "mkdir" /\ check'.build = check.build
            /\ check'.completed = check.completed /\ check'.item = check.item
        BY <2>1, <2>3, <3>3 DEF Check
      <4> QED
        BY <2>3, <2>4, <3>1, <3>3, <4>1
    <3> QED
      BY <2>9, <3>2, <3>3 DEF ExistsTest
  <2>10. ASSUME \/ ListContent \/ Orphan \/ ListTags \/ Target \/ DirtyTemp
                \/ CorruptGbpJson \/ Report
         PROVE  Goal
    <3>1. /\ check'.step \notin {"exists", "mkdir"}
          /\ check'.completed \in {check.completed, {}}
      <4>1. ListContent =>
              check'.step = "orphan" /\ check'.completed = check.completed
        BY <2>1, <2>3 DEF ListContent, Check
      <4>2. Orphan => /\ check'.step \in {"orphan", "orphans", "tags"}
                      /\ check'.completed = check.completed
        <5>1. \A b, e : LET next == [check EXCEPT !.rows = @ \ {b}, !.errors = e] IN
                        next.step = check.step /\ next.completed = check.completed
          BY <2>3 DEF Check
        <5>2. \A t, e : LET next == [check EXCEPT !.tags = @ \ {t}, !.errors = e] IN
                        next.step = check.step /\ next.completed = check.completed
          BY <2>3 DEF Check
        <5> HIDE DEF Goal, Fine
        <5>3. ASSUME NEW b, Look([check EXCEPT !.rows = @ \ {b},
                                               !.errors = @ \/ ~RecordExists(b)])
              PROVE  check'.step = check.step /\ check'.completed = check.completed
          <6>1. check' = [check EXCEPT !.rows = @ \ {b},
                                       !.errors = @ \/ ~RecordExists(b)]
            BY <2>1, <5>3
          <6> QED
            BY <5>1, <6>1
        <5>4. ASSUME NEW t, Look([check EXCEPT !.tags = @ \ {t},
                                               !.errors = @ \/ Dangles(t, check.item)])
              PROVE  check'.step = check.step /\ check'.completed = check.completed
          <6>1. check' = [check EXCEPT !.tags = @ \ {t},
                                       !.errors = @ \/ Dangles(t, check.item)]
            BY <2>1, <5>4
          <6> QED
            BY <5>2, <6>1
        <5>5. ASSUME Look(IF check.item < N
                          THEN [check EXCEPT !.step = "orphans", !.item = @ + 1]
                          ELSE [check EXCEPT !.step = "tags", !.item = 1])
              PROVE  /\ check'.step \in {"orphans", "tags"}
                     /\ check'.completed = check.completed
          <6>1. check' = IF check.item < N
                         THEN [check EXCEPT !.step = "orphans", !.item = @ + 1]
                         ELSE [check EXCEPT !.step = "tags", !.item = 1]
            BY <2>1, <5>5
          <6> QED
            BY <2>3, <6>1 DEF Check
        <5> QED
          BY <5>3, <5>4, <5>5, Zenon DEF Orphan
      <4>3. ListTags => check'.step = "target" /\ check'.completed = check.completed
        BY <2>1, <2>3 DEF ListTags, Check
      <4>4. Target => /\ check'.step \in {"target", "tags", "temp"}
                      /\ check'.completed = check.completed
        <5>1. \A item : LET next == [check EXCEPT !.step = "tags", !.item = item] IN
                        next.step = "tags" /\ next.completed = check.completed
          BY <2>3 DEF Check
        <5>2. \A x, e : LET next == [check EXCEPT !.step = "temp", !.item = 1,
                                                  !.targets = x, !.errors = e] IN
                        next.step = "temp" /\ next.completed = check.completed
          BY <2>3 DEF Check
        <5> HIDE DEF Goal, Fine
        <5>3. ASSUME NEW t,
                     Look([check EXCEPT !.tags = @ \ {t},
                             !.targets[t] = @ \cup ({links[t][check.item]} \ {Nil})])
              PROVE  check'.step = check.step /\ check'.completed = check.completed
          <6>1. check' = [check EXCEPT !.tags = @ \ {t},
                            !.targets[t] = @ \cup ({links[t][check.item]} \ {Nil})]
            BY <2>1, <5>3
          <6> QED
            BY <2>3, <6>1 DEF Check
        <5> DEFINE last == [check EXCEPT !.step = "temp", !.item = 1,
                              !.targets = [t \in Tags |-> {}],
                              !.errors = @ \/ \E t \in Tags :
                                    Cardinality(check.targets[t]) > 1]
        <5>4. last.step = "temp" /\ last.completed = check.completed
          BY <5>2
        <5>5. ASSUME Look(IF check.item < N
                          THEN [check EXCEPT !.step = "tags", !.item = @ + 1]
                          ELSE last)
              PROVE  /\ check'.step \in {"tags", "temp"}
                     /\ check'.completed = check.completed
          <6> HIDE DEF last
          <6> QED
            BY <2>1, <5>1, <5>4, <5>5
        <5> QED
          BY <5>3, <5>5, Zenon DEF Target
      <4>5. DirtyTemp =>
              check'.step = "json records" /\ check'.completed = check.completed
        BY <2>1, <2>3 DEF DirtyTemp, Check
      <4>6. CorruptGbpJson =>
              \/ check'.step = "gbp.json" /\ check'.completed = check.completed
              \/ check'.step = "report" /\ check'.completed = {}
        <5>1. ASSUME CorruptGbpJson, NEW b, NEW state,
                     Look([check EXCEPT !.rows = @ \ {b},
                                        !.warnings = @ \/ Warns(state),
                                        !.errors = @ \/ state = "corrupt",
                                        !.excuse = @ \/ BeingWritten(b)])
              PROVE  check'.step = "gbp.json" /\ check'.completed = check.completed
          <6>1. \A w, e, x :
                  LET next == [check EXCEPT !.rows = @ \ {b}, !.warnings = w,
                                            !.errors = e, !.excuse = x] IN
                  next.step = check.step /\ next.completed = check.completed
            BY <2>3 DEF Check
          <6>2. check' = [check EXCEPT !.rows = @ \ {b},
                                       !.warnings = @ \/ Warns(state),
                                       !.errors = @ \/ state = "corrupt",
                                       !.excuse = @ \/ BeingWritten(b)]
            BY <2>1, <5>1
          <6>3. check'.step = check.step /\ check'.completed = check.completed
            BY <6>1, <6>2
          <6> QED
            BY <5>1, <6>3 DEF CorruptGbpJson
        <5>2. [check EXCEPT !.step = "report", !.completed = {}].step = "report"
              /\ [check EXCEPT !.step = "report", !.completed = {}].completed = {}
          BY <2>3 DEF Check
        <5>3. ASSUME Look([check EXCEPT !.step = "report", !.completed = {}])
              PROVE  check'.step = "report" /\ check'.completed = {}
          BY <2>1, <5>2, <5>3
        <5> HIDE DEF Goal, Fine
        <5> QED
          BY <5>1, <5>3, Zenon DEF CorruptGbpJson
      <4>7. ~Report
        BY <1>3, <2>1 DEF Report
      <4> QED
        BY <2>10, <4>1, <4>2, <4>3, <4>4, <4>5, <4>6, <4>7
    <3> QED
      BY <2>3, <2>4, <2>5, <3>1
  <2> QED
    BY <1>3, <1>5, <2>2, <2>7, <2>8, <2>9, <2>10 DEF CheckStep
<1> QED
  BY <1>3, <1>4, <1>5

\* Only a job that dies counts as a crash.
LEMMA StepCounts ==
    ASSUME NEW p \in Procs, Step(p)
    PROVE  crashes' = crashes
BY DEF Step, Pull, Submit, Download, Extract, CopyPath, RemoveTree, Copy, CopyTree,
       NextTag, Metadata, Complete, GbpJson, Publish, Tag, IsLink, Unlink, Symlink,
       CheckTags, Untag, IsSymlink, RemoveLink, Delete, DeleteTree, DeleteRmtree,
       Edit, Save

\* A request that begins has not done anything yet.
LEMMA StartFrame ==
    ASSUME NEW p \in Procs, Start(p)
    PROVE  UNCHANGED <<dirs, links, records, crashes>>
<1>1. PICK b \in BuildsUsed[p] :
         \/ PullBuild(p, b) \/ PublishBuild(p, b) \/ DeleteBuild(p, b)
         \/ PublishMutation(p, b) \/ CreateBuildTag(p, b)
         \/ RemoveBuildTag(p, b) \/ KeepBuild(p, b) \/ ReleaseBuild(p, b)
         \/ CreateNote(p, b) \/ DeleteCommand(p, b)
  BY DEF Start
<1>2. \A op, step, local : Begin(p, op, b, step, local) =>
         UNCHANGED <<dirs, links, records, crashes>>
  BY DEF Begin
<1> QED
  BY <1>1, <1>2
     DEF PullBuild, PublishBuild, DeleteBuild, PublishMutation, CreateBuildTag,
         RemoveBuildTag, KeepBuild, ReleaseBuild, CreateNote, DeleteCommand

LEMMA CheckCounts ==
    ASSUME [CheckNext]_allVars
    PROVE  crashes' = crashes \/ (crashes < MaxCrashes /\ crashes' = crashes + 1)
<1>1. UNCHANGED allVars => crashes' = crashes
  BY DEF allVars, vars
<1>2. Jobs => crashes' = crashes \/ (crashes < MaxCrashes /\ crashes' = crashes + 1)
  <2>1. ASSUME NEW p \in Procs, Start(p) \/ JobStep(p) \/ JobCrash(p)
        PROVE  crashes' = crashes \/ (crashes < MaxCrashes /\ crashes' = crashes + 1)
    BY <2>1, StartFrame, StepCounts DEF JobStep, JobCrash, Crash
  <2> QED
    BY <2>1 DEF Jobs
<1>3. BeginCheck => crashes' = crashes
  BY DEF BeginCheck, vars
<1>4. \A next : /\ Look(next) => crashes' = crashes
                /\ GoOn(next) => crashes' = crashes
  BY DEF Look, GoOn
<1>5. CheckStep => crashes' = crashes
  BY <1>4
     DEF CheckStep, ListRecords, NextRecord, ExistsTest, Mkdir, ListContent,
         Orphan, ListTags, Target, DirtyTemp, ListJsonRecords, CorruptGbpJson,
         Report
<1> QED
  BY <1>1, <1>2, <1>3, <1>5 DEF CheckNext

\* Beside a check, the jobs do what they always do, and what it has read stays
\* true unless a completed build is deleted.
LEMMA UnracedSteps ==
    ASSUME crashes = 0 /\ ~raced => Inv /\ ListsHold, crashes' = 0, ~raced',
           crashes \in Nat, [CheckNext]_allVars
    PROVE  /\ crashes = 0 /\ ~raced /\ Inv /\ ListsHold
           /\ [Next]_vars /\ ListsHold'
           /\ BeginCheck \/ CheckStep =>
                 UNCHANGED <<vars, json, leftover, raced>>
<1>1. crashes = 0
  BY CheckCounts
<1>2. ASSUME UNCHANGED allVars
      PROVE  /\ crashes = 0 /\ ~raced /\ UNCHANGED <<vars, json, leftover, raced>>
             /\ check' = check
  BY <1>2 DEF allVars, vars, checkVars
<1>3. ASSUME Jobs
      PROVE  /\ crashes = 0 /\ ~raced /\ Next /\ check' = check
             /\ check # Nil => \A b \in Builds : Completed(b) => Completed(b)'
  <2>1. PICK p \in Procs : Start(p) \/ JobStep(p) \/ JobCrash(p)
    BY <1>3 DEF Jobs
  <2>2. Start(p) \/ Step(p) \/ Crash(p)
    BY <2>1 DEF JobStep, JobCrash
  <2>3. Next
    BY <2>2 DEF Next
  <2>4. /\ ~raced /\ check' = check
        /\ check # Nil => \A b \in Builds : Completed(b) => Completed(b)'
    BY <1>3 DEF Jobs
  <2> QED
    BY <1>1, <2>3, <2>4
<1>4. ASSUME BeginCheck \/ CheckStep PROVE ~raced
  <2>1. \A next : /\ Look(next) => raced' = raced
                  /\ GoOn(next) => raced' = raced
    BY DEF Look, GoOn
  <2>2. BeginCheck => raced' = raced
    BY DEF BeginCheck
  <2>3. CheckStep => raced' = raced
    BY <2>1
       DEF CheckStep, ListRecords, NextRecord, ExistsTest, Mkdir, ListContent,
           Orphan, ListTags, Target, DirtyTemp, ListJsonRecords, CorruptGbpJson,
           Report
  <2> QED
    BY <1>4, <2>2, <2>3
<1>5. crashes = 0 /\ ~raced /\ Inv /\ ListsHold
  BY <1>1, <1>2, <1>3, <1>4 DEF CheckNext
<1>6. ASSUME BeginCheck \/ CheckStep
      PROVE  UNCHANGED <<vars, json, leftover, raced>> /\ ListsHold'
  BY <1>5, <1>6, InvStores, CheckIsReader, CheckKeepsLists
<1>7. [Next]_vars
  BY <1>2, <1>3, <1>6 DEF CheckNext
<1>8. ListsHold'
  <2>1. ASSUME check' = check,
               check # Nil => \A b \in Builds : Completed(b) => Completed(b)'
        PROVE  ListsHold'
    BY <1>5, <2>1 DEF ListsHold, Check
  <2>2. UNCHANGED allVars => \A b \in Builds : Completed(b) => Completed(b)'
    BY DEF allVars, vars, Completed
  <2> QED
    BY <1>2, <1>3, <1>6, <2>1, <2>2 DEF CheckNext
<1> QED
  BY <1>5, <1>6, <1>7, <1>8

LEMMA LeavesInit ==
    ASSUME CheckInit
    PROVE  Inv /\ ListsHold /\ crashes = 0 /\ ~raced
BY InitInv DEF CheckInit, ListsHold, Init

\* LeavesInv is inductive as long as processes do not write the same build.
LEMMA LeavesInvPreserved ==
    ASSUME LeavesInv, crashes \in Nat, ~raced => Orderly, ~raced' => Orderly',
           [CheckNext]_allVars
    PROVE  LeavesInv'
<1>1. SUFFICES ASSUME crashes' = 0, ~raced' PROVE Inv' /\ ListsHold'
  BY DEF LeavesInv
<1>2. ~raced /\ Inv /\ [Next]_vars /\ ListsHold'
  BY <1>1, UnracedSteps DEF LeavesInv
<1>3. TypeOK'
  BY <1>2, NextType DEF Inv
<1> QED
  BY <1>1, <1>2, <1>3, NextPreserves

\* Beside jobs that do not write the same build, and as long as no completed
\* build is deleted during a check, the check leaves builds as consistent as
\* they are without it: an aux directory is made only where mkdir() finds that
\* it exists.
THEOREM LeavesInvariant == CheckSpec /\ []Orderly => []LeavesInv
<1>1. CheckInit => LeavesInv /\ crashes \in Nat
  BY LeavesInit DEF LeavesInv
<1>2. LeavesInv /\ crashes \in Nat /\ Orderly /\ Orderly' /\ [CheckNext]_allVars
      => LeavesInv'
  BY LeavesInvPreserved
<1>3. crashes \in Nat /\ [CheckNext]_allVars => (crashes \in Nat)'
  BY CheckCounts
<1> QED
  BY <1>1, <1>2, <1>3, PTL DEF CheckSpec, allVars

\* So it leaves no tree without a record behind.
THEOREM ChecksAreHarmless == CheckSpec /\ []Orderly => []ChecksLeaveNothing
<1>1. LeavesInv => ChecksLeaveNothing
  BY DEF LeavesInv, ChecksLeaveNothing, Inv
<1> QED
  BY <1>1, LeavesInvariant, PTL

\* What is known of a deployment of separate processes while nothing has raced
\* with a check.
CalmInv ==
    /\ crashes = 0
    /\ ~raced => Inv /\ ListsHold /\ AsUsed /\ Found

LEMMA CalmInvPreserved ==
    Separate => (CalmInv /\ [CheckNext]_allVars => CalmInv')
<1> SUFFICES ASSUME Separate
             PROVE  CalmInv /\ [CheckNext]_allVars => CalmInv'
  OBVIOUS
<1>a. TypeOK /\ AsUsed => Exclusive
  BY WritersApartExclusive DEF Separate
<1>b. TypeOK' /\ AsUsed' => Exclusive'
  BY <1>a, PTL
<1> SUFFICES ASSUME CalmInv, [CheckNext]_allVars PROVE CalmInv'
  OBVIOUS
<1>1. crashes' = 0
  BY CheckCounts DEF CalmInv, Separate, WritersApart
<1>2. SUFFICES ASSUME ~raced' PROVE (Inv /\ ListsHold /\ AsUsed /\ Found)'
  BY <1>1 DEF CalmInv
<1>3. /\ ~raced /\ Inv /\ ListsHold /\ AsUsed /\ Found
      /\ [Next]_vars /\ ListsHold'
  BY <1>1, <1>2, UnracedSteps DEF CalmInv
<1>4. TypeOK /\ TypeOK' /\ AsUsed' /\ Found'
  BY <1>3, NextType, AsUsedNext, SeparateFound DEF Inv
<1>5. Exclusive /\ Exclusive'
  BY <1>a, <1>b, <1>3, <1>4
<1>6. Orderly /\ Orderly'
  BY <1>3, <1>4, <1>5 DEF Orderly, Exclusive, Found
<1> QED
  BY <1>3, <1>4, <1>6, NextPreserves

\* It is so in every deployment whose writers are kept apart.
THEOREM SeparateChecksAreHarmless ==
    Separate => (CheckSpec => []ChecksLeaveNothing)
<1> SUFFICES ASSUME Separate PROVE CheckSpec => []ChecksLeaveNothing
  OBVIOUS
<1>1. CheckInit => CalmInv
  BY LeavesInit DEF CalmInv, CheckInit, Init, AsUsed, Found
<1>2. CalmInv /\ [CheckNext]_allVars => CalmInv'
  BY CalmInvPreserved
<1>3. CalmInv => ChecksLeaveNothing
  BY DEF CalmInv, ChecksLeaveNothing, Inv
<1> QED
  BY <1>1, <1>2, <1>3, PTL DEF CheckSpec, allVars

(***************************************************************************)
(* Pulls are no errors                                                     *)
(***************************************************************************)

\* As long as nobody deletes or changes a tag, whatever has a tree has a record.
LEMMA NoOrphans ==
    ASSUME Inv, \A p \in Procs : pc[p] \notin Changes,
           NEW b \in Builds, NEW c \in Content, Exists(b, c)
    PROVE  RecordExists(b)
<1>1. CASE \A p \in Procs : ~WorksOn(p, b)
  BY <1>1 DEF Inv, SettledAtRest, IsSettled, IsCompleted, Gone, Exists, RecordExists
<1>2. CASE \E p \in Procs : WorksOn(p, b)
  <2>1. PICK p \in Procs : WorksOn(p, b)
    BY <1>2
  <2>2. Shape(pc[p], job[p], p, dirs[b], records[b])
    BY <2>1 DEF WorksOn, Inv, InShape
  <2>3. pc[p] \in Steps
    BY <2>1 DEF WorksOn, Inv, TypeOK, JobsTypeOK
  <2>4. ~Gone(dirs[b])
    BY DEF Gone, Exists
  <2>5. IsSettled(dirs[b], records[b]) => records[b] # Nil
    BY <2>4 DEF IsSettled, IsCompleted
  <2> QED
    BY <2>2, <2>3, <2>4, <2>5
       DEF Steps, Changes, Shape, Pulling, IsCompleted, RecordExists, UntagSteps,
           SetTagSteps
<1> QED
  BY <1>1, <1>2

\* A step that neither deletes nor changes a tag removes nothing.
LEMMA NothingGoes ==
    ASSUME Inv, TagInv, NEW p \in Procs, Step(p), pc[p] \notin Changes
    PROVE  /\ UNCHANGED links
           /\ \A b \in Builds : /\ RecordExists(b) => RecordExists(b)'
                                /\ Completed(b) => Completed(b)'
                                /\ \A c \in Content : Exists(b, c) => Exists(b, c)'
<1> DEFINE j == job[p]
<1>1. UNCHANGED links
  <2>1. pc[p] \notin TagSteps
    BY DEF Changes, TagSteps
  <2> QED
    BY <2>1, OtherSteps
<1>2. SUFFICES ASSUME NEW b \in Builds
               PROVE  /\ RecordExists(b) => RecordExists(b)'
                      /\ Completed(b) => Completed(b)'
                      /\ \A c \in Content : Exists(b, c) => Exists(b, c)'
  BY <1>1
<1>3. TypeOK /\ RecordsTypeOK /\ StorageTypeOK
  BY DEF Inv, TypeOK
<1>4. Completed(b) => Completed(b)'
  <2>1. ~Delete(p)
    BY DEF Delete, Changes
  <2> QED
    BY <2>1, OnlyDeleteUncompletes
<1>5. CASE UNCHANGED <<dirs, records>>
  BY <1>5 DEF RecordExists, Exists, Completed
<1>6. CASE j.build # b
  <2>1. dirs'[b] = dirs[b] /\ records'[b] = records[b]
    BY <1>3, <1>6, ChangesOwnBuild
  <2> QED
    BY <2>1 DEF RecordExists, Exists, Completed
<1>7. CASE ~UNCHANGED <<dirs, records>> /\ j.build = b
  <2>1. /\ Submit(p) \/ CopyPath(p) \/ RemoveTree(p) \/ Copy(p) \/ CopyTree(p)
           \/ Complete(p) \/ Save(p)
        /\ j \in Job
    <3>1. ~Delete(p) /\ ~DeleteTree(p) /\ ~DeleteRmtree(p)
      BY DEF Delete, DeleteTree, DeleteRmtree, Changes
    <3> QED
      BY <1>3, <1>7, <3>1, ChangesOwnBuild
  <2>2. Shape(pc[p], j, p, dirs[b], records[b])
    <3>1. pc[p] \in {"submit", "copy_path", "rmtree", "copy", "copytree",
                     "complete", "save"}
      BY <2>1 DEF Submit, CopyPath, RemoveTree, Copy, CopyTree, Complete, Save
    <3> QED
      BY <1>7, <3>1 DEF Inv, InShape, TagOpSteps, SetTagSteps, UntagSteps
  <2>3. CASE Submit(p) \/ Complete(p) \/ Save(p)
    <3>1. UNCHANGED dirs
      BY <2>3 DEF Submit, Complete, Save
    <3>2. /\ [j.record EXCEPT !.note = j.note] \in Record
          /\ [j.record EXCEPT !.completed = TRUE] \in Record
          /\ Edited(j) \in Record
      <4>1. Edited(j) \in {[j.record EXCEPT !.keep = TRUE],
                           [j.record EXCEPT !.keep = FALSE],
                           [j.record EXCEPT !.note = j.note]}
        BY DEF Edited
      <4>2. j.record \in Record /\ j.note \in Notes \cup {Nil}
        BY <2>1 DEF Job
      <4> QED
        BY <4>1, <4>2 DEF Record
    <3>3. records'[b] \in Record
      BY <1>3, <1>7, <2>3, <3>2, SaveValue DEF Submit, Complete, Save
    <3> QED
      BY <1>4, <3>1, <3>3, RecordsAssumption DEF RecordExists, Exists
  <2>4. CASE CopyPath(p) \/ RemoveTree(p) \/ Copy(p) \/ CopyTree(p)
    <3>1. UNCHANGED records
      BY <2>4 DEF CopyPath, RemoveTree, Copy, CopyTree
    <3>2. j.item \in Content
      BY <2>1, JobFields
    <3>3. ~RemoveTree(p)
      BY <2>2 DEF RemoveTree, Shape
    <3>4. ASSUME NEW state \in {"partial", "whole", p}, SetTree(b, j.item, state)
          PROVE  \A c \in Content : Exists(b, c) => Exists(b, c)'
      <4>1. state # "absent"
        BY <3>4, StorageAssumption
      <4>2. \A c \in Content : dirs'[b][c] = IF c = j.item THEN state ELSE dirs[b][c]
        BY <1>3, <3>2, <3>4 DEF SetTree, StorageTypeOK
      <4> QED
        BY <4>1, <4>2 DEF Exists
    <3>5. UNCHANGED dirs => \A c \in Content : Exists(b, c) => Exists(b, c)'
      BY DEF Exists
    <3> QED
      BY <1>4, <1>7, <2>4, <3>1, <3>3, <3>4, <3>5
         DEF CopyPath, Copy, CopyTree, RecordExists
  <2> QED
    BY <2>1, <2>3, <2>4
<1> QED
  BY <1>5, <1>6, <1>7

\* A tree is not removed before its files are.
LEMMA NothingVanishes ==
    ASSUME TypeOK, NEW p \in Procs, Step(p), NEW b \in Builds, NEW c \in Content,
           dirs'[b][c] = "absent"
    PROVE  dirs[b][c] \in {"absent", "partial"}
<1>1. CASE UNCHANGED <<dirs, records>>
  BY <1>1
<1>2. CASE ~UNCHANGED <<dirs, records>>
  <2>1. /\ \/ Submit(p) \/ CopyPath(p) \/ RemoveTree(p) \/ Copy(p)
           \/ CopyTree(p) \/ Complete(p) \/ Delete(p) \/ DeleteTree(p)
           \/ DeleteRmtree(p) \/ Save(p)
        /\ job[p] \in Job
    BY <1>2, ChangesOwnBuild
  <2>2. SUFFICES ASSUME NEW a, a = job[p].build, NEW i, i = job[p].item
                 PROVE  dirs[b][c] \in {"absent", "partial"}
    OBVIOUS
  <2>3. StorageTypeOK /\ a \in Builds /\ i \in Content
    BY <2>1, <2>2, JobFields DEF TypeOK
  <2>4. p \notin {"absent", "partial", "whole"}
    BY StorageAssumption
  <2>5. \A state : SetTree(a, i, state) =>
          dirs'[b][c] = IF b = a /\ c = i THEN state ELSE dirs[b][c]
    BY <2>3, SetTreeValue
  <2>6. ASSUME CopyPath(p) \/ Copy(p) \/ CopyTree(p) \/ DeleteTree(p)
        PROVE  \/ UNCHANGED dirs
               \/ SetTree(a, i, "partial") \/ SetTree(a, i, "whole") \/ SetTree(a, i, p)
    BY <2>2, <2>6 DEF CopyPath, Copy, CopyTree, DeleteTree
  <2>7. ASSUME RemoveTree(p) \/ DeleteRmtree(p)
        PROVE  \/ UNCHANGED dirs
               \/ dirs[a][i] = "partial" /\ SetTree(a, i, "absent")
    BY <2>2, <2>7 DEF RemoveTree, DeleteRmtree
  <2>8. Submit(p) \/ Complete(p) \/ Delete(p) \/ Save(p) => UNCHANGED dirs
    BY DEF Submit, Complete, Delete, Save
  <2>9. CASE UNCHANGED dirs
    BY <2>9
  <2>10. CASE SetTree(a, i, "partial") \/ SetTree(a, i, "whole") \/ SetTree(a, i, p)
    <3>1. ASSUME NEW state, SetTree(a, i, state), state # "absent"
          PROVE  dirs[b][c] = "absent"
      BY <2>5, <3>1
    <3> QED
      BY <2>4, <2>10, <3>1
  <2>11. CASE dirs[a][i] = "partial" /\ SetTree(a, i, "absent")
    BY <2>5, <2>11
  <2> QED
    BY <2>1, <2>6, <2>7, <2>8, <2>9, <2>10, <2>11
<1> QED
  BY <1>1, <1>2

\* What a step makes of the gbp.json of its build.
LEMMA StepWritesJson ==
    ASSUME TypeOK, JsonFits, NEW p \in Procs, JobStep(p)
    PROVE  /\ JsonFits'
           /\ \A b \in Builds \ {job[p].build} : json'[b] = json[b]
           /\ IF pc[p] = "gbp.json"
              THEN json'[job[p].build] \in
                      JsonAfterWrite(job[p].build, pc'[p] = AfterPull(job[p]))
              ELSE json'[job[p].build] \in {json[job[p].build], "missing"}
           /\ dirs'[job[p].build][Binpkgs] = "absent" => json'[job[p].build] = "missing"
<1>1. SUFFICES ASSUME NEW b, b = job[p].build
               PROVE  /\ JsonFits'
                      /\ \A other \in Builds \ {b} : json'[other] = json[other]
                      /\ IF pc[p] = "gbp.json"
                         THEN json'[b] \in JsonAfterWrite(b, pc'[p] = AfterPull(job[p]))
                         ELSE json'[b] \in {json[b], "missing"}
                      /\ dirs'[b][Binpkgs] = "absent" => json'[b] = "missing"
  OBVIOUS
<1>2. Step(p)
  BY DEF JobStep
<1>3. b \in Builds
  BY <1>1, <1>2, StepKeepsRequest, JobFields DEF TypeOK, JobsTypeOK
<1>4. \A other \in Builds \ {b} : dirs'[other] = dirs[other]
  BY <1>1, <1>2, ChangesOwnBuild
<1>5. PICK state \in IF pc[p] = "gbp.json"
                    THEN JsonAfterWrite(b, pc'[p] = AfterPull(job[p]))
                    ELSE JsonAfterMove(b) :
        json' = [json EXCEPT ![b] = state]
  BY <1>1 DEF JobStep
<1>6. /\ \A other \in Builds \ {b} : json'[other] = json[other]
      /\ json'[b] = state
  BY <1>3, <1>5 DEF JsonFits
<1>7. IF pc[p] = "gbp.json"
      THEN state \in JsonAfterWrite(b, pc'[p] = AfterPull(job[p]))
      ELSE state \in {json[b], "missing"}
  BY <1>5 DEF JsonAfterMove
<1>8. ASSUME dirs'[b][Binpkgs] = "absent"
      PROVE  state = "missing"
  <2>1. dirs[b][Binpkgs] \in {"absent", "partial"} /\ dirs[b][Binpkgs] \notin Procs
    BY <1>2, <1>3, <1>8, NothingVanishes, ChecksAssumption, StorageAssumption
  <2>2. CASE pc[p] = "gbp.json"
    <3>1. UNCHANGED dirs
      BY <1>2, <2>2
         DEF Step, Pull, Submit, Download, Extract, CopyPath, RemoveTree, Copy,
             CopyTree, NextTag, Metadata, Complete, GbpJson, Publish, Tag, IsLink,
             Unlink, Symlink, CheckTags, Untag, IsSymlink, RemoveLink, Delete,
             DeleteTree, DeleteRmtree, Edit, Save
    <3>2. ~Exists(b, Binpkgs) /\ json[b] = "missing"
      BY <1>3, <1>8, <3>1 DEF Exists, JsonFits
    <3> QED
      BY <1>7, <2>2, <3>2 DEF JsonAfterWrite
  <2>3. CASE pc[p] # "gbp.json" /\ dirs[b][Binpkgs] = "absent"
    BY <1>3, <1>5, <1>8, <2>3 DEF JsonAfterMove, JsonFits, Exists
  <2>4. CASE pc[p] # "gbp.json" /\ dirs[b][Binpkgs] = "partial"
    BY <1>5, <1>8, <2>1, <2>4 DEF JsonAfterMove
  <2> QED
    BY <2>1, <2>2, <2>3, <2>4
<1>9. JsonFits'
  <2>1. json' \in [Builds -> {"missing", "valid", "corrupt"}]
    <3>1. state \in {"missing", "valid", "corrupt"}
      BY <1>3, <1>7 DEF JsonFits, JsonAfterWrite
    <3> QED
      BY <1>3, <1>5, <3>1 DEF JsonFits
  <2>2. ASSUME NEW other \in Builds, dirs'[other][Binpkgs] = "absent"
        PROVE  json'[other] = "missing"
    <3>1. CASE other = b
      BY <1>6, <1>8, <2>2, <3>1
    <3>2. CASE other # b
      BY <1>4, <1>6, <2>2, <3>2 DEF JsonFits, Exists
    <3> QED
      BY <3>1, <3>2
  <2> QED
    BY <2>1, <2>2 DEF JsonFits, Exists
<1> QED
  BY <1>6, <1>7, <1>8, <1>9

\* A process that begins an operation was idle, and the others go on.
LEMMA StartsAlone ==
    ASSUME TypeOK, NEW p \in Procs, Start(p)
    PROVE  /\ pc[p] = "idle" /\ pc'[p] # "idle"
           /\ pc'[p] \in {"pull", "delete", "publish", "tag", "untag", "check tags",
                          "edit"}
           /\ \A q \in Procs \ {p} : pc'[q] = pc[q] /\ job'[q] = job[q]
<1>1. PICK b \in BuildsUsed[p] :
         \/ PullBuild(p, b) \/ PublishBuild(p, b) \/ DeleteBuild(p, b)
         \/ PublishMutation(p, b) \/ CreateBuildTag(p, b)
         \/ RemoveBuildTag(p, b) \/ KeepBuild(p, b) \/ ReleaseBuild(p, b)
         \/ CreateNote(p, b) \/ DeleteCommand(p, b)
  BY DEF Start
<1>2. ASSUME NEW op, NEW step, NEW local, Begin(p, op, b, step, local), step # "idle"
      PROVE  /\ pc[p] = "idle" /\ pc'[p] # "idle" /\ pc'[p] = step
             /\ \A q \in Procs \ {p} : pc'[q] = pc[q] /\ job'[q] = job[q]
  <2>1. JobsTypeOK /\ Continue(p, step, local) /\ pc[p] = "idle"
    BY <1>2 DEF Begin, TypeOK
  <2>2. /\ pc'[p] = step
        /\ \A q \in Procs \ {p} : pc'[q] = pc[q] /\ job'[q] = job[q]
    BY <2>1, ContinueValue
  <2> QED
    BY <1>2, <2>1, <2>2
<1> QED
  BY <1>1, <1>2
     DEF PullBuild, PublishBuild, DeleteBuild, PublishMutation, CreateBuildTag,
         RemoveBuildTag, KeepBuild, ReleaseBuild, CreateNote, DeleteCommand

\* Whoever fails to write a gbp.json deletes the build.
LEMMA StepKeepsJsonInv ==
    ASSUME Inv, Orderly, JsonInv, NEW p \in Procs, JobStep(p)
    PROVE  JsonInv'
<1>1. SUFFICES ASSUME NEW b, b = job[p].build, NEW j, j = job[p] PROVE JsonInv'
  OBVIOUS
<1>2. TypeOK /\ JobsTypeOK /\ JsonFits /\ Step(p)
  BY DEF Inv, TypeOK, JsonInv, JobStep
<1>3. /\ pc[p] # "idle"
      /\ pc'[p] # "idle" => job'[p].build = b
      /\ \A q \in Procs \ {p} : pc'[q] = pc[q] /\ job'[q] = job[q]
  BY <1>1, <1>2, StepKeepsRequest
<1>4. j \in Job /\ b \in Builds /\ j.item \in Content
  BY <1>1, <1>2, <1>3, JobFields DEF JobsTypeOK
<1>5. /\ JsonFits'
      /\ \A other \in Builds \ {b} : json'[other] = json[other]
      /\ IF pc[p] = "gbp.json"
         THEN json'[b] \in JsonAfterWrite(b, pc'[p] = AfterPull(j))
         ELSE json'[b] \in {json[b], "missing"}
      /\ dirs'[b][Binpkgs] = "absent" => json'[b] = "missing"
  BY <1>1, <1>2, StepWritesJson
<1>6. SUFFICES ASSUME NEW c \in Builds, json'[c] = "corrupt"
               PROVE  \E q \in Procs : WillDeleteJson(q, c)'
  BY <1>5 DEF JsonInv
<1>7. ASSUME NEW q \in Procs, q # p, WillDeleteJson(q, c)
      PROVE  WillDeleteJson(q, c)'
  BY <1>3, <1>7 DEF WillDeleteJson
<1>8. CASE c # b
  <2>1. PICK q \in Procs : WillDeleteJson(q, c)
    BY <1>5, <1>6, <1>8 DEF JsonInv
  <2> QED
    BY <1>1, <1>7, <1>8, <2>1 DEF WillDeleteJson
<1>9. CASE c = b /\ json[b] = "corrupt"
  <2>1. PICK q \in Procs : WillDeleteJson(q, b)
    BY <1>4, <1>9 DEF JsonInv
  <2>2. CASE q # p
    BY <1>7, <1>9, <2>1, <2>2
  <2>3. CASE q = p
    <3>1. pc[p] \in {"delete", "delete tree", "delete rmtree"}
      BY <2>1, <2>3 DEF WillDeleteJson
    <3>2. Shape(pc[p], j, p, dirs[b], records[b])
      <4>1. pc[p] \notin TagOpSteps(j.op)
        BY <3>1 DEF TagOpSteps, SetTagSteps, UntagSteps
      <4> QED
        BY <1>1, <1>3, <4>1 DEF Inv, InShape
    <3>3. Exists(b, Binpkgs) /\ dirs'[b][Binpkgs] # "absent"
      BY <1>2, <1>4, <1>5, <1>6, <1>9 DEF JsonFits
    <3>4. /\ j.item \in Nat /\ j.item <= Binpkgs
          /\ Binpkgs \in Nat /\ N \in Nat /\ Binpkgs <= N
      <4>1. j.item <= Binpkgs
        BY <1>1, <2>1, <2>3 DEF WillDeleteJson
      <4>2. N \in Nat
        BY ContentBounds
      <4>3. Binpkgs \in 1..N /\ j.item \in 1..N
        BY <1>4, ChecksAssumption DEF Content
      <4> QED
        BY <4>1, <4>2, <4>3
    <3>5. /\ Goto(p, "delete tree") => pc'[p] = "delete tree" /\ SameJob(p, j.item)
          /\ Goto(p, "delete rmtree") => pc'[p] = "delete rmtree" /\ SameJob(p, j.item)
          /\ NextItem(p, "delete tree", "idle") /\ j.item < N =>
               pc'[p] = "delete tree" /\ SameJob(p, j.item + 1)
      <4>1. /\ \A next : Goto(p, next) =>
                 pc'[p] = next /\ (next # "idle" => SameJob(p, j.item))
            /\ \A body, after : NextItem(p, body, after) =>
                 IF j.item < N
                 THEN pc'[p] = body /\ (body # "idle" => SameJob(p, j.item + 1))
                 ELSE pc'[p] = after /\ (after # "idle" => SameJob(p, 1))
        BY <1>1, <1>2, <1>3, ControlKeeps
      <4>2. "delete tree" # "idle" /\ "delete rmtree" # "idle"
        OBVIOUS
      <4> QED
        BY <4>1, <4>2
    <3>6. Delete(p) \/ DeleteTree(p) \/ DeleteRmtree(p)
      BY <1>2, <3>1
         DEF Step, Pull, Submit, Download, Extract, CopyPath, RemoveTree, Copy,
             CopyTree, NextTag, Metadata, Complete, GbpJson, Publish, Tag, IsLink,
             Unlink, Symlink, CheckTags, Untag, IsSymlink, RemoveLink, Edit, Save
    <3>7. /\ pc'[p] \in {"delete tree", "delete rmtree"}
          /\ SameJob(p, j.item) \/ (SameJob(p, j.item + 1) /\ j.item < Binpkgs)
      <4>1. CASE Delete(p)
        <5>1. Goto(p, "delete tree")
          BY <4>1 DEF Delete
        <5> QED
          BY <3>5, <5>1
      <4>2. CASE DeleteTree(p)
        <5>1. CASE Exists(b, j.item)
          <6>1. Goto(p, "delete rmtree")
            BY <1>1, <4>2, <5>1 DEF DeleteTree
          <6> QED
            BY <3>5, <6>1
        <5>2. CASE ~Exists(b, j.item)
          <6>1. j.item # Binpkgs
            BY <3>3, <5>2
          <6>2. j.item < Binpkgs /\ j.item < N
            BY <3>4, <6>1
          <6>3. NextItem(p, "delete tree", "idle")
            BY <1>1, <4>2, <5>2 DEF DeleteTree
          <6> QED
            BY <3>5, <6>2, <6>3
        <5> QED
          BY <5>1, <5>2
      <4>3. CASE DeleteRmtree(p)
        <5>1. dirs[b][j.item] = "partial" /\ SetTree(b, j.item, "absent")
          BY <1>1, <3>2, <4>3 DEF DeleteRmtree, Shape
        <5>2. dirs'[b][j.item] = "absent"
          BY <1>2, <1>4, <5>1, SetTreeValue DEF TypeOK
        <5>3. j.item # Binpkgs
          BY <3>3, <5>2
        <5>4. j.item < Binpkgs /\ j.item < N
          BY <3>4, <5>3
        <5>5. NextItem(p, "delete tree", "idle")
          BY <4>3 DEF DeleteRmtree
        <5> QED
          BY <3>5, <5>4, <5>5
      <4> QED
        BY <3>6, <4>1, <4>2, <4>3
    <3>8. job'[p].item <= Binpkgs
      <4>1. job'[p].item = j.item \/ (job'[p].item = j.item + 1 /\ j.item < Binpkgs)
        BY <3>7 DEF SameJob
      <4> QED
        BY <3>4, <4>1
    <3>9. WillDeleteJson(p, c)'
      BY <1>3, <1>9, <3>7, <3>8 DEF WillDeleteJson
    <3> QED
      BY <3>9
  <2> QED
    BY <2>2, <2>3
<1>10. CASE c = b /\ json[b] # "corrupt"
  <2>1. pc[p] = "gbp.json" /\ pc'[p] # AfterPull(j)
    <3>1. pc[p] = "gbp.json"
      BY <1>5, <1>6, <1>10
    <3> QED
      BY <1>5, <1>6, <1>10, <3>1 DEF JsonAfterWrite
  <2>2. Raise(p)
    <3>1. GbpJson(p)
      BY <1>2, <2>1
         DEF Step, Pull, Submit, Download, Extract, CopyPath, RemoveTree, Copy,
             CopyTree, NextTag, Metadata, Complete, Publish, Tag, IsLink, Unlink,
             Symlink, CheckTags, Untag, IsSymlink, RemoveLink, Delete, DeleteTree,
             DeleteRmtree, Edit, Save
    <3>2. Goto(p, AfterPull(j)) => pc'[p] = AfterPull(j)
      BY <1>1, <1>2, <1>3, ControlKeeps
    <3> QED
      BY <1>1, <2>1, <3>1, <3>2 DEF GbpJson
  <2>3. Handler(j) = "delete"
    <3>1. pc[p] \notin TagOpSteps(j.op)
      BY <2>1 DEF TagOpSteps, SetTagSteps, UntagSteps
    <3>2. Shape(pc[p], j, p, dirs[b], records[b])
      BY <1>1, <1>3, <3>1 DEF Inv, InShape
    <3> QED
      BY <2>1, <3>2 DEF Shape, PullSteps, Handler
  <2>4. pc'[p] = "delete" /\ SameJob(p, 1)
    BY <1>1, <1>2, <1>3, <2>2, <2>3, ControlKeeps
  <2>5. 1 <= Binpkgs
    BY ChecksAssumption, ContentBounds DEF Content
  <2>6. WillDeleteJson(p, c)'
    BY <1>3, <1>10, <2>4, <2>5 DEF WillDeleteJson, SameJob
  <2> QED
    BY <2>6
<1> QED
  BY <1>8, <1>9, <1>10

LEMMA JsonInvNext ==
    ASSUME Inv, Orderly, JsonInv, crashes = 0, crashes' = 0, [CheckNext]_allVars,
           BeginCheck \/ CheckStep => UNCHANGED <<vars, json, leftover, raced>>
    PROVE  JsonInv'
<1>1. ASSUME UNCHANGED <<dirs, pc, job, json>> PROVE JsonInv'
  BY <1>1 DEF JsonInv, JsonFits, Exists, WillDeleteJson
<1>2. ASSUME NEW p \in Procs, Start(p), UNCHANGED json PROVE JsonInv'
  <2>1. /\ UNCHANGED dirs /\ pc[p] = "idle"
        /\ \A q \in Procs \ {p} : pc'[q] = pc[q] /\ job'[q] = job[q]
    BY <1>2, StartFrame, StartsAlone DEF Inv
  <2>2. ASSUME NEW q \in Procs, NEW b, WillDeleteJson(q, b)
        PROVE  WillDeleteJson(q, b)'
    BY <2>1, <2>2 DEF WillDeleteJson
  <2>3. JsonFits'
    BY <1>2, <2>1 DEF JsonInv, JsonFits, Exists
  <2> QED
    BY <1>2, <2>2, <2>3 DEF JsonInv
<1>3. CASE Jobs
  <2>1. PICK p \in Procs : \/ Start(p) /\ UNCHANGED json
                           \/ JobStep(p)
                           \/ JobCrash(p)
    BY <1>3 DEF Jobs
  <2>2. ~JobCrash(p)
    BY DEF JobCrash, Crash
  <2> QED
    BY <1>2, <2>1, <2>2, StepKeepsJsonInv
<1>4. CASE BeginCheck \/ CheckStep \/ UNCHANGED allVars
  BY <1>1, <1>4 DEF allVars, checkVars, vars
<1> QED
  BY <1>3, <1>4 DEF CheckNext

\* A check that begins while nobody deletes or changes a tag knows what dangles.
LEMMA BeginFindsNothing ==
    ASSUME BeginCheck, during' < 2
    PROVE  FindsNothing'
<1>1. /\ UNCHANGED <<dirs, links, records, pc, job, raced>> /\ ~raced
  BY DEF BeginCheck, MayBeginCheck, vars
<1>2. \A p \in Procs : pc[p] \notin Changes
  BY DEF BeginCheck, Activity
<1> DEFINE dangling == \E t \in Tags, c \in Content : Dangles(t, c)
<1>3. /\ check'.step = "records" /\ ~check'.errors
      /\ \A t \in Tags : check'.targets[t] = {}
      /\ check'.excuse = dangling
  <2>1. \A excuse \in BOOLEAN :
          LET c == [EmptyCheck EXCEPT !.excuse = excuse] IN
          /\ c.step = "records" /\ ~c.errors /\ c.excuse = excuse
          /\ \A t \in Tags : c.targets[t] = {}
    BY DEF EmptyCheck
  <2>2. check' = [EmptyCheck EXCEPT !.excuse = dangling] /\ dangling \in BOOLEAN
    BY DEF BeginCheck
  <2> QED
    BY <2>1, <2>2
<1>4. ~check'.excuse => \A t \in Tags, c \in Content : ~Dangles(t, c)'
  BY <1>1, <1>3 DEF Dangles, Exists
<1> QED
  BY <1>1, <1>2, <1>3, <1>4 DEF FindsNothing

\* Nor do jobs that neither delete nor change a tag give it anything to find.
LEMMA JobsFindNothing ==
    ASSUME Inv, TagInv, ListsHold, check # Nil, FindsNothing, Jobs, crashes \in Nat,
           crashes' = crashes, during \in 0..2, during' < 2
    PROVE  FindsNothing'
<1>1. PICK p \in Procs : Start(p) \/ Step(p)
  <2>1. PICK p \in Procs : Start(p) \/ JobStep(p) \/ JobCrash(p)
    BY DEF Jobs
  <2>2. ~JobCrash(p)
    <3>1. crashes' = crashes + 1 => crashes' # crashes
      OBVIOUS
    <3> QED
      BY <3>1 DEF JobCrash, Crash
  <2> QED
    BY <2>1, <2>2 DEF JobStep
<1>2. \A q \in Procs : pc[q] \notin Changes
  BY DEF FindsNothing
<1>3. /\ UNCHANGED links
      /\ \A b \in Builds : /\ RecordExists(b) => RecordExists(b)'
                           /\ Completed(b) => Completed(b)'
                           /\ \A c \in Content : Exists(b, c) => Exists(b, c)'
  <2>1. CASE Step(p)
    BY <1>2, <2>1, NothingGoes
  <2>2. CASE Start(p)
    BY <2>2, StartFrame DEF RecordExists, Completed, Exists
  <2> QED
    BY <1>1, <2>1, <2>2
<1>4. check' = check /\ ~raced'
  BY <1>3 DEF Jobs, FindsNothing
<1>5. \A q \in Procs : pc'[q] \notin Changes
  <2>1. SUFFICES ASSUME NEW q \in Procs, pc'[q] \in Changes PROVE FALSE
    OBVIOUS
  <2>2. during' = Worse(during, Activity')
    BY DEF Jobs
  <2>3. Activity' = 2
    BY <2>1 DEF Activity
  <2> QED
    BY <2>2, <2>3 DEF Worse
<1>6. ASSUME NEW t \in Tags, NEW c \in Content, ~Dangles(t, c)
      PROVE  ~Dangles(t, c)'
  <2>1. links[t][c] \in Builds \cup {Nil}
    BY DEF Inv, TypeOK, StorageTypeOK
  <2> QED
    BY <1>3, <1>6, <2>1 DEF Dangles, Exists
<1>7. check.rows \subseteq Builds
  BY DEF ListsHold, Check
<1> QED
  BY <1>3, <1>4, <1>5, <1>6, <1>7 DEF FindsNothing

\* A tag whose links have settled has one target at most.
LEMMA OneTarget ==
    ASSUME NEW target, NEW found, found \subseteq {target}
    PROVE  ~(Cardinality(found) > 1)
<1>1. IsFiniteSet({target}) /\ Cardinality({target}) = 1
  BY FS_Singleton
<1>2. Cardinality(found) \in Nat /\ Cardinality(found) <= 1
  BY <1>1, FS_Subset, FS_CardinalityType
<1> QED
  BY <1>2

\* The check reads what is there, and what is there is in order.
LEMMA CheckFindsNothing ==
    ASSUME Inv, TagInv, ListsHold, FindsNothing, CheckStep, check' # Nil, JsonInv
    PROVE  FindsNothing'
<1> DEFINE Fine(c) ==
             /\ c.step \in {"exists", "mkdir"} /\ c.missing => c.build \notin c.completed
             /\ c.step = "orphan" => \A b \in c.rows : RecordExists(b)
             /\ \A t \in Tags : c.targets[t] \subseteq {links[t][1]}
             /\ ~c.excuse => \A t \in Tags, c2 \in Content : ~Dangles(t, c2)
             /\ c.errors => c.excuse
<1>1. UNCHANGED <<dirs, links, records, pc, job, raced>>
  BY InvStores, CheckIsReader DEF vars
<1>2. SUFFICES ASSUME TRUE PROVE Fine(check')
  <2>1. \A b : RecordExists(b)' <=> RecordExists(b)
    BY <1>1 DEF RecordExists
  <2>2. \A t, c : Dangles(t, c)' <=> Dangles(t, c)
    BY <1>1 DEF Dangles, Exists
  <2> QED
    BY <1>1, <2>1, <2>2 DEF FindsNothing
<1>3. check # Nil /\ check \in Check
  BY DEF ListsHold, CheckStep, ListRecords, NextRecord, ExistsTest, Mkdir,
         ListContent, Orphan, ListTags, Target, DirtyTemp, ListJsonRecords,
         CorruptGbpJson, Report
<1>4. Fine(check)
  BY DEF FindsNothing
<1>5. \A next : Look(next) => check' = next
  BY DEF Look, GoOn
<1>6. ASSUME NEW c, c.step \notin {"exists", "mkdir", "orphan"},
             c.targets = check.targets, c.excuse = check.excuse,
             c.errors = check.errors
      PROVE  Fine(c)
  BY <1>4, <1>6
<1>7. \A b \in check.completed : b \in Builds /\ Completed(b) /\ Whole(dirs[b])
  BY <1>3, InvWhole DEF ListsHold, Check, CompletedIsWhole
<1>8. ASSUME NEW missing \in BOOLEAN, missing => check.build \notin check.completed
      PROVE  Fine(AfterContent(missing))
  <2>1. CASE check.item < N
    <3>1. AfterContent(missing) =
            [check EXCEPT !.step = "exists", !.item = @ + 1, !.missing = missing]
      BY <2>1 DEF AfterContent
    <3>2. \A i : LET c == [check EXCEPT !.step = "exists", !.item = i,
                                        !.missing = missing] IN
                 /\ c.step = "exists" /\ c.missing = missing
                 /\ c.build = check.build /\ c.completed = check.completed
                 /\ c.targets = check.targets /\ c.excuse = check.excuse
                 /\ c.errors = check.errors
      BY <1>3 DEF Check
    <3> QED
      BY <1>4, <1>8, <3>1, <3>2
  <2>2. CASE ~(check.item < N)
    <3>1. \A e, w \in BOOLEAN :
            LET c == [check EXCEPT !.step = "next", !.missing = FALSE,
                                   !.errors = e, !.warnings = w] IN
            /\ c.step = "next" /\ c.targets = check.targets
            /\ c.excuse = check.excuse /\ c.errors = e
      BY <1>3 DEF Check
    <3> DEFINE e == check.errors \/ (missing /\ check.build \in check.completed)
               w == check.warnings \/ (missing /\ check.build \notin check.completed)
    <3>2. AfterContent(missing) = [check EXCEPT !.step = "next", !.missing = FALSE,
                                                !.errors = e, !.warnings = w]
      BY <2>2 DEF AfterContent
    <3>3. e \in BOOLEAN /\ w \in BOOLEAN /\ (e <=> check.errors)
      BY <1>8
    <3>4. check.errors \in BOOLEAN
      BY <1>3 DEF Check
    <3> HIDE DEF e, w, Fine
    <3>5. e = check.errors
      BY <3>3, <3>4
    <3> DEFINE c == [check EXCEPT !.step = "next", !.missing = FALSE,
                                  !.errors = e, !.warnings = w]
    <3>6. /\ c.step = "next" /\ c.targets = check.targets
          /\ c.excuse = check.excuse /\ c.errors = e
      BY <3>1, <3>3
    <3>7. AfterContent(missing) = c
      BY <3>2
    <3> HIDE DEF c
    <3>8. Fine(c)
      BY <1>6, <3>5, <3>6
    <3> QED
      BY <3>7, <3>8
  <2> QED
    BY <2>1, <2>2
<1>9. ListRecords \/ ListJsonRecords => Fine(check')
  <2>1. \A step : LET c == Listed(step) IN
                  /\ c.step = step /\ c.targets = check.targets
                  /\ c.excuse = check.excuse /\ c.errors = check.errors
    BY <1>3 DEF Listed, Check
  <2> HIDE DEF Fine
  <2>2. \A step \in {"next", "gbp.json"} : Fine(Listed(step))
    BY <1>6, <2>1
  <2> QED
    BY <1>5, <2>2 DEF ListRecords, ListJsonRecords
<1>10. NextRecord => Fine(check')
  <2>1. \A b, rows : Fine([check EXCEPT !.step = "exists", !.build = b, !.item = 1,
                                        !.missing = FALSE, !.rows = rows])
    BY <1>3, <1>4 DEF Check
  <2>2. Fine([check EXCEPT !.step = "orphans", !.item = 1, !.completed = {},
                           !.build = Nil])
    BY <1>3, <1>4 DEF Check
  <2> HIDE DEF Fine
  <2>3. ASSUME NEW b, Look([check EXCEPT !.step = "exists", !.build = b, !.item = 1,
                                         !.missing = FALSE, !.rows = @ \ {b}])
        PROVE  Fine(check')
    <3> HIDE DEF Fine
    <3>1. check' = [check EXCEPT !.step = "exists", !.build = b, !.item = 1,
                                 !.missing = FALSE, !.rows = @ \ {b}]
      BY <1>5, <2>3
    <3> QED
      BY <2>1, <3>1
  <2>4. ASSUME Look([check EXCEPT !.step = "orphans", !.item = 1,
                                  !.completed = {}, !.build = Nil])
        PROVE  Fine(check')
    BY <1>5, <2>2, <2>4
  <2> QED
    BY <2>3, <2>4 DEF NextRecord
<1>11. ExistsTest => Fine(check')
  <2>1. SUFFICES ASSUME ExistsTest PROVE Fine(check')
    OBVIOUS
  <2>2. check.build \in check.completed => Exists(check.build, check.item)
    BY <1>3, <1>7 DEF Whole, Exists, Check
  <2>3. check.missing \in BOOLEAN
        /\ (check.missing => check.build \notin check.completed)
    BY <1>3, <1>4, <2>1 DEF ExistsTest, Check
  <2>4. \/ Look(AfterContent(check.missing))
        \/ check.build \notin check.completed /\ Look(AfterContent(TRUE))
    BY <2>1, <2>2 DEF ExistsTest
  <2> HIDE DEF Fine
  <2>5. ASSUME NEW missing \in BOOLEAN, Look(AfterContent(missing)),
               missing => check.build \notin check.completed
        PROVE  Fine(check')
    BY <1>5, <1>8, <2>5
  <2> QED
    BY <2>3, <2>4, <2>5
<1>12. ~Mkdir
  <2>1. SUFFICES ASSUME Mkdir PROVE FALSE
    OBVIOUS
  <2>2. check.build \in check.completed
    BY <2>1 DEF Mkdir, ListsHold
  <2>3. Exists(check.build, Aux)
    BY <1>7, <2>2, ChecksAssumption DEF Whole, Exists
  <2> QED
    BY <1>5, <2>1, <2>3 DEF Mkdir
<1>13. ListContent => Fine(check')
  <2>1. check.item \in Content
    BY <1>3 DEF Check
  <2>2. \A b \in Builds : Exists(b, check.item) => RecordExists(b)
    BY <2>1, NoOrphans DEF FindsNothing
  <2>3. \A rows, tags :
          LET c == [check EXCEPT !.step = "orphan", !.rows = rows, !.tags = tags] IN
          /\ c.step = "orphan" /\ c.targets = check.targets
          /\ c.excuse = check.excuse /\ c.errors = check.errors /\ c.rows = rows
    BY <1>3 DEF Check
  <2> DEFINE here == {b \in Builds : Exists(b, check.item)}
             tagged == {t \in Tags : links[t][check.item] # Nil}
  <2>4. SUFFICES ASSUME check' = [check EXCEPT !.step = "orphan", !.rows = here,
                                               !.tags = tagged]
                 PROVE  Fine(check')
    BY <1>5 DEF ListContent
  <2>5. \A b \in here : RecordExists(b)
    BY <2>2
  <2> HIDE DEF here, tagged
  <2>6. /\ check'.step = "orphan" /\ check'.targets = check.targets
        /\ check'.excuse = check.excuse /\ check'.errors = check.errors
        /\ check'.rows = here
    BY <2>3, <2>4
  <2> QED
    BY <1>4, <2>5, <2>6
<1>14. Orphan => Fine(check')
  <2>1. SUFFICES ASSUME Orphan PROVE Fine(check')
    OBVIOUS
  <2>2. check.item \in Content /\ check.errors \in BOOLEAN /\ check.excuse \in BOOLEAN
    BY <1>3 DEF Check
  <2>3. ASSUME NEW b \in check.rows,
               Look([check EXCEPT !.rows = @ \ {b}, !.errors = @ \/ ~RecordExists(b)])
        PROVE  Fine(check')
    <3>1. RecordExists(b)
      BY <1>4, <2>1, <2>3 DEF Orphan
    <3>2. (check.errors \/ ~RecordExists(b)) = check.errors
      BY <2>2, <3>1
    <3>3. check' = [check EXCEPT !.rows = @ \ {b}, !.errors = check.errors]
      BY <1>5, <2>3, <3>2
    <3>4. /\ check'.step = check.step /\ check'.targets = check.targets
          /\ check'.excuse = check.excuse /\ check'.errors = check.errors
          /\ check'.rows \subseteq check.rows
      BY <1>3, <3>3 DEF Check
    <3> QED
      BY <1>4, <2>1, <3>4 DEF Orphan
  <2>4. ASSUME NEW t \in check.tags,
               Look([check EXCEPT !.tags = @ \ {t},
                                  !.errors = @ \/ Dangles(t, check.item)])
        PROVE  Fine(check')
    <3>1. t \in Tags
      BY <1>3, <2>4 DEF Check
    <3>2. check.errors \/ Dangles(t, check.item) => check.excuse
      BY <1>4, <2>2, <3>1
    <3>3. \A e \in BOOLEAN : LET c == [check EXCEPT !.tags = @ \ {t}, !.errors = e] IN
            /\ c.step = check.step /\ c.targets = check.targets
            /\ c.excuse = check.excuse /\ c.errors = e /\ c.rows = check.rows
      BY <1>3 DEF Check
    <3> DEFINE e == check.errors \/ Dangles(t, check.item)
    <3>4. check' = [check EXCEPT !.tags = @ \ {t}, !.errors = e] /\ e \in BOOLEAN
      BY <1>5, <2>4
    <3>5. e => check.excuse
      BY <3>2
    <3> HIDE DEF e
    <3>6. /\ check'.step = check.step /\ check'.targets = check.targets
          /\ check'.excuse = check.excuse /\ check'.errors = e
          /\ check'.rows = check.rows
      BY <3>3, <3>4
    <3> QED
      BY <1>4, <2>1, <3>5, <3>6 DEF Orphan
  <2>5. ASSUME Look(IF check.item < N
                    THEN [check EXCEPT !.step = "orphans", !.item = @ + 1]
                    ELSE [check EXCEPT !.step = "tags", !.item = 1])
        PROVE  Fine(check')
    <3>1. \A step, i : LET c == [check EXCEPT !.step = step, !.item = i] IN
            /\ c.step = step /\ c.targets = check.targets
            /\ c.excuse = check.excuse /\ c.errors = check.errors
      BY <1>3 DEF Check
    <3> HIDE DEF Fine
    <3>2. ASSUME NEW step \in {"orphans", "tags"}, NEW i
          PROVE  Fine([check EXCEPT !.step = step, !.item = i])
      <4>1. SUFFICES ASSUME NEW c, c = [check EXCEPT !.step = step, !.item = i]
                     PROVE  Fine(c)
        OBVIOUS
      <4>2. /\ c.step = step /\ c.targets = check.targets
            /\ c.excuse = check.excuse /\ c.errors = check.errors
        BY <3>1, <4>1
      <4>3. c.step \notin {"exists", "mkdir", "orphan"}
        BY <4>2
      <4> QED
        BY <1>6, <4>2, <4>3
    <3>3. \/ check' = [check EXCEPT !.step = "orphans", !.item = @ + 1]
          \/ check' = [check EXCEPT !.step = "tags", !.item = 1]
      BY <1>5, <2>5
    <3> QED
      BY <3>2, <3>3
  <2> HIDE DEF Fine
  <2> QED
    BY <2>1, <2>3, <2>4, <2>5 DEF Orphan
<1>15. ListTags => Fine(check')
  <2>1. \A tags : LET c == [check EXCEPT !.step = "target", !.tags = tags] IN
          /\ c.step = "target" /\ c.targets = check.targets
          /\ c.excuse = check.excuse /\ c.errors = check.errors
    BY <1>3 DEF Check
  <2> HIDE DEF Fine
  <2>2. \A tags : Fine([check EXCEPT !.step = "target", !.tags = tags])
    BY <1>6, <2>1
  <2> QED
    BY <1>5, <2>2 DEF ListTags
<1>16. DirtyTemp => Fine(check')
  <2>1. \A w \in BOOLEAN :
          LET c == [check EXCEPT !.step = "json records", !.warnings = w] IN
          /\ c.step = "json records" /\ c.targets = check.targets
          /\ c.excuse = check.excuse /\ c.errors = check.errors
    BY <1>3 DEF Check
  <2> HIDE DEF Fine
  <2>2. \A w \in BOOLEAN :
          Fine([check EXCEPT !.step = "json records", !.warnings = w])
    BY <1>6, <2>1
  <2> DEFINE w == check.warnings \/ leftover \/ \E p \in Procs : pc[p] \in TempSteps
  <2>3. DirtyTemp => check' = [check EXCEPT !.step = "json records", !.warnings = w]
    BY <1>5 DEF DirtyTemp
  <2>4. w \in BOOLEAN
    OBVIOUS
  <2> HIDE DEF w
  <2> QED
    BY <2>2, <2>3, <2>4
<1>17. CorruptGbpJson \/ Report => Fine(check')
  <2>1. ASSUME CorruptGbpJson, NEW b \in FirstRows,
               NEW state \in {json[b]} \cup
                                (IF BeingWritten(b) THEN {"corrupt"} ELSE {}),
               Look([check EXCEPT !.rows = @ \ {b},
                                  !.warnings = @ \/ Warns(state),
                                  !.errors = @ \/ state = "corrupt",
                                  !.excuse = @ \/ BeingWritten(b)])
        PROVE  Fine(check')
    <3>1. \A w, e, x \in BOOLEAN :
            LET c == [check EXCEPT !.rows = @ \ {b}, !.warnings = w, !.errors = e,
                                   !.excuse = x] IN
            /\ c.step = check.step /\ c.targets = check.targets
            /\ c.excuse = x /\ c.errors = e
      BY <1>3 DEF Check
    <3> DEFINE w == check.warnings \/ Warns(state)
               e == check.errors \/ state = "corrupt"
               x == check.excuse \/ BeingWritten(b)
    <3>2. check' = [check EXCEPT !.rows = @ \ {b}, !.warnings = w, !.errors = e,
                                 !.excuse = x]
      BY <1>5, <2>1
    <3>3. w \in BOOLEAN /\ e \in BOOLEAN /\ x \in BOOLEAN
      OBVIOUS
    <3>4. state = "corrupt" => BeingWritten(b)
      <4>1. b \in Builds
        BY <1>3 DEF FirstRows, Check
      <4>2. json[b] # "corrupt"
        BY <4>1 DEF JsonInv, WillDeleteJson, FindsNothing, Changes
      <4> QED
        BY <2>1, <4>2
    <3>5. (e => x) /\ (check.excuse => x)
      BY <1>4, <3>4
    <3> HIDE DEF w, e, x
    <3>6. /\ check'.step = check.step /\ check'.targets = check.targets
          /\ check'.excuse = x /\ check'.errors = e
      BY <3>1, <3>2, <3>3
    <3>7. check.step = "gbp.json"
      BY <2>1 DEF CorruptGbpJson
    <3> QED
      BY <1>4, <3>5, <3>6, <3>7
  <2>2. ASSUME Look([check EXCEPT !.step = "report", !.completed = {}])
        PROVE  Fine(check')
    <3>1. LET c == [check EXCEPT !.step = "report", !.completed = {}] IN
          /\ c.step = "report" /\ c.targets = check.targets
          /\ c.excuse = check.excuse /\ c.errors = check.errors
      BY <1>3 DEF Check
    <3> HIDE DEF Fine
    <3> QED
      BY <1>5, <1>6, <2>2, <3>1
  <2>3. ~Report
    BY <1>5 DEF Report
  <2> HIDE DEF Fine
  <2> QED
    BY <2>1, <2>2, <2>3 DEF CorruptGbpJson
<1>18. Target => Fine(check')
  <2>1. ASSUME NEW t \in check.tags, Target,
               Look([check EXCEPT !.tags = @ \ {t},
                  !.targets[t] = @ \cup ({links[t][check.item]} \ {Nil})])
        PROVE  Fine(check')
    <3>1. t \in Tags /\ check.item \in Content /\ 1 \in Content
      BY <1>3, <2>1, ContentBounds DEF Check
    <3>2. links[t][check.item] = links[t][1]
      <4>1. \A p \in Procs : pc[p] \notin TagSteps
        BY DEF FindsNothing, Changes, TagSteps
      <4> QED
        BY <3>1, <4>1 DEF TagInv, TagsSettle
    <3>3. \A set : LET c == [check EXCEPT !.tags = @ \ {t},
                                          !.targets[t] = @ \cup set] IN
            /\ c.step = check.step /\ c.excuse = check.excuse
            /\ c.errors = check.errors
            /\ \A u \in Tags : c.targets[u] = IF u = t THEN check.targets[t] \cup set
                                              ELSE check.targets[u]
      BY <1>3, <3>1 DEF Check
    <3> DEFINE set == {links[t][check.item]} \ {Nil}
    <3>4. check' = [check EXCEPT !.tags = @ \ {t}, !.targets[t] = @ \cup set]
      BY <1>5, <2>1
    <3>5. set \subseteq {links[t][1]}
      BY <3>2
    <3> HIDE DEF set
    <3>6. /\ check'.step = check.step /\ check'.excuse = check.excuse
          /\ check'.errors = check.errors
          /\ \A u \in Tags : check'.targets[u] =
                IF u = t THEN check.targets[t] \cup set ELSE check.targets[u]
      BY <3>3, <3>4
    <3>7. \A u \in Tags : check'.targets[u] \subseteq {links[u][1]}
      BY <1>4, <3>5, <3>6
    <3>8. check.step = "target"
      BY <2>1 DEF Target
    <3> QED
      BY <1>4, <3>6, <3>7, <3>8
  <2>2. ASSUME Look(IF check.item < N
                    THEN [check EXCEPT !.step = "tags", !.item = @ + 1]
                    ELSE [check EXCEPT !.step = "temp", !.item = 1,
                            !.targets = [t \in Tags |-> {}],
                            !.errors = @ \/ \E t \in Tags :
                                  Cardinality(check.targets[t]) > 1])
        PROVE  Fine(check')
    <3>1. CASE check.item < N
      <4>1. \A i : LET c == [check EXCEPT !.step = "tags", !.item = i] IN
              /\ c.step = "tags" /\ c.targets = check.targets
              /\ c.excuse = check.excuse /\ c.errors = check.errors
        BY <1>3 DEF Check
      <4> HIDE DEF Fine
      <4>2. \A i : Fine([check EXCEPT !.step = "tags", !.item = i])
        BY <1>6, <4>1
      <4>3. check' = [check EXCEPT !.step = "tags", !.item = @ + 1]
        BY <1>5, <2>2, <3>1
      <4> QED
        BY <4>2, <4>3
    <3>2. CASE ~(check.item < N)
      <4>1. \A e \in BOOLEAN :
              LET c == [check EXCEPT !.step = "temp", !.item = 1,
                                     !.targets = [t \in Tags |-> {}], !.errors = e] IN
              /\ c.step = "temp" /\ c.excuse = check.excuse /\ c.errors = e
              /\ \A t \in Tags : c.targets[t] = {}
        BY <1>3 DEF Check
      <4>2. \A t \in Tags : ~(Cardinality(check.targets[t]) > 1)
        BY <1>4, OneTarget
      <4> DEFINE e == check.errors \/ \E t \in Tags :
                                           Cardinality(check.targets[t]) > 1
      <4>3. check' = [check EXCEPT !.step = "temp", !.item = 1,
                                   !.targets = [t \in Tags |-> {}], !.errors = e]
        BY <1>5, <2>2, <3>2
      <4>4. e \in BOOLEAN /\ (e => check.errors)
        BY <4>2
      <4> HIDE DEF e
      <4>5. /\ check'.step = "temp" /\ check'.excuse = check.excuse
            /\ check'.errors = e /\ \A t \in Tags : check'.targets[t] = {}
        BY <4>1, <4>3, <4>4
      <4> QED
        BY <1>4, <4>4, <4>5
    <3> QED
      BY <3>1, <3>2
  <2> HIDE DEF Fine
  <2> QED
    BY <2>1, <2>2 DEF Target
<1> HIDE DEF Fine
<1> QED
  BY <1>9, <1>10, <1>11, <1>12, <1>13, <1>14, <1>15, <1>16, <1>17, <1>18
     DEF CheckStep

LEMMA DuringType ==
    ASSUME during \in 0..2, [CheckNext]_allVars
    PROVE  during' \in 0..2
<1>1. Activity \in 0..2 /\ Activity' \in 0..2
  BY DEF Activity
<1>2. Jobs => during' \in 0..2
  BY <1>1 DEF Jobs, Worse
<1>3. BeginCheck => during' \in 0..2
  BY <1>1 DEF BeginCheck
<1>4. \A next : /\ Look(next) => during' = during
                /\ GoOn(next) => during' = during
  BY DEF Look, GoOn
<1>5. CheckStep => during' = during
  BY <1>4
     DEF CheckStep, ListRecords, NextRecord, ExistsTest, Mkdir, ListContent,
         Orphan, ListTags, Target, DirtyTemp, ListJsonRecords, CorruptGbpJson,
         Report
<1> QED
  BY <1>2, <1>3, <1>5 DEF CheckNext, allVars, checkVars

\* NoErrorsInv is inductive as long as processes do not write the same build
\* nor change the same tag.
LEMMA NoErrorsInvPreserved ==
    ASSUME NoErrorsInv, crashes \in Nat, during \in 0..2, [CheckNext]_allVars,
           ~raced => Orderly /\ TagsApart, ~raced' => Orderly' /\ TagsApart'
    PROVE  NoErrorsInv'
<1>1. LeavesInv'
  BY LeavesInvPreserved DEF NoErrorsInv
<1>2. SUFFICES ASSUME crashes' = 0
      PROVE  /\ ~raced' => TagInv' /\ JsonInv'
             /\ check' # Nil /\ during' < 2 => FindsNothing'
  BY <1>1 DEF NoErrorsInv
<1>3. crashes = 0
  BY <1>2, CheckCounts
<1>4. /\ LeavesInv /\ (~raced => TagInv /\ JsonInv)
      /\ check # Nil /\ during < 2 => FindsNothing
  BY <1>3 DEF NoErrorsInv
<1>5. ASSUME ~raced' PROVE TagInv' /\ JsonInv'
  <2>1. /\ ~raced /\ Inv /\ [Next]_vars
        /\ BeginCheck \/ CheckStep => UNCHANGED <<vars, json, leftover, raced>>
    BY <1>2, <1>4, <1>5, UnracedSteps DEF LeavesInv
  <2>2. TypeOK'
    BY <2>1, NextType DEF Inv
  <2>3. TagInv'
    BY <1>4, <1>5, <2>1, <2>2, TagNextPreserves
  <2>4. JsonInv'
    BY <1>2, <1>3, <1>4, <2>1, JsonInvNext
  <2> QED
    BY <2>3, <2>4
<1>7. ASSUME check' # Nil, during' < 2 PROVE FindsNothing'
  <2>1. ASSUME check # Nil, during < 2
        PROVE  FindsNothing /\ Inv /\ ListsHold /\ TagInv /\ JsonInv
    BY <1>3, <1>4, <2>1 DEF LeavesInv, FindsNothing
  <2>2. CASE BeginCheck
    BY <1>7, <2>2, BeginFindsNothing
  <2>3. CASE Jobs
    <3>1. check # Nil
      BY <1>7, <2>3 DEF Jobs
    <3>2. during < 2
      <4>1. Activity' \in 0..2
        BY DEF Activity
      <4> QED
        BY <1>7, <2>3, <3>1, <4>1 DEF Jobs, Worse
    <3> QED
      BY <1>2, <1>3, <1>7, <2>1, <2>3, <3>1, <3>2, JobsFindNothing
  <2>4. CASE CheckStep
    <3>1. \A next : /\ Look(next) => during' = during
                    /\ GoOn(next) => during' = during
      BY DEF Look, GoOn
    <3>2. check # Nil /\ during' = during
      BY <2>4, <3>1
         DEF CheckStep, ListRecords, NextRecord, ExistsTest, Mkdir, ListContent,
             Orphan, ListTags, Target, DirtyTemp, ListJsonRecords, CorruptGbpJson,
             Report
    <3> QED
      BY <1>4, <1>7, <2>1, <2>4, <3>2, CheckFindsNothing
  <2>5. CASE UNCHANGED allVars
    <3>1. /\ UNCHANGED <<dirs, links, records, pc, job, raced>>
          /\ check' = check /\ during' = during
      BY <2>5 DEF allVars, vars, checkVars
    <3>2. FindsNothing
      BY <1>7, <2>1, <3>1
    <3> QED
      BY <3>1, <3>2 DEF FindsNothing, Dangles, Exists, RecordExists
  <2> QED
    BY <2>2, <2>3, <2>4, <2>5 DEF CheckNext
<1> QED
  BY <1>5, <1>7

LEMMA NoErrorsInit ==
    ASSUME CheckInit
    PROVE  NoErrorsInv /\ crashes \in Nat /\ during \in 0..2
<1>1. JsonInv /\ check = Nil /\ during = 0
  BY DEF CheckInit, JsonInv, JsonFits
<1>2. Inv /\ ListsHold /\ crashes = 0
  BY LeavesInit
<1>3. TagInv
  BY InitTagInv DEF CheckInit
<1> QED
  BY <1>1, <1>2, <1>3 DEF NoErrorsInv, LeavesInv

\* Beside pulls of different builds, and whatever else neither deletes a build
\* nor changes a tag, what a check has in hand at each of its steps is no error:
\* a missing directory is one of a build in progress, a listed build has its
\* record, and links of one tag that are read at different times name one build.
THEOREM NoErrorsInvariant ==
    CheckSpec /\ []Orderly /\ []TagsApart => []NoErrorsInv
<1>1. CheckInit => NoErrorsInv /\ crashes \in Nat /\ during \in 0..2
  BY NoErrorsInit
<1>2. /\ NoErrorsInv /\ crashes \in Nat /\ during \in 0..2
      /\ Orderly /\ Orderly' /\ TagsApart /\ TagsApart' /\ [CheckNext]_allVars
      => NoErrorsInv'
  BY NoErrorsInvPreserved
<1>3. crashes \in Nat /\ during \in 0..2 /\ [CheckNext]_allVars
      => (crashes \in Nat /\ during \in 0..2)'
  BY CheckCounts, DuringType
<1> QED
  BY <1>1, <1>2, <1>3, PTL DEF CheckSpec, allVars

\* So the check has none to report in the end.
THEOREM PullsRaiseNoAlarm ==
    CheckSpec /\ []Orderly /\ []TagsApart => []PullsAreNoErrors
<1>1. NoErrorsInv => PullsAreNoErrors
  BY DEF NoErrorsInv, PullsAreNoErrors, Reporting, FindsNothing
<1> QED
  BY <1>1, NoErrorsInvariant, PTL

\* It is so in every deployment whose writers and whose tags are kept apart.
THEOREM SeparateChecksRaiseNoAlarm ==
    Separate /\ OwnTags => (CheckSpec => []PullsAreNoErrors)
<1> SUFFICES ASSUME Separate, OwnTags PROVE CheckSpec => []PullsAreNoErrors
  OBVIOUS
<1> DEFINE Requests == ~raced => RequestInv
           Apart == ~raced => Orderly /\ TagsApart
<1>1. CheckInit => /\ CalmInv /\ Requests
                   /\ NoErrorsInv /\ crashes \in Nat /\ during \in 0..2
  BY LeavesInit, NoErrorsInit
     DEF CalmInv, CheckInit, Init, AsUsed, Found, RequestInv
<1>2. CalmInv /\ [CheckNext]_allVars => CalmInv'
  BY CalmInvPreserved
<1>3. CalmInv /\ CalmInv' /\ Requests /\ [CheckNext]_allVars => Requests'
  <2>1. SUFFICES ASSUME CalmInv, CalmInv', Requests, [CheckNext]_allVars, ~raced'
                 PROVE  RequestInv'
    OBVIOUS
  <2>2. ~raced /\ Inv /\ [Next]_vars
    BY <2>1, UnracedSteps DEF CalmInv
  <2> QED
    BY <2>1, <2>2, RequestNext DEF Inv
<1>4. CalmInv /\ Requests => Apart
  <2>1. SUFFICES ASSUME CalmInv, Requests, ~raced PROVE Orderly /\ TagsApart
    OBVIOUS
  <2>2. TypeOK /\ AsUsed /\ Found /\ RequestInv
    BY <2>1 DEF CalmInv, Inv
  <2>3. Exclusive
    BY <2>2, WritersApartExclusive DEF Separate
  <2> QED
    BY <2>2, <2>3, OwnTagsApart DEF Orderly, Exclusive, Found
<1>5. /\ NoErrorsInv /\ crashes \in Nat /\ during \in 0..2
      /\ Apart /\ Apart' /\ [CheckNext]_allVars
      => NoErrorsInv'
  BY NoErrorsInvPreserved
<1>6. crashes \in Nat /\ during \in 0..2 /\ [CheckNext]_allVars
      => (crashes \in Nat /\ during \in 0..2)'
  BY CheckCounts, DuringType
<1>7. NoErrorsInv => PullsAreNoErrors
  BY DEF NoErrorsInv, PullsAreNoErrors, Reporting, FindsNothing
<1> HIDE DEF Requests, Apart
<1> QED
  BY <1>1, <1>2, <1>3, <1>4, <1>5, <1>6, <1>7, PTL DEF CheckSpec, allVars

(***************************************************************************)
(* A crash is noticed.  Whatever the interleaving, and whoever dies, some  *)
(* things are known of a job at each of its steps, and so of the record    *)
(* and the trees of its build: Known.  From these it follows which builds  *)
(* a valid gbp.json can belong to: ValidJson.  A check that has passed a   *)
(* record, a tree or a link without a word knows what that means, until    *)
(* the next job begins: Seen.                                              *)
(***************************************************************************)

\* Jobs that only set or remove tags.
TagsOnly == {"createBuildTag", "removeBuildTag"}

\* Of two jobs for the same build, one at most does more than to tag it.
OneJob ==
    \A p, q \in Procs :
        /\ pc[p] # "idle" /\ pc[q] # "idle" /\ job[p].build = job[q].build
        /\ job[p].op \notin TagsOnly /\ job[q].op \notin TagsOnly
        => p = q

Stored(trees) == \A c \in Content : trees[c] # "absent"

\* What is known of a job at a step, and of its build, whether processes die or
\* not: which trees exist, and what the row is.
AtStep(step, j, trees, row) ==
    /\ step \notin LoopSteps => j.item = 1
    /\ step \in PullSteps =>
         Handler(j) = "delete" /\ (j.op = "publish_build" => j.tags = {})
    /\ step = "submit" => (j.record.completed <=> IsCompleted(row))
    /\ step \in {"copy_path", "rmtree", "copy", "copytree"} =>
         \A c \in Content : c < j.item => trees[c] # "absent"
    /\ step = "copytree" => trees[j.item] # "absent"
    /\ step \in {"tags", "metadata", "complete", "gbp.json"} => Stored(trees)
    /\ step = "gbp.json" => IsCompleted(row)
    /\ step \in SetTagSteps =>
         /\ Handler(j) = "delete" <=> j.op = "pull_build"
         /\ j.op = "pull_build" => Stored(trees)
    /\ step = "publish" =>
         j.op \in PublishOps /\ IsCompleted(row) /\ Stored(trees)
    /\ step \in UntagSteps => j.op \in Commands \cup {"removeBuildTag"}
    /\ step \in {"edit", "save"} => j.op \in RecordEdits
    /\ step = "save" => row # Nil /\ j.record.completed = row.completed
    /\ step \in DeletionSteps => j.op \in Tasks \cup Commands
    /\ step \in {"delete tree", "delete rmtree"} => row = Nil
    /\ step = "delete rmtree" => trees[j.item] = "partial"

Known ==
    \A p \in Procs : pc[p] # "idle" =>
        AtStep(pc[p], job[p], dirs[job[p].build], records[job[p].build])

Removing == {"delete tree", "delete rmtree"}

\* Process p, which deletes b, has yet to remove its gbp.json.
WillRemoveJson(p, b) ==
    /\ pc[p] \in Removing
    /\ job[p].build = b /\ job[p].item <= Binpkgs

\* Process p cleans up if its pull of b fails.
CleansUp(p, b) ==
    pc[p] # "idle" /\ job[p].build = b /\ Handler(job[p]) = "delete"

\* A gbp.json is valid only while its build is completed, until the deletion has
\* removed it; but a deletion that was cut short leaves it behind, without a row
\* or in the next pull, which completes the build or cleans up.
ValidJson ==
    \A b \in Builds : json[b] = "valid" /\ ~Completed(b) =>
        \/ \E p \in Procs : WillRemoveJson(p, b)
        \/ crashes > 0 /\ ~RecordExists(b)
        \/ crashes > 0 /\ \E p \in Procs : CleansUp(p, b)

\* Every tree of content c has a record, and every link a target.
Clean(c) == /\ \A b \in Builds : Exists(b, c) => RecordExists(b)
            /\ \A t \in Tags : ~Dangles(t, c)

\* What a check in local state s that has counted no errors and no warnings has
\* seen so far: the trees of the records that it has listed, the records of the
\* trees and the targets of the links, and the gbp.json files.
Seen(s) ==
    LET atRecords == s.step \in {"records", "next", "exists"} IN
    /\ ~atRecords => \A b \in Builds : RecordExists(b) => StoragePulled(b)
    /\ s.step \in {"next", "exists"} =>
         \A b \in Builds : RecordExists(b) =>
            \/ StoragePulled(b) \/ b \in s.rows
            \/ s.step = "exists" /\ b = s.build
    /\ s.step = "exists" =>
         s.missing \/ \A c \in Content : c < s.item => Exists(s.build, c)
    /\ s.step \in {"orphans", "orphan"} =>
         \A c \in Content : c < s.item => Clean(c)
    /\ s.step = "orphan" =>
         /\ \A b \in Builds : Exists(b, s.item) => RecordExists(b) \/ b \in s.rows
         /\ \A t \in Tags : Dangles(t, s.item) => t \in s.tags
    /\ ~atRecords /\ s.step \notin {"orphans", "orphan"} =>
         \A c \in Content : Clean(c)
    /\ s.step \in {"gbp.json", "report"} => \A b \in Builds : RecordExists(b) =>
         json[b] = "valid" \/ (s.step = "gbp.json" /\ b \in s.rows)

\* What a check that no job has interrupted knows.
Undisturbed ==
    /\ \A p \in Procs : pc[p] = "idle"
    /\ check.step = "mkdir" => check.warnings
    /\ check.errors \/ check.warnings \/ Seen(check)

\* The steps of pull() up to its last write of the trees.
FetchSteps == {"submit", "download", "extract", "copy_path", "rmtree", "copy",
               "copytree"}

\* A completed build has its trees, and nobody fetches it.
StoredInv ==
    /\ \A b \in Builds : Completed(b) => StoragePulled(b)
    /\ \A p \in Procs : pc[p] \in FetchSteps => ~Completed(job[p].build)

\* p will remove what there is of the tree of content c of build b.
Clears(p, b, c) ==
    /\ job[p].build = b
    /\ \/ pc[p] = "rmtree" /\ job[p].item = c
       \/ pc[p] \in DeletionSteps /\ job[p].item <= c

Copies(p, b, c) == pc[p] = "copytree" /\ job[p].build = b /\ job[p].item = c

\* A tree that is being copied has its copier, and a tree is damaged only while
\* somebody removes it, or by a process that died.
DamageInv ==
    \A b \in Builds, c \in Content :
        /\ \A p \in Procs : dirs[b][c] = p => Copies(p, b, c)
        /\ dirs[b][c] = "partial" => b \in torn \/ \E p \in Procs : Clears(p, b, c)

\* As long as no completed build is deleted during a check, the check finds no
\* tree missing of the builds that it takes for completed.
TornInv ==
    /\ raced /\ check # Nil => during > 0
    /\ ~raced => ListsHold /\ StoredInv /\ DamageInv

\* The inductive invariant for CrashesAreNoticed.
NoticedInv ==
    /\ TypeOK /\ Known
    /\ JsonFits /\ ValidJson
    /\ during \in 0..2
    /\ check # Nil => check \in Check /\ (during = 0 => Undisturbed)
    /\ TornInv

\* p's job makes the same request as before, and is at content i.
SameRequest(p, i) ==
    /\ SameJob(p, i)
    /\ job'[p].tags = job[p].tags /\ Handler(job'[p]) = Handler(job[p])

\* What a step of p makes of its build, and of what is known of it.
GoesOn(p) ==
    LET b == job[p].build
        row == records[b]
        new == records'[b]
        cleansUp == pc'[p] # "idle" /\ Handler(job'[p]) = "delete" IN
    /\ pc'[p] # "idle" => AtStep(pc'[p], job'[p], dirs'[b], new)
    /\ IsCompleted(row) => \/ IsCompleted(new)
                           \/ pc'[p] = "delete tree" /\ job'[p].item = 1
    /\ row = Nil => new = Nil \/ IsCompleted(new) \/ cleansUp
    /\ Handler(job[p]) = "delete" => cleansUp \/ IsCompleted(new) \/ new = Nil
    /\ pc[p] \in Removing /\ job[p].item <= Binpkgs =>
          \/ pc'[p] \in Removing /\ job'[p].item <= Binpkgs
          \/ dirs'[b][Binpkgs] = "absent" /\ dirs[b][Binpkgs] \notin Procs
    /\ pc[p] = "gbp.json" => IsCompleted(new)

\* What Goto(), NextItem() and Raise() make of what is known of a job.
LEMMA ControlSame ==
    ASSUME TypeOK, NEW p \in Procs, pc[p] # "idle"
    PROVE  /\ \A next : Goto(p, next) =>
                 pc'[p] = next /\ (next # "idle" => SameRequest(p, job[p].item))
           /\ \A body, after : NextItem(p, body, after) =>
                 IF job[p].item < N
                 THEN pc'[p] = body /\ (body # "idle" => SameRequest(p, job[p].item + 1))
                 ELSE pc'[p] = after /\ (after # "idle" => SameRequest(p, 1))
           /\ Raise(p) =>
                 /\ pc'[p] = Handler(job[p])
                 /\ Handler(job[p]) # "idle" => SameRequest(p, 1)
<1>1. JobsTypeOK /\ job[p] \in Job
  BY DEF TypeOK, JobsTypeOK
<1>2. \A i : /\ [job[p] EXCEPT !.item = i].tags = job[p].tags
             /\ Handler([job[p] EXCEPT !.item = i]) = Handler(job[p])
  BY <1>1 DEF Job, Handler
<1>3. /\ \A next : Goto(p, next) =>
            pc'[p] = next /\ (next # "idle" => job'[p] = job[p])
      /\ \A body, after : NextItem(p, body, after) =>
            IF job[p].item < N
            THEN /\ pc'[p] = body
                 /\ body # "idle" =>
                      job'[p] = [job[p] EXCEPT !.item = job[p].item + 1]
            ELSE /\ pc'[p] = after
                 /\ after # "idle" => job'[p] = [job[p] EXCEPT !.item = 1]
      /\ Raise(p) =>
            /\ pc'[p] = Handler(job[p])
            /\ Handler(job[p]) # "idle" => job'[p] = [job[p] EXCEPT !.item = 1]
  BY <1>1, ControlValue
<1>4. ASSUME NEW next, Goto(p, next)
      PROVE  pc'[p] = next /\ (next # "idle" => SameRequest(p, job[p].item))
  BY <1>3, <1>4 DEF SameRequest, SameJob
<1>5. ASSUME NEW body, NEW after, NextItem(p, body, after)
      PROVE  IF job[p].item < N
             THEN pc'[p] = body /\ (body # "idle" => SameRequest(p, job[p].item + 1))
             ELSE pc'[p] = after /\ (after # "idle" => SameRequest(p, 1))
  <2>1. CASE job[p].item < N
    <3>1. /\ pc'[p] = body /\ (body # "idle" => SameJob(p, job[p].item + 1))
          /\ body # "idle" => job'[p] = [job[p] EXCEPT !.item = job[p].item + 1]
      BY <1>3, <1>5, <2>1, ControlKeeps
    <3> QED
      BY <1>2, <2>1, <3>1 DEF SameRequest
  <2>2. CASE ~(job[p].item < N)
    <3>1. /\ pc'[p] = after /\ (after # "idle" => SameJob(p, 1))
          /\ after # "idle" => job'[p] = [job[p] EXCEPT !.item = 1]
      BY <1>3, <1>5, <2>2, ControlKeeps
    <3> QED
      BY <1>2, <2>2, <3>1 DEF SameRequest
  <2> QED
    BY <2>1, <2>2
<1>6. ASSUME Raise(p)
      PROVE  /\ pc'[p] = Handler(job[p])
             /\ Handler(job[p]) # "idle" => SameRequest(p, 1)
  BY <1>2, <1>3, <1>6, ControlKeeps DEF SameRequest
<1> QED
  BY <1>4, <1>5, <1>6

\* What is known of p's job, if it has one.
LEMMA JobKnows ==
    ASSUME TypeOK, Known, NEW p \in Procs, pc[p] # "idle"
    PROVE  /\ JobsTypeOK /\ StorageTypeOK /\ RecordsTypeOK
           /\ job[p] \in Job /\ job[p].build \in Builds /\ job[p].item \in Content
           /\ AtStep(pc[p], job[p], dirs[job[p].build], records[job[p].build])
<1>1. JobsTypeOK /\ StorageTypeOK /\ RecordsTypeOK /\ job[p] \in Job
  BY DEF TypeOK, JobsTypeOK
<1>2. job[p].build \in Builds /\ job[p].item \in Content
  BY <1>1, JobFields
<1> QED
  BY <1>1, <1>2 DEF Known

\* A step that writes no record, neither deletes nor ends a pull that it could
\* still clean up after.
LEMMA Goes ==
    ASSUME NEW p \in Procs,
           UNCHANGED records,
           pc[p] \notin {"delete tree", "delete rmtree", "gbp.json"},
           pc'[p] # "idle" =>
              AtStep(pc'[p], job'[p], dirs'[job[p].build], records[job[p].build]),
           \/ pc'[p] # "idle" /\ Handler(job'[p]) = "delete"
           \/ Handler(job[p]) # "delete"
           \/ IsCompleted(records[job[p].build])
    PROVE  GoesOn(p)
<1>1. SUFFICES ASSUME NEW b, b = job[p].build
               PROVE  GoesOn(p)
  OBVIOUS
<1> QED
  BY <1>1 DEF GoesOn, Removing

\* An exception.
LEMMA RaiseGoes ==
    ASSUME TypeOK, Known, NEW p \in Procs, UNCHANGED records, Raise(p),
           pc[p] \notin {"idle", "delete tree", "delete rmtree"}
    PROVE  GoesOn(p)
<1>1. AtStep(pc[p], job[p], dirs[job[p].build], records[job[p].build])
  BY JobKnows
<1>2. /\ pc'[p] = Handler(job[p])
      /\ Handler(job[p]) # "idle" => SameRequest(p, 1)
  BY ControlSame
<1>3. Handler(job[p]) # "idle" => Handler(job[p]) = "delete" /\ job[p].op \in Tasks
  BY DEF Handler, Tasks
<1>4. pc[p] = "gbp.json" => IsCompleted(records[job[p].build])
  BY <1>1 DEF AtStep
<1>5. SUFFICES ASSUME NEW b, b = job[p].build
               PROVE  GoesOn(p)
  OBVIOUS
<1>7. CASE Handler(job[p]) = "idle"
  BY <1>2, <1>4, <1>5, <1>7 DEF GoesOn, Removing
<1>8. CASE Handler(job[p]) # "idle"
  <2>1. /\ pc'[p] = "delete" /\ job'[p].item = 1 /\ job'[p].op \in Tasks
        /\ Handler(job'[p]) = "delete"
    BY <1>2, <1>3, <1>8 DEF SameRequest, SameJob
  <2>2. AtStep("delete", job'[p], dirs'[b], records'[b])
    BY <2>1 DEF AtStep, PullSteps, SetTagSteps, UntagSteps, LoopSteps
  <2> QED
    BY <1>4, <1>5, <2>1, <2>2 DEF GoesOn, Removing
<1> QED
  BY <1>7, <1>8

\* A step from one step of pull() to another that writes no record.
LEMMA PullGoes ==
    ASSUME TypeOK, Known, NEW p \in Procs, NEW b, b = job[p].build,
           pc[p] \in PullSteps \ {"gbp.json"}, UNCHANGED records,
           NEW step \in PullSteps \ {"submit", "gbp.json"}, pc'[p] = step,
           NEW i, SameRequest(p, i), step \notin LoopSteps => i = 1,
           step \in {"copy_path", "rmtree", "copy", "copytree"} =>
              \A d \in Content : d < i => dirs'[b][d] # "absent",
           step = "copytree" => dirs'[b][i] # "absent",
           step \in {"tags", "metadata", "complete"} => Stored(dirs'[b])
    PROVE  GoesOn(p)
<1>1. AtStep(pc[p], job[p], dirs[b], records[b])
  BY JobKnows DEF PullSteps
<1>2. Handler(job[p]) = "delete" /\ (job[p].op = "publish_build" => job[p].tags = {})
  BY <1>1 DEF AtStep
<1>3. step \notin SetTagSteps \cup UntagSteps \cup DeletionSteps
                  \cup {"publish", "edit", "save", "idle"}
  BY DEF PullSteps, SetTagSteps, UntagSteps, DeletionSteps
<1>4. /\ Handler(job'[p]) = "delete" /\ job'[p].item = i
      /\ job'[p].op = "publish_build" => job'[p].tags = {}
  BY <1>2 DEF SameRequest, SameJob
<1>5. AtStep(step, job'[p], dirs'[b], records'[b])
  BY <1>3, <1>4 DEF AtStep, DeletionSteps, Stored
<1>6. pc[p] \notin {"delete tree", "delete rmtree", "gbp.json"}
  BY DEF PullSteps
<1> QED
  BY <1>3, <1>4, <1>5, <1>6, Goes

\* pull() returns: the build is completed.
LEMMA PullReturns ==
    ASSUME TypeOK, Known, NEW p \in Procs, pc[p] \in {"pull", "gbp.json"},
           Goto(p, AfterPull(job[p])), UNCHANGED <<dirs, records>>,
           IsCompleted(records[job[p].build]), Stored(dirs[job[p].build])
    PROVE  GoesOn(p)
<1>1. SUFFICES ASSUME NEW b, b = job[p].build, NEW j, j = job[p]
               PROVE  GoesOn(p)
  OBVIOUS
<1>2. AtStep(pc[p], j, dirs[b], records[b])
  BY <1>1, JobKnows
<1>3. Handler(j) = "delete" /\ j.item = 1
  BY <1>2 DEF AtStep, PullSteps, LoopSteps
<1>4. AfterPull(j) \in {"idle", "publish"}
      /\ (AfterPull(j) = "publish" => j.op = "publish_build")
  BY <1>3 DEF Handler, AfterPull
<1>5. /\ pc'[p] = AfterPull(j)
      /\ AfterPull(j) # "idle" => SameRequest(p, 1)
  BY <1>1, <1>3, ControlSame
<1>6. AfterPull(j) = "publish" =>
        AtStep("publish", job'[p], dirs'[b], records'[b])
  <2>1. SUFFICES ASSUME AfterPull(j) = "publish"
                 PROVE  AtStep("publish", job'[p], dirs'[b], records'[b])
    OBVIOUS
  <2>2. job'[p].op = "publish_build" /\ job'[p].item = 1
    BY <1>1, <1>4, <1>5, <2>1 DEF SameRequest, SameJob
  <2> QED
    BY <1>1, <2>2
       DEF AtStep, PullSteps, SetTagSteps, UntagSteps, DeletionSteps, PublishOps
<1> QED
  BY <1>1, <1>4, <1>5, <1>6 DEF GoesOn, Removing

\* A step of pull() before any tree is written.
LEMMA BeforeTreesGoes ==
    ASSUME TypeOK, Known, NEW p \in Procs,
           Pull(p) \/ Submit(p) \/ Download(p) \/ Extract(p)
    PROVE  GoesOn(p)
<1>1. SUFFICES ASSUME NEW b, b = job[p].build, NEW j, j = job[p]
               PROVE  GoesOn(p)
  OBVIOUS
<1>2. pc[p] \in {"pull", "submit", "download", "extract"}
  BY DEF Pull, Submit, Download, Extract
<1>3. /\ JobsTypeOK /\ RecordsTypeOK /\ j \in Job /\ b \in Builds
      /\ AtStep(pc[p], j, dirs[b], records[b])
  BY <1>1, <1>2, JobKnows
<1>4. /\ Handler(j) = "delete" /\ (j.op = "publish_build" => j.tags = {})
      /\ j.item = 1
  BY <1>2, <1>3 DEF AtStep, PullSteps, LoopSteps
<1>5. \A record : \A d \in BOOLEAN :
        /\ Handler([j EXCEPT !.record = record]) = Handler(j)
        /\ Handler([j EXCEPT !.link_dest = d]) = Handler(j)
  BY <1>3 DEF Handler, Job
<1>6. CASE Pull(p)
  <2>1. CASE Pulled(b)
    <3>1. IsCompleted(records[b]) /\ Stored(dirs[b])
      BY <2>1
         DEF Pulled, RecordOf, EmptyRecord, RecordExists, IsCompleted,
             StoragePulled, Exists, Stored
    <3>2. Goto(p, AfterPull(j)) /\ UNCHANGED <<dirs, records>>
      BY <1>1, <1>6, <2>1 DEF Pull
    <3> QED
      BY <1>1, <1>6, <3>1, <3>2, PullReturns DEF Pull
  <2>2. CASE ~Pulled(b)
    <3>1. /\ pc'[p] = "submit" /\ job'[p] = [j EXCEPT !.record = RecordOf(b)]
          /\ UNCHANGED <<dirs, records>>
      BY <1>1, <1>3, <1>6, <2>2, ContinueValue DEF Pull
    <3>2. /\ job'[p].op = j.op /\ job'[p].tags = j.tags /\ job'[p].item = 1
          /\ job'[p].record = RecordOf(b)
      BY <1>3, <1>4, <3>1 DEF Job
    <3>3. RecordOf(b).completed <=> IsCompleted(records[b])
      <4>1. CASE records[b] = Nil
        BY <4>1 DEF RecordOf, RecordExists, EmptyRecord, IsCompleted
      <4>2. CASE records[b] # Nil
        <5>1. records[b] \in Record
          BY <1>3, <4>2 DEF RecordsTypeOK
        <5>2. records[b].completed \in BOOLEAN
          BY <5>1 DEF Record
        <5> QED
          BY <4>2, <5>2, Zenon DEF RecordOf, RecordExists, IsCompleted
      <4> QED
        BY <4>1, <4>2
    <3>4. Handler(job'[p]) = "delete"
      BY <1>4, <1>5, <3>1
    <3>5. AtStep("submit", job'[p], dirs'[b], records'[b])
      BY <1>4, <3>1, <3>2, <3>3, <3>4
         DEF AtStep, LoopSteps, SetTagSteps, UntagSteps, DeletionSteps
    <3> QED
      BY <1>1, <1>2, <3>1, <3>4, <3>5, Goes
  <2> QED
    BY <2>1, <2>2
<1>7. CASE Submit(p)
  <2> DEFINE record == [j.record EXCEPT !.note = j.note]
  <2>1. /\ pc'[p] = "download" /\ job'[p] = [j EXCEPT !.record = record]
        /\ records'[b] = record /\ UNCHANGED dirs
    BY <1>1, <1>3, <1>7, ContinueValue, SaveValue DEF Submit
  <2>2. j.record \in Record /\ record.completed = j.record.completed
    <3>1. j.record \in Record
      BY <1>3, JobFields
    <3> QED
      BY <3>1 DEF Record
  <2>3. record # Nil /\ (IsCompleted(record) <=> IsCompleted(records[b]))
    <3>1. j.record.completed <=> IsCompleted(records[b])
      BY <1>3, <1>7 DEF Submit, AtStep
    <3>2. record \in Record
      <4>1. j.record \in Record /\ j.note \in Notes \cup {Nil}
        BY <1>3, JobFields
      <4> QED
        BY <4>1 DEF Record
    <3>3. record # Nil
      BY <3>2, RecordsAssumption
    <3>4. record.completed \in BOOLEAN
      BY <3>2 DEF Record
    <3> QED
      BY <2>2, <3>1, <3>3, <3>4, Zenon DEF IsCompleted
  <2> HIDE DEF record
  <2>4. /\ job'[p].op = j.op /\ job'[p].tags = j.tags /\ job'[p].item = 1
        /\ Handler(job'[p]) = "delete"
    BY <1>3, <1>4, <1>5, <2>1 DEF Job
  <2>5. AtStep("download", job'[p], dirs'[b], records'[b])
    BY <1>4, <2>1, <2>4
       DEF AtStep, LoopSteps, SetTagSteps, UntagSteps, DeletionSteps
  <2>6. /\ IsCompleted(records[b]) => IsCompleted(records'[b])
        /\ pc[p] = "submit"
    BY <1>7, <2>1, <2>3 DEF Submit
  <2> QED
    BY <1>1, <2>1, <2>4, <2>5, <2>6 DEF GoesOn, Removing
<1>8. CASE Download(p)
  <2>1. CASE Raise(p)
    BY <1>2, <1>8, <2>1, RaiseGoes DEF Download
  <2>2. CASE ~Raise(p)
    <3>1. /\ UNCHANGED <<dirs, records>> /\ pc'[p] = "extract"
          /\ job'[p] = [j EXCEPT !.link_dest = HasPrevious(b, j.record)]
      BY <1>1, <1>3, <1>8, <2>2, ContinueValue DEF Download
    <3>2. HasPrevious(b, j.record) \in BOOLEAN
      BY DEF HasPrevious
    <3>3. /\ SameJob(p, 1) /\ job'[p].tags = j.tags
      BY <1>1, <1>3, <1>4, <3>1 DEF Job, SameJob
    <3>4. SameRequest(p, 1)
      BY <1>1, <1>5, <3>1, <3>2, <3>3 DEF SameRequest
    <3> QED
      BY <1>1, <1>2, <3>1, <3>4, PullGoes DEF PullSteps, LoopSteps
  <2> QED
    BY <2>1, <2>2
<1>9. CASE Extract(p)
  <2>1. CASE Raise(p)
    BY <1>2, <1>9, <2>1, RaiseGoes DEF Extract
  <2>2. CASE ~Raise(p)
    <3>1. /\ UNCHANGED <<dirs, records>>
          /\ Goto(p, IF StoragePulled(b) THEN "tags" ELSE "copy_path")
      BY <1>1, <1>9, <2>2 DEF Extract
    <3>2. /\ pc'[p] = IF StoragePulled(b) THEN "tags" ELSE "copy_path"
          /\ SameRequest(p, 1)
      BY <1>1, <1>2, <1>4, <3>1, ControlSame
    <3>3. StoragePulled(b) => Stored(dirs'[b])
      BY <3>1 DEF StoragePulled, Exists, Stored
    <3>4. \A d \in Content : ~(d < 1)
      BY ContentBounds DEF Content
    <3> QED
      BY <1>1, <1>2, <3>1, <3>2, <3>3, <3>4, PullGoes DEF PullSteps, LoopSteps
  <2> QED
    BY <2>1, <2>2
<1> QED
  BY <1>6, <1>7, <1>8, <1>9

\* The copy of a tree has ended.
LEMMA NextTreeGoes ==
    ASSUME TypeOK, Known, NEW p \in Procs, NEW b, b = job[p].build,
           NEW c, c = job[p].item, pc[p] \in {"copy", "copytree"},
           NextItem(p, "copy_path", "tags"), UNCHANGED records,
           dirs'[b][c] # "absent",
           \A d \in Content \ {c} : dirs'[b][d] = dirs[b][d]
    PROVE  GoesOn(p)
<1>1. c \in Content /\ AtStep(pc[p], job[p], dirs[b], records[b])
  BY JobKnows
<1>2. N \in Nat \ {0} /\ \A d \in Content : ~(d < 1)
  BY ContentBounds DEF Content
<1>3. \A d \in Content : d < c => dirs[b][d] # "absent"
  BY <1>1 DEF AtStep
<1>4. IF c < N THEN /\ pc'[p] = "copy_path"
                    /\ "copy_path" # "idle" => SameRequest(p, c + 1)
      ELSE pc'[p] = "tags" /\ ("tags" # "idle" => SameRequest(p, 1))
  BY ControlSame
<1>5. CASE c < N
  <2>1. \A d \in Content : d < c + 1 => d = c \/ d < c
    BY <1>1, <1>2 DEF Content
  <2>2. \A d \in Content : d < c + 1 => dirs'[b][d] # "absent"
    BY <1>3, <2>1
  <2>3. pc'[p] = "copy_path" /\ SameRequest(p, c + 1)
    BY <1>4, <1>5
  <2>4. /\ pc[p] \in PullSteps \ {"gbp.json"}
        /\ "copy_path" \in PullSteps \ {"submit", "gbp.json"}
        /\ "copy_path" \in LoopSteps
    BY DEF PullSteps, LoopSteps
  <2>5. ASSUME NEW i, i = c + 1 PROVE GoesOn(p)
    BY <2>2, <2>3, <2>4, <2>5, PullGoes
  <2> QED
    BY <2>5
<1>6. CASE ~(c < N)
  <2>1. \A d \in Content : d = c \/ d < c
    BY <1>1, <1>2, <1>6 DEF Content
  <2>2. Stored(dirs'[b])
    BY <1>3, <2>1 DEF Stored
  <2>3. pc'[p] = "tags" /\ SameRequest(p, 1)
    BY <1>4, <1>6
  <2> QED
    BY <1>2, <2>2, <2>3, PullGoes DEF PullSteps, LoopSteps
<1> QED
  BY <1>5, <1>6

\* A step of pull() that writes the trees.
LEMMA WriteTreesGoes ==
    ASSUME TypeOK, Known, NEW p \in Procs,
           CopyPath(p) \/ RemoveTree(p) \/ Copy(p) \/ CopyTree(p)
    PROVE  GoesOn(p)
<1>1. SUFFICES ASSUME NEW j, j = job[p], NEW b, b = job[p].build,
                      NEW c, c = job[p].item
               PROVE  GoesOn(p)
  OBVIOUS
<1>2. pc[p] \in {"copy_path", "rmtree", "copy", "copytree"} /\ UNCHANGED records
  BY DEF CopyPath, RemoveTree, Copy, CopyTree
<1>3. /\ StorageTypeOK /\ b \in Builds /\ c \in Content
      /\ AtStep(pc[p], j, dirs[b], records[b])
  BY <1>1, <1>2, JobKnows
<1>4. \A d \in Content : d < c => dirs[b][d] # "absent"
  BY <1>1, <1>2, <1>3 DEF AtStep
<1>5. \A d \in Content : d < c => d # c
  BY <1>3, ContentBounds DEF Content
<1>6. p \notin {"absent", "partial", "whole"}
  BY StorageAssumption
<1>7. \A state : SetTree(b, c, state) =>
         /\ dirs'[b][c] = state
         /\ \A d \in Content \ {c} : dirs'[b][d] = dirs[b][d]
  BY <1>3, SetTreeValue
<1>8. Raise(p) => GoesOn(p)
  BY <1>2, RaiseGoes
<1>9. ASSUME NEW step \in {"rmtree", "copy", "copytree"}, Goto(p, step),
             UNCHANGED dirs \/ \E state : SetTree(b, c, state),
             step = "copytree" => dirs'[b][c] # "absent"
      PROVE  GoesOn(p)
  <2>1. pc'[p] = step /\ SameRequest(p, c)
    BY <1>1, <1>2, <1>9, ControlSame
  <2>2. \A d \in Content : d < c => dirs'[b][d] # "absent"
    BY <1>4, <1>5, <1>7, <1>9
  <2> QED
    BY <1>1, <1>2, <1>9, <2>1, <2>2, PullGoes DEF PullSteps, LoopSteps
<1>10. ASSUME NextItem(p, "copy_path", "tags"), pc[p] \in {"copy", "copytree"},
              \/ SetTree(b, c, "whole")
              \/ UNCHANGED dirs /\ dirs[b][c] # "absent"
       PROVE  GoesOn(p)
  BY <1>1, <1>2, <1>7, <1>10, NextTreeGoes
<1>11. ASSUME CopyPath(p) PROVE GoesOn(p)
  BY <1>1, <1>9, <1>11 DEF CopyPath
<1>12. ASSUME RemoveTree(p) PROVE GoesOn(p)
  BY <1>1, <1>8, <1>9, <1>12 DEF RemoveTree
<1>13. ASSUME Copy(p) PROVE GoesOn(p)
  <2>1. ASSUME SetTree(b, c, p), Goto(p, "copytree") PROVE GoesOn(p)
    BY <1>6, <1>7, <1>9, <2>1
  <2> QED
    BY <1>1, <1>8, <1>10, <1>13, <2>1 DEF Copy
<1>14. ASSUME CopyTree(p) PROVE GoesOn(p)
  <2>1. pc[p] = "copytree" /\ dirs[b][c] # "absent"
    BY <1>1, <1>3, <1>14 DEF CopyTree, AtStep
  <2> QED
    BY <1>1, <1>8, <1>10, <1>14, <2>1 DEF CopyTree
<1> QED
  BY <1>11, <1>12, <1>13, <1>14

\* A step of pull() after the trees are written.
LEMMA AfterTreesGoes ==
    ASSUME TypeOK, Known, NEW p \in Procs,
           NextTag(p) \/ Metadata(p) \/ Complete(p) \/ GbpJson(p)
    PROVE  GoesOn(p)
<1>1. SUFFICES ASSUME NEW j, j = job[p], NEW b, b = job[p].build
               PROVE  GoesOn(p)
  OBVIOUS
<1>2. pc[p] \in {"tags", "metadata", "complete", "gbp.json"} /\ UNCHANGED dirs
  BY DEF NextTag, Metadata, Complete, GbpJson
<1>3. /\ JobsTypeOK /\ RecordsTypeOK /\ b \in Builds /\ j \in Job
      /\ AtStep(pc[p], j, dirs[b], records[b])
  BY <1>1, <1>2, JobKnows
<1>4. /\ Handler(j) = "delete" /\ (j.op = "publish_build" => j.tags = {})
      /\ j.item = 1 /\ Stored(dirs[b])
  BY <1>2, <1>3 DEF AtStep, PullSteps, LoopSteps
<1>5. ASSUME NEW step \in {"metadata", "complete"}, Goto(p, step), UNCHANGED records,
             pc[p] # "gbp.json"
      PROVE  GoesOn(p)
  <2>1. pc'[p] = step /\ SameRequest(p, 1)
    BY <1>1, <1>2, <1>4, <1>5, ControlSame
  <2> QED
    BY <1>1, <1>2, <1>4, <1>5, <2>1, PullGoes DEF PullSteps
<1>6. ASSUME NextTag(p) PROVE GoesOn(p)
  <2>1. pc[p] = "tags" /\ UNCHANGED records
    BY <1>6 DEF NextTag
  <2>2. CASE j.tags = {}
    BY <1>1, <1>5, <1>6, <2>1, <2>2 DEF NextTag
  <2>3. CASE j.tags # {}
    <3>1. PICK tag \in j.tags :
             Continue(p, "tag", [j EXCEPT !.tag = tag, !.tags = @ \ {tag}])
      BY <1>1, <1>6, <2>3 DEF NextTag
    <3>2. pc'[p] = "tag" /\ job'[p] = [j EXCEPT !.tag = tag, !.tags = @ \ {tag}]
      BY <1>3, <3>1, ContinueValue
    <3>3. job'[p].item = 1 /\ job'[p].op = j.op /\ job'[p].publishing = j.publishing
      BY <1>3, <1>4, <3>2 DEF Job
    <3>4. Handler(job'[p]) = "delete" /\ job'[p].op = "pull_build"
      BY <1>4, <2>3, <3>3 DEF Handler
    <3>5. AtStep("tag", job'[p], dirs'[b], records'[b])
      BY <1>2, <1>4, <3>3, <3>4
         DEF AtStep, PullSteps, UntagSteps, DeletionSteps
    <3> QED
      BY <1>1, <2>1, <3>2, <3>4, <3>5, Goes
  <2> QED
    BY <2>2, <2>3
<1>7. ASSUME Metadata(p) PROVE GoesOn(p)
  BY <1>2, <1>5, <1>7, RaiseGoes DEF Metadata
<1>8. ASSUME Complete(p) PROVE GoesOn(p)
  <2> DEFINE record == [j.record EXCEPT !.completed = TRUE]
  <2>1. j.record \in Record
    BY <1>3, JobFields
  <2>2. record \in Record /\ record.completed
    BY <2>1 DEF Record
  <2>3. record # Nil
    BY <2>2, RecordsAssumption
  <2>4. records'[b] = record
    BY <1>1, <1>3, <1>8, SaveValue DEF Complete
  <2>5. pc'[p] = "gbp.json" /\ SameRequest(p, 1)
    BY <1>1, <1>2, <1>4, <1>8, ControlSame DEF Complete
  <2>6. IsCompleted(records'[b])
    BY <2>2, <2>3, <2>4 DEF IsCompleted
  <2> HIDE DEF record
  <2>7. /\ Handler(job'[p]) = "delete" /\ job'[p].item = 1
        /\ job'[p].op = "publish_build" => job'[p].tags = {}
    BY <1>1, <1>4, <2>5 DEF SameRequest, SameJob
  <2>8. AtStep("gbp.json", job'[p], dirs'[b], records'[b])
    BY <1>2, <1>4, <2>6, <2>7 DEF AtStep, SetTagSteps, UntagSteps, DeletionSteps
  <2>9. pc[p] \notin Removing
    BY <1>2 DEF Removing
  <2> QED
    BY <1>1, <2>5, <2>6, <2>7, <2>8, <2>9 DEF GoesOn
<1>9. ASSUME GbpJson(p) PROVE GoesOn(p)
  <2>1. pc[p] = "gbp.json" /\ UNCHANGED <<dirs, records>>
    BY <1>9 DEF GbpJson
  <2>2. IsCompleted(records[b])
    BY <1>3, <2>1 DEF AtStep
  <2> QED
    BY <1>1, <1>2, <1>4, <1>9, <2>1, <2>2, PullReturns, RaiseGoes DEF GbpJson
<1> QED
  BY <1>6, <1>7, <1>8, <1>9

\* publish() finds the build pulled and goes on to tag it, or has nothing to do.
LEMMA PublishGoes ==
    ASSUME TypeOK, Known, NEW p \in Procs, Publish(p)
    PROVE  GoesOn(p)
<1>1. SUFFICES ASSUME NEW j, j = job[p], NEW b, b = job[p].build
               PROVE  GoesOn(p)
  OBVIOUS
<1>2. pc[p] = "publish" /\ UNCHANGED <<dirs, records>>
  BY DEF Publish
<1>3. /\ JobsTypeOK /\ j \in Job /\ AtStep(pc[p], j, dirs[b], records[b])
  BY <1>1, <1>2, JobKnows
<1>4. /\ j.op \in PublishOps /\ j.item = 1
      /\ IsCompleted(records[b]) /\ Stored(dirs[b])
  BY <1>2, <1>3 DEF AtStep, LoopSteps
<1>5. Pulled(b)
  BY <1>4 DEF Pulled, StoragePulled, Exists, Stored, RecordOf, RecordExists,
              IsCompleted
<1>6. PICK step \in {"idle", "tag"} : Continue(p, step, [j EXCEPT !.publishing = TRUE])
  BY <1>1, <1>5 DEF Publish
<1>7. /\ pc'[p] = step
      /\ step # "idle" => job'[p] = [j EXCEPT !.publishing = TRUE]
  BY <1>3, <1>6, ContinueValue
<1>8. step # "idle" =>
        job'[p].op = j.op /\ job'[p].item = 1 /\ Handler(job'[p]) = "idle"
  BY <1>3, <1>4, <1>7 DEF Job, Handler
<1>9. step # "idle" => AtStep(step, job'[p], dirs'[b], records'[b])
  BY <1>4, <1>6, <1>8
     DEF AtStep, PublishOps, PullSteps, UntagSteps, DeletionSteps
<1> QED
  BY <1>1, <1>2, <1>4, <1>7, <1>9, Goes

\* A step that sets or removes the links of a tag, or reads the tags of a build.
LEMMA TagsGo ==
    ASSUME TypeOK, Known, NEW p \in Procs,
           \/ Tag(p) \/ IsLink(p) \/ Unlink(p) \/ Symlink(p) \/ CheckTags(p)
           \/ Untag(p) \/ IsSymlink(p) \/ RemoveLink(p)
    PROVE  GoesOn(p)
<1>1. SUFFICES ASSUME NEW j, j = job[p], NEW b, b = job[p].build
               PROVE  GoesOn(p)
  OBVIOUS
<1>2. /\ pc[p] \in SetTagSteps \cup UntagSteps
      /\ UNCHANGED <<dirs, records>>
  BY DEF Tag, IsLink, Unlink, Symlink, CheckTags, Untag, IsSymlink, RemoveLink,
         SetTagSteps, UntagSteps
<1>3. pc[p] \notin {"idle", "delete tree", "delete rmtree", "gbp.json"}
  BY <1>2 DEF SetTagSteps, UntagSteps
<1>4. /\ JobsTypeOK /\ j \in Job /\ AtStep(pc[p], j, dirs[b], records[b])
  BY <1>1, <1>3, JobKnows
<1>5. /\ pc[p] \notin LoopSteps => j.item = 1
      /\ pc[p] \in SetTagSteps =>
            /\ Handler(j) = "delete" <=> j.op = "pull_build"
            /\ j.op = "pull_build" => Stored(dirs[b])
      /\ pc[p] \in UntagSteps =>
            j.op \in Commands \cup {"removeBuildTag"} /\ Handler(j) # "delete"
  BY <1>4 DEF AtStep, Handler, Commands
<1>6. ASSUME NEW step, pc'[p] = step,
             \/ step = "idle" /\ Handler(j) # "delete"
             \/ step \in UntagSteps /\ pc[p] \in UntagSteps
             \/ step \in SetTagSteps /\ pc[p] \in SetTagSteps
             \/ step = "tags" /\ j.op = "pull_build" /\ pc[p] \in SetTagSteps
             \/ step = "delete" /\ j.op \in Commands /\ pc[p] \in UntagSteps,
             step \notin LoopSteps \cup {"idle"} => job'[p].item = 1,
             step # "idle" => job'[p].op = j.op /\ Handler(job'[p]) = Handler(j)
      PROVE  GoesOn(p)
  <2>1. step # "idle" => AtStep(step, job'[p], dirs'[b], records'[b])
    <3>1. SUFFICES ASSUME step # "idle"
                   PROVE  AtStep(step, job'[p], dirs'[b], records'[b])
      OBVIOUS
    <3>2. job'[p].op = j.op /\ Handler(job'[p]) = Handler(j)
      BY <1>6, <3>1
    <3>3. CASE step \in UntagSteps /\ pc[p] \in UntagSteps
      BY <1>2, <1>5, <1>6, <3>2, <3>3
         DEF AtStep, SetTagSteps, UntagSteps, PullSteps, DeletionSteps, LoopSteps
    <3>4. CASE step \in SetTagSteps /\ pc[p] \in SetTagSteps
      BY <1>2, <1>5, <1>6, <3>2, <3>4
         DEF AtStep, SetTagSteps, UntagSteps, PullSteps, DeletionSteps, LoopSteps
    <3>5. CASE step = "tags" /\ j.op = "pull_build" /\ pc[p] \in SetTagSteps
      BY <1>2, <1>5, <1>6, <3>2, <3>5
         DEF AtStep, SetTagSteps, UntagSteps, PullSteps, DeletionSteps, LoopSteps
    <3>6. CASE step = "delete" /\ j.op \in Commands /\ pc[p] \in UntagSteps
      BY <1>2, <1>5, <1>6, <3>2, <3>6
         DEF AtStep, SetTagSteps, UntagSteps, PullSteps, DeletionSteps, LoopSteps
    <3> QED
      BY <1>6, <3>1, <3>3, <3>4, <3>5, <3>6
  <2>2. \/ step # "idle" /\ Handler(job'[p]) = "delete"
        \/ Handler(j) # "delete"
    <3>1. step = "idle" => Handler(j) # "delete"
      BY <1>6 DEF SetTagSteps, UntagSteps
    <3> QED
      BY <1>6, <3>1
  <2> QED
    BY <1>1, <1>2, <1>3, <1>6, <2>1, <2>2, Goes
<1>7. CASE Raise(p)
  BY <1>2, <1>3, <1>7, RaiseGoes
<1>8. /\ \A next : Goto(p, next) =>
            pc'[p] = next /\ (next # "idle" => SameRequest(p, j.item))
      /\ \A body, after : NextItem(p, body, after) =>
            \/ pc'[p] = body /\ (body # "idle" => SameRequest(p, j.item + 1))
            \/ pc'[p] = after /\ (after # "idle" => SameRequest(p, 1))
  BY <1>1, <1>3, ControlSame
<1>9. \A i : SameRequest(p, i) => /\ job'[p].op = j.op /\ job'[p].item = i
                                  /\ Handler(job'[p]) = Handler(j)
  BY <1>1 DEF SameRequest, SameJob
<1> HIDE DEF SameRequest
<1>10. CASE (Tag(p) \/ IsLink(p) \/ Unlink(p)) /\ ~Raise(p)
  <2>1. PICK next \in {"islink", "unlink", "symlink"} : Goto(p, next)
    BY <1>10 DEF Tag, IsLink, Unlink
  <2>2. next \in LoopSteps /\ next \in SetTagSteps /\ pc[p] \in SetTagSteps
    BY <1>10 DEF LoopSteps, SetTagSteps, Tag, IsLink, Unlink
  <2> QED
    BY <1>6, <1>8, <1>9, <2>1, <2>2
<1>11. CASE Symlink(p) /\ ~Raise(p)
  <2>1. NextItem(p, "islink", AfterTag(j)) /\ pc[p] \in SetTagSteps
    BY <1>1, <1>11 DEF Symlink, SetTagSteps
  <2>2. \/ pc'[p] = "islink" /\ ("islink" # "idle" => SameRequest(p, j.item + 1))
        \/ pc'[p] = AfterTag(j) /\ (AfterTag(j) # "idle" => SameRequest(p, 1))
    BY <1>8, <2>1
  <2>3. CASE pc'[p] = "islink" /\ SameRequest(p, j.item + 1)
    BY <1>6, <1>9, <2>1, <2>3 DEF SetTagSteps, LoopSteps
  <2>4. CASE pc'[p] = AfterTag(j) /\ (AfterTag(j) # "idle" => SameRequest(p, 1))
    <3>1. CASE j.op = "pull_build"
      <4>1. AfterTag(j) = "tags"
        BY <3>1 DEF AfterTag
      <4> QED
        BY <1>6, <1>9, <2>1, <2>4, <3>1, <4>1
    <3>2. CASE j.op # "pull_build"
      <4>1. AfterTag(j) = "idle"
        BY <3>2 DEF AfterTag
      <4> QED
        BY <1>5, <1>6, <2>1, <2>4, <3>2, <4>1
    <3> QED
      BY <3>1, <3>2
  <2> QED
    BY <2>2, <2>3, <2>4
<1>12. CASE CheckTags(p)
  <2>1. pc[p] = "check tags" /\ j.item = 1 /\ pc[p] \in UntagSteps
    BY <1>5, <1>12 DEF CheckTags, LoopSteps, UntagSteps
  <2>2. CASE Goto(p, "idle")
    BY <1>5, <1>6, <1>8, <2>1, <2>2
  <2>3. CASE Continue(p, "untag", [j EXCEPT !.tags = TagsOf(b)])
    <3>1. pc'[p] = "untag" /\ job'[p] = [j EXCEPT !.tags = TagsOf(b)]
      BY <1>4, <2>3, ContinueValue
    <3>2. job'[p].item = 1 /\ job'[p].op = j.op /\ Handler(job'[p]) = Handler(j)
      BY <1>4, <2>1, <3>1 DEF Job, Handler
    <3> QED
      BY <1>6, <2>1, <3>1, <3>2 DEF UntagSteps
  <2> QED
    BY <1>1, <1>12, <2>2, <2>3 DEF CheckTags
<1>13. CASE Untag(p)
  <2>1. pc[p] = "untag" /\ j.item = 1 /\ pc[p] \in UntagSteps
    BY <1>5, <1>13 DEF Untag, LoopSteps, UntagSteps
  <2>2. CASE j.tags = {}
    <3>1. CASE j.op \in Commands
      <4>1. Goto(p, "delete")
        BY <1>1, <1>13, <2>2, <3>1 DEF Untag
      <4>2. pc'[p] = "delete" /\ ("delete" # "idle" => SameRequest(p, 1))
        BY <1>8, <2>1, <4>1
      <4> QED
        BY <1>6, <1>9, <2>1, <3>1, <4>2
    <3>2. CASE j.op \notin Commands
      <4>1. pc'[p] = "idle"
        BY <1>1, <1>8, <1>13, <2>2, <3>2 DEF Untag
      <4> QED
        BY <1>5, <1>6, <2>1, <4>1
    <3> QED
      BY <3>1, <3>2
  <2>3. CASE j.tags # {}
    <3>1. PICK tag \in j.tags :
             Continue(p, IF Resolves(tag) THEN "is_symlink" ELSE "untag",
                      [j EXCEPT !.tag = tag, !.tags = @ \ {tag}])
      BY <1>1, <1>13, <2>3 DEF Untag
    <3>2. /\ pc'[p] \in {"is_symlink", "untag"}
          /\ job'[p] = [j EXCEPT !.tag = tag, !.tags = @ \ {tag}]
      BY <1>4, <3>1, ContinueValue
    <3>3. job'[p].item = 1 /\ job'[p].op = j.op /\ Handler(job'[p]) = Handler(j)
      BY <1>4, <2>1, <3>2 DEF Job, Handler
    <3> QED
      BY <1>6, <2>1, <3>2, <3>3 DEF UntagSteps
  <2> QED
    BY <2>2, <2>3
<1>14. CASE (IsSymlink(p) \/ RemoveLink(p)) /\ ~Raise(p)
  <2>1. Goto(p, "remove link") \/ NextItem(p, "is_symlink", "untag")
    BY <1>14 DEF IsSymlink, RemoveLink
  <2>2. pc[p] \in UntagSteps
    BY <1>14 DEF IsSymlink, RemoveLink, UntagSteps
  <2>3. ASSUME NEW i, SameRequest(p, i),
               \/ pc'[p] \in {"remove link", "is_symlink"}
               \/ pc'[p] = "untag" /\ i = 1
        PROVE  GoesOn(p)
    BY <1>6, <1>9, <2>2, <2>3 DEF UntagSteps, LoopSteps
  <2>4. ASSUME Goto(p, "remove link") PROVE GoesOn(p)
    <3>1. /\ pc'[p] = "remove link"
          /\ "remove link" # "idle" => SameRequest(p, j.item)
      BY <1>8, <2>4
    <3> QED
      BY <2>3, <3>1
  <2>5. ASSUME NextItem(p, "is_symlink", "untag") PROVE GoesOn(p)
    <3>1. \/ /\ pc'[p] = "is_symlink"
             /\ "is_symlink" # "idle" => SameRequest(p, j.item + 1)
          \/ pc'[p] = "untag" /\ ("untag" # "idle" => SameRequest(p, 1))
      BY <1>8, <2>5
    <3> QED
      BY <2>3, <3>1
  <2> QED
    BY <2>1, <2>4, <2>5
<1> QED
  BY <1>7, <1>10, <1>11, <1>12, <1>13, <1>14

\* keepBuild, releaseBuild and createNote: a record that exists is read and
\* saved as completed as it is.
LEMMA EditGoes ==
    ASSUME TypeOK, Known, NEW p \in Procs, Edit(p) \/ Save(p)
    PROVE  GoesOn(p)
<1>1. SUFFICES ASSUME NEW j, j = job[p], NEW b, b = job[p].build
               PROVE  GoesOn(p)
  OBVIOUS
<1>2. pc[p] \in {"edit", "save"}
  BY DEF Edit, Save
<1>3. /\ JobsTypeOK /\ RecordsTypeOK /\ j \in Job /\ b \in Builds
      /\ AtStep(pc[p], j, dirs[b], records[b])
  BY <1>1, <1>2, JobKnows
<1>4. j.op \in RecordEdits /\ j.item = 1 /\ Handler(j) # "delete"
  BY <1>2, <1>3 DEF AtStep, LoopSteps, Handler, RecordEdits
<1>5. CASE Edit(p)
  <2>1. pc[p] = "edit" /\ UNCHANGED <<dirs, records>>
    BY <1>5 DEF Edit
  <2>2. CASE records[b] # Nil
    <3>1. pc'[p] = "save" /\ job'[p] = [j EXCEPT !.record = records[b]]
      BY <1>1, <1>3, <1>5, <2>2, ContinueValue DEF Edit, RecordExists
    <3>2. job'[p].item = 1 /\ job'[p].op = j.op /\ job'[p].record = records[b]
      BY <1>3, <1>4, <3>1 DEF Job
    <3>3. AtStep("save", job'[p], dirs'[b], records'[b])
      BY <1>4, <2>1, <2>2, <3>2
         DEF AtStep, PullSteps, SetTagSteps, UntagSteps, DeletionSteps
    <3> QED
      BY <1>1, <1>4, <2>1, <3>1, <3>3, Goes
  <2>3. CASE records[b] = Nil
    <3>1. pc'[p] = "idle"
      BY <1>1, <1>2, <1>3, <1>5, <2>3, ControlSame DEF Edit, RecordExists
    <3> QED
      BY <1>1, <1>4, <2>1, <3>1, Goes
  <2> QED
    BY <2>2, <2>3
<1>6. CASE Save(p)
  <2>1. /\ pc[p] = "save" /\ records[b] # Nil
        /\ j.record.completed = records[b].completed
    BY <1>3, <1>6 DEF Save, AtStep
  <2>2. pc'[p] = "idle" /\ records'[b] = Edited(j)
    BY <1>1, <1>2, <1>3, <1>6, ControlSame, SaveValue DEF Save
  <2>3. Edited(j).completed = j.record.completed /\ Edited(j) \in Record
    <3>1. j.record \in Record /\ j.note \in Notes \cup {Nil}
      BY <1>3, JobFields
    <3> QED
      BY <3>1 DEF Edited, Record
  <2>4. Edited(j) # Nil
    BY <2>3, RecordsAssumption
  <2>5. IsCompleted(records[b]) => IsCompleted(records'[b])
    BY <2>1, <2>2, <2>3, <2>4 DEF IsCompleted
  <2> QED
    BY <1>1, <1>4, <2>1, <2>2, <2>5 DEF GoesOn, Removing
<1> QED
  BY <1>5, <1>6

\* A step of BuildPublisher.delete().
LEMMA DeleteGoes ==
    ASSUME TypeOK, Known, NEW p \in Procs,
           Delete(p) \/ DeleteTree(p) \/ DeleteRmtree(p)
    PROVE  GoesOn(p)
<1>1. SUFFICES ASSUME NEW j, j = job[p], NEW b, b = job[p].build,
                      NEW c, c = job[p].item
               PROVE  GoesOn(p)
  OBVIOUS
<1>2. pc[p] \in DeletionSteps /\ pc[p] # "idle"
  BY DEF Delete, DeleteTree, DeleteRmtree, DeletionSteps
<1>3. /\ StorageTypeOK /\ RecordsTypeOK /\ b \in Builds /\ c \in Content
      /\ AtStep(pc[p], j, dirs[b], records[b])
  BY <1>1, <1>2, JobKnows
<1>4. \A state : SetTree(b, c, state) =>
         /\ dirs'[b][c] = state
         /\ \A d \in Content \ {c} : dirs'[b][d] = dirs[b][d]
  <2>1. StorageTypeOK /\ b \in Builds /\ c \in Content
    BY <1>3
  <2> QED
    BY <2>1, SetTreeValue
<1>5. j.op \in Tasks \cup Commands
  BY <1>2, <1>3 DEF AtStep
<1>6. /\ N \in Nat \ {0} /\ Binpkgs \in Content
      /\ Procs \cap {"absent", "partial", "whole"} = {}
  BY StorageAssumption, ChecksAssumption
<1>7. Binpkgs \in Nat /\ 1 <= Binpkgs /\ Binpkgs <= N /\ c \in Nat /\ c <= N
  BY <1>3, <1>6 DEF Content
<1>8. /\ Goto(p, "delete tree") => pc'[p] = "delete tree" /\ SameRequest(p, c)
      /\ Goto(p, "delete rmtree") => pc'[p] = "delete rmtree" /\ SameRequest(p, c)
      /\ NextItem(p, "delete tree", "idle") =>
            IF c < N THEN pc'[p] = "delete tree" /\ SameRequest(p, c + 1)
                     ELSE pc'[p] = "idle"
  <2>1. /\ \A next : Goto(p, next) =>
              pc'[p] = next /\ (next # "idle" => SameRequest(p, c))
        /\ \A body, after : NextItem(p, body, after) =>
              IF c < N
              THEN pc'[p] = body /\ (body # "idle" => SameRequest(p, c + 1))
              ELSE pc'[p] = after /\ (after # "idle" => SameRequest(p, 1))
    BY <1>1, <1>2, ControlSame
  <2>2. NextItem(p, "delete tree", "idle") =>
          IF c < N
          THEN /\ pc'[p] = "delete tree"
               /\ "delete tree" # "idle" => SameRequest(p, c + 1)
          ELSE pc'[p] = "idle"
    BY <2>1
  <2>3. /\ Goto(p, "delete tree") =>
             pc'[p] = "delete tree" /\ ("delete tree" # "idle" => SameRequest(p, c))
        /\ Goto(p, "delete rmtree") =>
             /\ pc'[p] = "delete rmtree"
             /\ "delete rmtree" # "idle" => SameRequest(p, c)
    BY <2>1
  <2> QED
    BY <2>2, <2>3
<1>9. ASSUME NEW step \in Removing, NEW i, pc'[p] = step, SameRequest(p, i),
             records'[b] = Nil, step = "delete rmtree" => dirs'[b][i] = "partial"
      PROVE  /\ AtStep(step, job'[p], dirs'[b], records'[b])
             /\ Handler(job[p]) = "delete" => Handler(job'[p]) = "delete"
             /\ job'[p].item = i
  <2>1. /\ job'[p].op \in Tasks \cup Commands /\ job'[p].item = i
        /\ Handler(job'[p]) = Handler(job[p])
    BY <1>1, <1>5, <1>9 DEF SameRequest, SameJob
  <2> QED
    BY <1>9, <2>1
       DEF AtStep, Removing, PullSteps, SetTagSteps, UntagSteps, LoopSteps
<1>10. ASSUME pc[p] \in Removing, UNCHANGED records, dirs'[b][c] = "absent",
             dirs[b][c] \notin Procs, NextItem(p, "delete tree", "idle"),
             \A d \in Content \ {c} : dirs'[b][d] = dirs[b][d]
      PROVE  GoesOn(p)
  <2>1. records[b] = Nil /\ records'[b] = Nil /\ pc[p] # "gbp.json"
    BY <1>3, <1>10 DEF AtStep, Removing
  <2>2. ~IsCompleted(records[b])
    BY <2>1 DEF IsCompleted
  <2>3. CASE c < N
    <3>1. pc'[p] = "delete tree" /\ SameRequest(p, c + 1)
      BY <1>8, <1>10, <2>3
    <3>2. /\ AtStep("delete tree", job'[p], dirs'[b], records'[b])
          /\ job'[p].item = c + 1
      BY <1>9, <2>1, <3>1 DEF Removing
    <3>3. c <= Binpkgs => \/ c + 1 <= Binpkgs
                          \/ c = Binpkgs
      BY <1>7
    <3> QED
      BY <1>1, <1>10, <2>1, <2>2, <3>1, <3>2, <3>3 DEF GoesOn, Removing
  <2>4. CASE ~(c < N)
    <3>1. c <= Binpkgs => c = Binpkgs
      BY <1>6, <1>7, <2>4
    <3>2. pc'[p] = "idle"
      BY <1>8, <1>10, <2>4
    <3> QED
      BY <1>1, <1>10, <2>1, <2>2, <3>1, <3>2 DEF GoesOn
  <2> QED
    BY <2>3, <2>4
<1>11. ASSUME Delete(p) PROVE GoesOn(p)
  <2>1. pc[p] = "delete" /\ c = 1 /\ UNCHANGED dirs /\ records'[b] = Nil
    BY <1>1, <1>3, <1>11, SaveValue DEF Delete, AtStep, LoopSteps
  <2>2. pc'[p] = "delete tree" /\ SameRequest(p, 1)
    BY <1>8, <1>11, <2>1 DEF Delete
  <2>3. /\ AtStep("delete tree", job'[p], dirs'[b], records'[b])
        /\ job'[p].item = 1
    BY <1>9, <2>1, <2>2 DEF Removing
  <2> QED
    BY <1>1, <2>1, <2>2, <2>3 DEF GoesOn, Removing
<1>12. ASSUME DeleteTree(p) PROVE GoesOn(p)
  <2>1. pc[p] = "delete tree" /\ UNCHANGED records /\ records[b] = Nil
    BY <1>3, <1>12 DEF DeleteTree, AtStep
  <2>2. CASE Exists(b, c)
    <3>1. SetTree(b, c, "partial") /\ Goto(p, "delete rmtree")
      BY <1>1, <1>12, <2>2 DEF DeleteTree
    <3>2. dirs'[b][c] = "partial"
      BY <1>4, <3>1
    <3>3. pc'[p] = "delete rmtree" /\ SameRequest(p, c)
      BY <1>8, <3>1
    <3>4. /\ AtStep("delete rmtree", job'[p], dirs'[b], records'[b])
          /\ job'[p].item = c
      BY <1>9, <2>1, <3>2, <3>3 DEF Removing
    <3>5. ~IsCompleted(records[b])
      BY <2>1 DEF IsCompleted
    <3> QED
      BY <1>1, <2>1, <3>3, <3>4, <3>5 DEF GoesOn, Removing
  <2>3. CASE ~Exists(b, c)
    BY <1>1, <1>6, <1>10, <1>12, <2>1, <2>3 DEF DeleteTree, Exists, Removing
  <2> QED
    BY <2>2, <2>3
<1>13. ASSUME DeleteRmtree(p) PROVE GoesOn(p)
  <2>1. /\ pc[p] = "delete rmtree" /\ UNCHANGED records
        /\ dirs[b][c] = "partial"
    BY <1>1, <1>3, <1>13 DEF DeleteRmtree, AtStep
  <2>2. SetTree(b, c, "absent") /\ NextItem(p, "delete tree", "idle")
    BY <1>1, <1>13, <2>1 DEF DeleteRmtree
  <2>3. /\ dirs'[b][c] = "absent"
        /\ \A d \in Content \ {c} : dirs'[b][d] = dirs[b][d]
    BY <1>4, <2>2
  <2> QED
    BY <1>6, <1>10, <2>1, <2>2, <2>3 DEF Removing
<1> QED
  BY <1>11, <1>12, <1>13

\* Every step of a job goes on well.
LEMMA StepGoes ==
    ASSUME TypeOK, Known, NEW p \in Procs, Step(p)
    PROVE  GoesOn(p)
BY BeforeTreesGoes, WriteTreesGoes, AfterTreesGoes, PublishGoes, TagsGo,
   EditGoes, DeleteGoes DEF Step

(***************************************************************************)
(* What is known stays known                                               *)
(***************************************************************************)

\* Trees that only come, and damaged ones that stay so, disturb nobody.
LEMMA TreesGrow ==
    ASSUME NEW step, NEW j, j.item \in Content, NEW row, NEW trees, NEW new,
           \A c \in Content : /\ trees[c] # "absent" => new[c] # "absent"
                              /\ trees[c] = "partial" => new[c] = "partial",
           AtStep(step, j, trees, row)
    PROVE  AtStep(step, j, new, row)
BY DEF AtStep, Stored

\* Nothing about the trees or the record of its build is known of a job that
\* only tags it.
LEMMA TagsOnlyKnow ==
    ASSUME NEW step \in Steps, NEW j, NEW trees, NEW row,
           AtStep(step, j, trees, row), j.op \in TagsOnly
    PROVE  /\ step \in SetTagSteps \cup UntagSteps
           /\ \A t, r : AtStep(step, j, t, r)
<1>1. j.op \notin Tasks \cup Commands \cup PublishOps \cup RecordEdits
  BY DEF TagsOnly, Tasks, Commands, PublishOps, RecordEdits
<1>2. j.op # "pull_build" /\ Handler(j) # "delete"
  BY <1>1 DEF Tasks, Handler
<1>3. step \notin PullSteps \cup DeletionSteps \cup {"publish", "edit", "save"}
  BY <1>1, <1>2 DEF AtStep
<1>4. step \in SetTagSteps \cup UntagSteps
  BY <1>3 DEF Steps, PullSteps, DeletionSteps, SetTagSteps, UntagSteps
<1> QED
  BY <1>2, <1>3, <1>4
     DEF AtStep, PullSteps, DeletionSteps, SetTagSteps, UntagSteps

\* A step of a job leaves everything that is known known: nobody else has a job
\* for its build but to tag it.
LEMMA StepKnows ==
    ASSUME TypeOK, Known, OneJob, NEW p \in Procs, Step(p)
    PROVE  Known'
<1>1. SUFFICES ASSUME NEW q \in Procs, pc'[q] # "idle"
               PROVE  AtStep(pc'[q], job'[q], dirs'[job'[q].build],
                             records'[job'[q].build])
  BY DEF Known
<1>2. /\ pc[p] # "idle"
      /\ pc'[p] # "idle" => job'[p].build = job[p].build
      /\ \A r \in Procs \ {p} : pc'[r] = pc[r] /\ job'[r] = job[r]
  BY StepKeepsRequest
<1>3. CASE q = p
  BY <1>1, <1>2, <1>3, StepGoes DEF GoesOn
<1>4. CASE q # p
  <2>1. SUFFICES ASSUME NEW j, j = job[q], NEW b, b = job[q].build
                 PROVE  AtStep(pc[q], j, dirs'[b], records'[b])
    BY <1>2, <1>4
  <2>2. pc[q] # "idle" /\ pc[q] \in Steps
    BY <1>1, <1>2, <1>4 DEF TypeOK, JobsTypeOK
  <2>3. b \in Builds /\ j \in Job /\ AtStep(pc[q], j, dirs[b], records[b])
    BY <2>1, <2>2, JobKnows
  <2>4. CASE UNCHANGED <<dirs, records>>
    BY <2>3, <2>4
  <2>5. CASE ~UNCHANGED <<dirs, records>>
    <3>1. /\ \/ Submit(p) \/ CopyPath(p) \/ RemoveTree(p) \/ Copy(p)
             \/ CopyTree(p) \/ Complete(p) \/ Delete(p) \/ DeleteTree(p)
             \/ DeleteRmtree(p) \/ Save(p)
          /\ \A other \in Builds \ {job[p].build} :
                dirs'[other] = dirs[other] /\ records'[other] = records[other]
      BY <2>5, ChangesOwnBuild
    <3>2. CASE b # job[p].build
      BY <2>3, <3>1, <3>2
    <3>3. CASE b = job[p].build
      <4>1. pc[p] \in PullSteps \cup DeletionSteps \cup {"save"}
        BY <3>1
           DEF Submit, CopyPath, RemoveTree, Copy, CopyTree, Complete, Delete,
               DeleteTree, DeleteRmtree, Save, PullSteps, DeletionSteps
      <4>2. job[p].op \notin TagsOnly
        <5>1. SUFFICES ASSUME job[p].op \in TagsOnly PROVE FALSE
          OBVIOUS
        <5>2. AtStep(pc[p], job[p], dirs[b], records[b]) /\ pc[p] \in Steps
          BY <1>2, <3>3, JobKnows DEF TypeOK, JobsTypeOK
        <5>3. pc[p] \in SetTagSteps \cup UntagSteps
          BY <5>1, <5>2, TagsOnlyKnow
        <5> QED
          BY <4>1, <5>3 DEF SetTagSteps, UntagSteps, PullSteps, DeletionSteps
      <4>3. j.op \in TagsOnly
        BY <1>2, <1>4, <2>1, <2>2, <3>3, <4>2 DEF OneJob
      <4> QED
        BY <2>2, <2>3, <4>3, TagsOnlyKnow
    <3> QED
      BY <3>2, <3>3
  <2> QED
    BY <2>4, <2>5
<1> QED
  BY <1>3, <1>4

\* Neither does it disturb anybody that a process dies.
LEMMA CrashKnows ==
    ASSUME TypeOK, Known, NEW p \in Procs, Crash(p)
    PROVE  Known'
<1>1. SUFFICES ASSUME NEW q \in Procs, pc'[q] # "idle"
               PROVE  AtStep(pc'[q], job'[q], dirs'[job'[q].build],
                             records'[job'[q].build])
  BY DEF Known
<1>2. /\ pc[p] # "idle" /\ UNCHANGED records
      /\ AbandonCopies(p) /\ Goto(p, "idle")
  BY DEF Crash
<1>3. /\ pc'[p] = "idle"
      /\ \A r \in Procs \ {p} : pc'[r] = pc[r] /\ job'[r] = job[r]
  BY <1>2, ControlValue DEF TypeOK
<1>4. q # p /\ pc'[q] = pc[q] /\ job'[q] = job[q] /\ pc[q] # "idle"
  BY <1>1, <1>3
<1>5. /\ job[q].build \in Builds /\ job[q].item \in Content
      /\ AtStep(pc[q], job[q], dirs[job[q].build], records[job[q].build])
  BY <1>4, JobKnows
<1>6. \A b \in Builds, c \in Content :
        /\ dirs[b][c] # "absent" => dirs'[b][c] # "absent"
        /\ dirs[b][c] = "partial" => dirs'[b][c] = "partial"
  BY <1>2 DEF AbandonCopies
<1>7. SUFFICES ASSUME NEW j, j = job[q], NEW b, b = job[q].build
               PROVE  AtStep(pc[q], j, dirs'[b], records[b])
  BY <1>2, <1>4
<1> QED
  BY <1>5, <1>6, <1>7, TreesGrow

\* A process begins an operation.
LEMMA BeginKnows ==
    ASSUME TypeOK, Known, NEW p \in Procs, NEW b \in Builds,
           NEW op, NEW step, NEW local, Begin(p, op, b, step, local),
           local.build = b, AtStep(step, local, dirs[b], records[b])
    PROVE  Known'
<1>1. /\ UNCHANGED <<dirs, records>>
      /\ pc'[p] = step /\ (step # "idle" => job'[p] = local)
      /\ \A q \in Procs \ {p} : pc'[q] = pc[q] /\ job'[q] = job[q]
  <2>1. JobsTypeOK /\ Continue(p, step, local)
    BY DEF Begin, TypeOK
  <2>2. /\ pc'[p] = step /\ (step # "idle" => job'[p] = local)
        /\ \A q \in Procs \ {p} : pc'[q] = pc[q] /\ job'[q] = job[q]
    BY <2>1, ContinueValue
  <2> QED
    BY <2>2 DEF Begin
<1>2. ASSUME NEW q \in Procs, pc'[q] # "idle"
      PROVE  AtStep(pc'[q], job'[q], dirs[job'[q].build], records[job'[q].build])
  <2>1. CASE q = p
    BY <1>1, <1>2, <2>1
  <2>2. CASE q # p
    BY <1>1, <1>2, <2>2 DEF Known
  <2> QED
    BY <2>1, <2>2
<1> QED
  BY <1>1, <1>2 DEF Known

LEMMA StartKnows ==
    ASSUME TypeOK, Known, NEW p \in Procs, Start(p)
    PROVE  Known'
<1>1. PICK b \in BuildsUsed[p] :
         \/ PullBuild(p, b) \/ PublishBuild(p, b) \/ DeleteBuild(p, b)
         \/ PublishMutation(p, b) \/ CreateBuildTag(p, b)
         \/ RemoveBuildTag(p, b) \/ KeepBuild(p, b) \/ ReleaseBuild(p, b)
         \/ CreateNote(p, b) \/ DeleteCommand(p, b)
  BY DEF Start
<1>2. b \in Builds
  BY PublisherAssumption
<1> DEFINE Asks(local, op) == /\ local.op = op /\ local.build = b /\ local.item = 1
                              /\ ~local.publishing
<1>3. ASSUME NEW op
      PROVE  /\ Asks(NewJob(op, b), op) /\ NewJob(op, b).tags = {}
             /\ \A note : Asks([NewJob(op, b) EXCEPT !.note = note], op)
             /\ \A tag : Asks([NewJob(op, b) EXCEPT !.tag = tag], op)
             /\ \A tags : Asks([NewJob(op, b) EXCEPT !.tags = tags], op)
             /\ \A note, tags :
                   Asks([NewJob(op, b) EXCEPT !.note = note, !.tags = tags], op)
  BY DEF NewJob
<1>4. ASSUME NEW op, NEW step, NEW local, Begin(p, op, b, step, local),
             Asks(local, op),
             \/ step = "pull" /\ op = "pull_build"
             \/ step = "pull" /\ op = "publish_build" /\ local.tags = {}
             \/ step = "delete" /\ op = "delete_build"
             \/ step = "publish" /\ op = "publish" /\ Pulled(b)
             \/ step = "tag" /\ op = "createBuildTag"
             \/ step = "untag" /\ op = "removeBuildTag"
             \/ step = "check tags" /\ op \in Commands
             \/ step = "edit" /\ op \in RecordEdits
      PROVE  Known'
  <2>1. Handler(local) = IF op \in {"pull_build", "publish_build"} THEN "delete" ELSE "idle"
    BY <1>4 DEF Handler
  <2>2. Pulled(b) => IsCompleted(records[b]) /\ Stored(dirs[b])
    BY DEF Pulled, RecordOf, EmptyRecord, RecordExists, IsCompleted,
           StoragePulled, Exists, Stored
  <2>3. AtStep(step, local, dirs[b], records[b])
    <3>1. CASE step \in {"pull", "delete", "publish"}
      BY <1>4, <2>1, <2>2, <3>1
         DEF AtStep, PullSteps, SetTagSteps, UntagSteps, DeletionSteps, Tasks,
             PublishOps
    <3>2. CASE step \in {"tag", "untag", "check tags", "edit"}
      BY <1>4, <2>1, <3>2
         DEF AtStep, PullSteps, SetTagSteps, UntagSteps, DeletionSteps
    <3> QED
      BY <1>4, <3>1, <3>2
  <2> QED
    BY <1>2, <1>4, <2>3, BeginKnows
<1> HIDE DEF Asks
<1>5. ASSUME PullBuild(p, b) PROVE Known'
  BY <1>3, <1>4, <1>5 DEF PullBuild
<1>6. ASSUME PublishBuild(p, b) PROVE Known'
  BY <1>3, <1>4, <1>6 DEF PublishBuild
<1>7. ASSUME DeleteBuild(p, b) PROVE Known'
  BY <1>3, <1>4, <1>7 DEF DeleteBuild
<1>8. ASSUME PublishMutation(p, b) PROVE Known'
  BY <1>3, <1>4, <1>8 DEF PublishMutation
<1>9. ASSUME CreateBuildTag(p, b) PROVE Known'
  BY <1>3, <1>4, <1>9 DEF CreateBuildTag
<1>10. ASSUME RemoveBuildTag(p, b) PROVE Known'
  BY <1>3, <1>4, <1>10 DEF RemoveBuildTag
<1>11. ASSUME KeepBuild(p, b) \/ ReleaseBuild(p, b) PROVE Known'
  BY <1>3, <1>4, <1>11 DEF KeepBuild, ReleaseBuild, RecordEdits
<1>12. ASSUME CreateNote(p, b) PROVE Known'
  BY <1>3, <1>4, <1>12 DEF CreateNote, RecordEdits
<1>13. ASSUME DeleteCommand(p, b) PROVE Known'
  BY <1>3, <1>4, <1>13 DEF DeleteCommand, Commands
<1> QED
  BY <1>1, <1>5, <1>6, <1>7, <1>8, <1>9, <1>10, <1>11, <1>12, <1>13

(***************************************************************************)
(* gbp.json tells whether a build is stored                                *)
(***************************************************************************)

\* A step of a job keeps gbp.json valid only of a build that is completed, or
\* is about to be completed or cleaned up.
LEMMA StepKeepsValidJson ==
    ASSUME TypeOK, Known, JsonFits, ValidJson, NEW p \in Procs, JobStep(p)
    PROVE  ValidJson'
<1>1. SUFFICES ASSUME NEW c \in Builds, json'[c] = "valid", ~IsCompleted(records'[c])
               PROVE  \/ \E q \in Procs : WillRemoveJson(q, c)'
                      \/ crashes' > 0 /\ records'[c] = Nil
                      \/ crashes' > 0 /\ \E q \in Procs : CleansUp(q, c)'
  BY DEF ValidJson, Completed, RecordExists
<1>2. SUFFICES ASSUME NEW b, b = job[p].build
               PROVE  \/ \E q \in Procs : WillRemoveJson(q, c)'
                      \/ crashes' > 0 /\ records'[c] = Nil
                      \/ crashes' > 0 /\ \E q \in Procs : CleansUp(q, c)'
  OBVIOUS
<1>3. Step(p) /\ crashes' = crashes
  BY StepCounts DEF JobStep
<1>4. /\ pc[p] # "idle"
      /\ pc'[p] # "idle" => job'[p].build = b
      /\ \A q \in Procs \ {p} : pc'[q] = pc[q] /\ job'[q] = job[q]
  BY <1>2, <1>3, StepKeepsRequest
<1>5. /\ \A other \in Builds \ {b} : json'[other] = json[other]
      /\ json'[b] \in {json[b], "missing"} \/ pc[p] = "gbp.json"
      /\ dirs'[b][Binpkgs] = "absent" => json'[b] = "missing"
  BY <1>2, StepWritesJson
<1>6. \A other \in Builds \ {b} : records'[other] = records[other]
  BY <1>2, <1>3, ChangesOwnBuild
<1>7. /\ IsCompleted(records[b]) => \/ IsCompleted(records'[b])
                                    \/ pc'[p] = "delete tree" /\ job'[p].item = 1
      /\ records[b] = Nil => \/ records'[b] = Nil \/ IsCompleted(records'[b])
                             \/ pc'[p] # "idle" /\ Handler(job'[p]) = "delete"
      /\ Handler(job[p]) = "delete" =>
            \/ pc'[p] # "idle" /\ Handler(job'[p]) = "delete"
            \/ IsCompleted(records'[b]) \/ records'[b] = Nil
      /\ pc[p] \in Removing /\ job[p].item <= Binpkgs =>
            \/ pc'[p] \in Removing /\ job'[p].item <= Binpkgs
            \/ dirs'[b][Binpkgs] = "absent"
      /\ pc[p] = "gbp.json" => IsCompleted(records'[b])
  BY <1>2, <1>3, StepGoes DEF GoesOn
<1>8. ASSUME NEW q \in Procs, q # p
      PROVE  /\ WillRemoveJson(q, c) => WillRemoveJson(q, c)'
             /\ CleansUp(q, c) => CleansUp(q, c)'
  BY <1>4, <1>8 DEF WillRemoveJson, CleansUp
<1>9. c = b => json[c] = "valid"
  BY <1>1, <1>5, <1>7
<1>10. json[c] = "valid"
  BY <1>1, <1>5, <1>9
<1>11. CASE c # b
  <2>1. ~Completed(c) /\ records'[c] = records[c]
    BY <1>1, <1>6, <1>11 DEF Completed
  <2>2. ~WillRemoveJson(p, c) /\ ~CleansUp(p, c)
    BY <1>2, <1>11 DEF WillRemoveJson, CleansUp
  <2> QED
    BY <1>3, <1>8, <1>10, <2>1, <2>2 DEF ValidJson, RecordExists
<1>12. CASE c = b
  <2>1. pc'[p] # "idle" /\ Handler(job'[p]) = "delete" => CleansUp(p, c)'
    BY <1>4, <1>12 DEF CleansUp
  <2>2. pc'[p] \in Removing /\ job'[p].item <= Binpkgs => WillRemoveJson(p, c)'
    BY <1>4, <1>12 DEF WillRemoveJson, Removing
  <2>3. CASE IsCompleted(records[b])
    <3>1. pc'[p] = "delete tree" /\ job'[p].item = 1
      BY <1>1, <1>7, <1>12, <2>3
    <3>2. 1 <= Binpkgs
      BY ChecksAssumption, ContentBounds DEF Content
    <3>3. pc'[p] \in Removing
      BY <3>1 DEF Removing
    <3>4. job'[p].item <= Binpkgs
      BY <3>1, <3>2
    <3> QED
      BY <2>2, <3>3, <3>4
  <2>4. CASE ~IsCompleted(records[b])
    <3>1. \/ \E q \in Procs : WillRemoveJson(q, c)
          \/ crashes > 0 /\ records[b] = Nil
          \/ crashes > 0 /\ \E q \in Procs : CleansUp(q, c)
      BY <1>10, <1>12, <2>4 DEF ValidJson, RecordExists, Completed
    <3>2. ASSUME WillRemoveJson(p, c) PROVE WillRemoveJson(p, c)'
      BY <1>1, <1>2, <1>5, <1>7, <1>12, <2>2, <3>2 DEF WillRemoveJson
    <3>3. ASSUME records[b] = Nil PROVE records'[b] = Nil \/ CleansUp(p, c)'
      BY <1>1, <1>7, <1>12, <2>1, <3>3
    <3>4. ASSUME CleansUp(p, c) PROVE records'[b] = Nil \/ CleansUp(p, c)'
      BY <1>1, <1>7, <1>12, <2>1, <3>4 DEF CleansUp
    <3>5. CASE \E q \in Procs : WillRemoveJson(q, c)
      BY <1>8, <3>2, <3>5
    <3>6. CASE crashes > 0 /\ records[b] = Nil
      BY <1>3, <1>12, <3>3, <3>6
    <3>7. CASE crashes > 0 /\ \E q \in Procs : CleansUp(q, c)
      BY <1>3, <1>8, <1>12, <3>4, <3>7
    <3> QED
      BY <3>1, <3>5, <3>6, <3>7
  <2> QED
    BY <2>3, <2>4
<1> QED
  BY <1>11, <1>12

\* If only one process dies, it leaves a valid gbp.json without a record at worst.
LEMMA CrashKeepsValidJson ==
    ASSUME TypeOK, Known, JsonFits, ValidJson, crashes' <= 1,
           NEW p \in Procs, JobCrash(p)
    PROVE  JsonFits' /\ ValidJson'
<1>1. crashes = 0 /\ crashes' = 1
  BY PublisherAssumption DEF JobCrash, Crash, TypeOK
<1>2. /\ pc[p] # "idle" /\ UNCHANGED records
      /\ AbandonCopies(p) /\ Goto(p, "idle")
  BY DEF JobCrash, Crash
<1>3. \A q \in Procs \ {p} : pc'[q] = pc[q] /\ job'[q] = job[q]
  BY <1>2, ControlValue DEF TypeOK
<1>4. \A b \in Builds : Exists(b, Binpkgs)' <=> Exists(b, Binpkgs)
  <2>1. p # "absent"
    BY StorageAssumption
  <2> QED
    BY <1>2, <2>1, ChecksAssumption DEF AbandonCopies, Exists
<1>5. /\ job[p].build \in Builds
      /\ AtStep(pc[p], job[p], dirs[job[p].build], records[job[p].build])
  BY <1>2, JobKnows
<1>6. \/ json' = json
      \/ /\ Exists(job[p].build, Binpkgs)
         /\ json' = [json EXCEPT ![job[p].build] = "corrupt"]
  <2>1. PICK state \in {json[job[p].build], "corrupt"} :
            /\ json' = [json EXCEPT ![job[p].build] = state]
            /\ state # json[job[p].build] => Exists(job[p].build, Binpkgs)
    BY DEF JobCrash, JsonAfterWrite
  <2> QED
    BY <2>1 DEF JsonFits
<1>7. JsonFits'
  <2>1. CASE json' = json
    BY <1>4, <2>1 DEF JsonFits
  <2>2. CASE /\ Exists(job[p].build, Binpkgs)
             /\ json' = [json EXCEPT ![job[p].build] = "corrupt"]
    BY <1>4, <2>2 DEF JsonFits
  <2> QED
    BY <1>6, <2>1, <2>2
<1>8. ASSUME NEW c \in Builds, json'[c] = "valid", ~Completed(c)
      PROVE  (\E q \in Procs : WillRemoveJson(q, c)') \/ ~RecordExists(c)
  <2>1. json[c] = "valid"
    BY <1>6, <1>8 DEF JsonFits
  <2>2. PICK q \in Procs : WillRemoveJson(q, c)
    BY <1>1, <1>8, <2>1 DEF ValidJson
  <2>3. CASE q = p
    BY <1>5, <2>2, <2>3 DEF WillRemoveJson, Removing, AtStep, RecordExists
  <2>4. CASE q # p
    BY <1>3, <2>2, <2>4 DEF WillRemoveJson
  <2> QED
    BY <2>3, <2>4
<1> QED
  BY <1>1, <1>2, <1>7, <1>8 DEF ValidJson, Completed, RecordExists

\* A request that begins leaves gbp.json alone, and is not for what others do.
LEMMA StartKeepsValidJson ==
    ASSUME TypeOK, JsonFits, ValidJson, NEW p \in Procs, Start(p), UNCHANGED json
    PROVE  JsonFits' /\ ValidJson'
<1>1. UNCHANGED <<dirs, links, records, crashes>>
  BY StartFrame
<1>2. pc[p] = "idle" /\ \A q \in Procs \ {p} : pc'[q] = pc[q] /\ job'[q] = job[q]
  BY StartsAlone
<1>3. \A q \in Procs, b \in Builds :
        /\ WillRemoveJson(q, b) => WillRemoveJson(q, b)'
        /\ CleansUp(q, b) => CleansUp(q, b)'
  BY <1>2 DEF WillRemoveJson, CleansUp, Removing
<1> QED
  BY <1>1, <1>3 DEF JsonFits, ValidJson, Exists, Completed, RecordExists

(***************************************************************************)
(* What a check has seen                                                   *)
(***************************************************************************)

\* A step that only looks leaves everything as the check has seen it.
LEMMA SeenStays ==
    ASSUME NEW next, Look(next), Seen(next)
    PROVE  Seen(check)'
<1>1. check' = next /\ UNCHANGED <<dirs, links, records, json>>
  BY DEF Look, GoOn
<1>2. /\ \A b, c : Exists(b, c)' <=> Exists(b, c)
      /\ \A b : RecordExists(b)' <=> RecordExists(b)
      /\ \A t, c : (links[t][c] # Nil)' <=> links[t][c] # Nil
  BY <1>1 DEF Exists, RecordExists
<1>3. /\ \A b : StoragePulled(b)' <=> StoragePulled(b)
      /\ \A t, c : Dangles(t, c)' <=> Dangles(t, c)
      /\ \A c : Clean(c)' <=> Clean(c)
  BY <1>1 DEF StoragePulled, Dangles, Clean, Exists, RecordExists
<1> QED
  BY <1>1, <1>2, <1>3 DEF Seen

\* The records and their paths
LEMMA RecordsSeen ==
    ASSUME check \in Check, Seen(check),
           ~check.errors, ~check.warnings,
           ListRecords \/ NextRecord \/ ExistsTest
    PROVE  check'.errors \/ check'.warnings \/ Seen(check)'
<1>1. \A next : Look(next) => check' = next
  BY DEF Look, GoOn
<1>2. CASE ListRecords
  <2>1. Listed("next").step = "next" /\ Listed("next").rows = {b \in Builds : RecordExists(b)}
    BY DEF Listed, Check
  <2>2. Seen(Listed("next"))
    BY <2>1 DEF Seen
  <2> QED
    BY <1>2, <2>2, SeenStays DEF ListRecords
<1>3. CASE NextRecord
  <2>1. check.step = "next"
    BY <1>3 DEF NextRecord
  <2>2. \A b \in Builds : RecordExists(b) => StoragePulled(b) \/ b \in check.rows
    BY <2>1 DEF Seen
  <2>3. ASSUME NEW b \in FirstRows,
               Look([check EXCEPT !.step = "exists", !.build = b, !.item = 1,
                                  !.missing = FALSE, !.rows = @ \ {b}])
        PROVE  Seen(check)'
    <3>1. SUFFICES ASSUME NEW s, s = [check EXCEPT !.step = "exists", !.build = b,
                                         !.item = 1, !.missing = FALSE,
                                         !.rows = @ \ {b}]
                   PROVE  Seen(s)
      BY <2>3, SeenStays
    <3>2. /\ s.step = "exists" /\ s.build = b /\ s.item = 1
          /\ s.rows = check.rows \ {b}
      BY <3>1 DEF Check
    <3>3. \A c \in Content : ~(c < 1)
      BY ContentBounds DEF Content
    <3> QED
      BY <2>2, <3>2, <3>3 DEF Seen
  <2>4. ASSUME check.rows = {},
               Look([check EXCEPT !.step = "orphans", !.item = 1,
                                  !.completed = {}, !.build = Nil])
        PROVE  Seen(check)'
    <3>1. SUFFICES ASSUME NEW s, s = [check EXCEPT !.step = "orphans", !.item = 1,
                                         !.completed = {}, !.build = Nil]
                   PROVE  Seen(s)
      BY <2>4, SeenStays
    <3>2. s.step = "orphans" /\ s.item = 1
      BY <3>1 DEF Check
    <3>3. \A c \in Content : ~(c < 1)
      BY ContentBounds DEF Content
    <3> QED
      BY <2>2, <2>4, <3>2, <3>3 DEF Seen
  <2> QED
    BY <1>3, <2>3, <2>4 DEF NextRecord
<1>4. CASE ExistsTest
  <2>1. check.step = "exists" /\ check.item \in Content /\ check.missing \in BOOLEAN
    BY <1>4 DEF ExistsTest, Check
  <2>2. /\ \A b \in Builds : RecordExists(b) =>
              StoragePulled(b) \/ b \in check.rows \/ b = check.build
        /\ check.missing \/ \A c \in Content : c < check.item => Exists(check.build, c)
    BY <2>1 DEF Seen
  <2>3. ASSUME NEW missing \in BOOLEAN, Look(AfterContent(missing)),
               \/ missing
               \/ Exists(check.build, check.item) /\ ~check.missing
        PROVE  check'.errors \/ check'.warnings \/ Seen(check)'
    <3>1. SUFFICES ASSUME NEW s, s = AfterContent(missing)
                   PROVE  s.errors \/ s.warnings \/ Seen(s)
      BY <1>1, <2>3, SeenStays
    <3>2. CASE check.item < N
      <4>1. /\ s.step = "exists" /\ s.build = check.build /\ s.item = check.item + 1
            /\ s.rows = check.rows /\ s.missing = missing
        BY <3>1, <3>2 DEF AfterContent, Check
      <4>2. \A c \in Content : c < check.item + 1 => c < check.item \/ c = check.item
        BY <2>1, ContentBounds DEF Content
      <4>3. missing \/ \A c \in Content : c < s.item => Exists(s.build, c)
        BY <2>2, <2>3, <4>1, <4>2
      <4> QED
        BY <2>2, <4>1, <4>3 DEF Seen
    <3>3. CASE ~(check.item < N)
      <4>1. /\ s.step = "next" /\ s.rows = check.rows
            /\ s.errors <=> check.errors \/ (missing /\ check.build \in check.completed)
            /\ s.warnings <=>
                 check.warnings \/ (missing /\ check.build \notin check.completed)
        BY <3>1, <3>3 DEF AfterContent, Check
      <4>2. CASE missing
        BY <4>1, <4>2
      <4>3. CASE ~missing
        <5>1. \A c \in Content : c < check.item \/ c = check.item
          BY <2>1, <3>3, ContentBounds DEF Content
        <5>2. StoragePulled(check.build)
          BY <2>2, <2>3, <4>3, <5>1 DEF StoragePulled
        <5> QED
          BY <2>2, <4>1, <5>2 DEF Seen
      <4> QED
        BY <4>2, <4>3
    <3> QED
      BY <3>2, <3>3
  <2>4. ASSUME Look([check EXCEPT !.step = "mkdir", !.warnings = TRUE])
        PROVE  check'.warnings
    BY <1>1, <2>4 DEF Check
  <2>5. \/ Exists(check.build, check.item) /\ Look(AfterContent(check.missing))
        \/ Look([check EXCEPT !.step = "mkdir", !.warnings = TRUE])
        \/ Look(AfterContent(TRUE))
    BY <1>4 DEF ExistsTest
  <2> QED
    BY <2>1, <2>3, <2>4, <2>5
<1> QED
  BY <1>2, <1>3, <1>4

\* The trees and links of each content
LEMMA OrphansSeen ==
    ASSUME check \in Check, Seen(check), ListContent \/ Orphan
    PROVE  check'.errors \/ Seen(check)'
<1>1. \A next : Look(next) => check' = next
  BY DEF Look, GoOn
<1>2. check.step \in {"orphans", "orphan"} /\ check.item \in Content
  BY DEF ListContent, Orphan, Check
<1>3. /\ \A b \in Builds : RecordExists(b) => StoragePulled(b)
      /\ \A c \in Content : c < check.item => Clean(c)
  BY <1>2 DEF Seen
<1>4. CASE ListContent
  <2>1. SUFFICES ASSUME NEW s, s = [check EXCEPT !.step = "orphan",
                                 !.rows = {b \in Builds : Exists(b, check.item)},
                                 !.tags = {t \in Tags : links[t][check.item] # Nil}]
                 PROVE  Seen(s)
    BY <1>4, SeenStays DEF ListContent
  <2>2. /\ s.step = "orphan" /\ s.item = check.item
        /\ s.rows = {b \in Builds : Exists(b, check.item)}
        /\ s.tags = {t \in Tags : links[t][check.item] # Nil}
    BY <2>1 DEF Check
  <2> QED
    BY <1>3, <2>2 DEF Seen, Dangles
<1>5. CASE Orphan
  <2>1. check.step = "orphan"
    BY <1>5 DEF Orphan
  <2>2. /\ \A b \in Builds : Exists(b, check.item) => RecordExists(b) \/ b \in check.rows
        /\ \A t \in Tags : Dangles(t, check.item) => t \in check.tags
    BY <2>1 DEF Seen
  <2>3. ASSUME NEW b \in check.rows,
               Look([check EXCEPT !.rows = @ \ {b}, !.errors = @ \/ ~RecordExists(b)])
        PROVE  check'.errors \/ Seen(check)'
    <3>1. SUFFICES ASSUME NEW s, s = [check EXCEPT !.rows = @ \ {b},
                                         !.errors = @ \/ ~RecordExists(b)]
                   PROVE  s.errors \/ Seen(s)
      BY <1>1, <2>3, SeenStays
    <3>2. /\ s.step = "orphan" /\ s.item = check.item /\ s.tags = check.tags
          /\ s.rows = check.rows \ {b}
          /\ s.errors <=> check.errors \/ ~RecordExists(b)
      BY <2>1, <3>1 DEF Check
    <3> QED
      BY <1>3, <2>2, <3>2 DEF Seen
  <2>4. ASSUME NEW t \in check.tags,
               Look([check EXCEPT !.tags = @ \ {t},
                                  !.errors = @ \/ Dangles(t, check.item)])
        PROVE  check'.errors \/ Seen(check)'
    <3>1. SUFFICES ASSUME NEW s, s = [check EXCEPT !.tags = @ \ {t},
                                         !.errors = @ \/ Dangles(t, check.item)]
                   PROVE  s.errors \/ Seen(s)
      BY <1>1, <2>4, SeenStays
    <3>2. /\ s.step = "orphan" /\ s.item = check.item /\ s.rows = check.rows
          /\ s.tags = check.tags \ {t}
          /\ s.errors <=> check.errors \/ Dangles(t, check.item)
      BY <2>1, <3>1 DEF Check
    <3> QED
      BY <1>3, <2>2, <3>2 DEF Seen
  <2>5. ASSUME check.rows = {}, check.tags = {},
               Look(IF check.item < N THEN [check EXCEPT !.step = "orphans", !.item = @ + 1]
                    ELSE [check EXCEPT !.step = "tags", !.item = 1])
        PROVE  Seen(check)'
    <3>1. Clean(check.item)
      BY <2>2, <2>5 DEF Clean
    <3>2. CASE check.item < N
      <4>1. SUFFICES ASSUME NEW s, s = [check EXCEPT !.step = "orphans", !.item = @ + 1]
                     PROVE  Seen(s)
        BY <2>5, <3>2, SeenStays
      <4>2. s.step = "orphans" /\ s.item = check.item + 1
        BY <4>1 DEF Check
      <4>3. \A c \in Content : c < check.item + 1 => c < check.item \/ c = check.item
        BY <1>2, ContentBounds DEF Content
      <4> QED
        BY <1>3, <3>1, <4>2, <4>3 DEF Seen
    <3>3. CASE ~(check.item < N)
      <4>1. SUFFICES ASSUME NEW s, s = [check EXCEPT !.step = "tags", !.item = 1]
                     PROVE  Seen(s)
        BY <2>5, <3>3, SeenStays
      <4>2. s.step = "tags"
        BY <4>1 DEF Check
      <4>3. \A c \in Content : c < check.item \/ c = check.item
        BY <1>2, <3>3, ContentBounds DEF Content
      <4> QED
        BY <1>3, <3>1, <4>2, <4>3 DEF Seen
    <3> QED
      BY <3>2, <3>3
  <2> QED
    BY <1>5, <2>3, <2>4, <2>5, Zenon DEF Orphan
<1> QED
  BY <1>4, <1>5

\* The tags and the temporary directory, which say nothing of builds
LEMMA NothingElseSeen ==
    ASSUME check \in Check, Seen(check), ListTags \/ Target \/ DirtyTemp
    PROVE  Seen(check)'
<1>1. \A next : Look(next) => check' = next
  BY DEF Look, GoOn
<1>2. check.step \in {"tags", "target", "temp"}
  BY DEF ListTags, Target, DirtyTemp
<1>3. /\ \A b \in Builds : RecordExists(b) => StoragePulled(b)
      /\ \A c \in Content : Clean(c)
  BY <1>2 DEF Seen
<1>4. PICK next : Look(next)
  BY DEF ListTags, Target, DirtyTemp
<1>5. check'.step \in {"tags", "target", "temp", "json records"}
  <2>1. ListTags => check'.step = "target"
    BY <1>1 DEF ListTags, Check
  <2>2. DirtyTemp => check'.step = "json records"
    <3>1. \A w : [check EXCEPT !.step = "json records", !.warnings = w].step = "json records"
      BY DEF Check
    <3> QED
      BY <1>1, <3>1 DEF DirtyTemp
  <2>3. ASSUME Target PROVE check'.step \in {"target", "tags", "temp"}
    <3>1. ASSUME NEW t,
                 Look([check EXCEPT !.tags = @ \ {t},
                         !.targets[t] = @ \cup ({links[t][check.item]} \ {Nil})])
          PROVE  check'.step = check.step
      <4>1. check' = [check EXCEPT !.tags = @ \ {t},
                        !.targets[t] = @ \cup ({links[t][check.item]} \ {Nil})]
        BY <1>1, <3>1
      <4> QED
        BY <4>1 DEF Check
    <3>2. \A item : [check EXCEPT !.step = "tags", !.item = item].step = "tags"
      BY DEF Check
    <3>3. \A x, e : [check EXCEPT !.step = "temp", !.item = 1,
                                  !.targets = x, !.errors = e].step = "temp"
      BY DEF Check
    <3> DEFINE last == [check EXCEPT !.step = "temp", !.item = 1,
                          !.targets = [t \in Tags |-> {}],
                          !.errors = @ \/ \E t \in Tags :
                                Cardinality(check.targets[t]) > 1]
    <3>4. last.step = "temp"
      BY <3>3
    <3>5. ASSUME Look(IF check.item < N
                      THEN [check EXCEPT !.step = "tags", !.item = @ + 1]
                      ELSE last)
          PROVE  check'.step \in {"tags", "temp"}
      <4> HIDE DEF last
      <4> QED
        BY <1>1, <3>2, <3>4, <3>5
    <3> QED
      BY <1>2, <2>3, <3>1, <3>5, Zenon DEF Target
  <2> QED
    BY <2>1, <2>2, <2>3
<1>6. next.step \in {"tags", "target", "temp", "json records"}
  BY <1>1, <1>4, <1>5
<1>7. Seen(next)
  BY <1>3, <1>6 DEF Seen
<1> QED
  BY <1>4, <1>7, SeenStays

\* The gbp.json of each record
LEMMA GbpJsonSeen ==
    ASSUME check \in Check, Seen(check), JsonFits,
           \A p \in Procs : pc[p] = "idle",
           ListJsonRecords \/ CorruptGbpJson
    PROVE  check'.errors \/ check'.warnings \/ Seen(check)'
<1>1. \A next : Look(next) => check' = next
  BY DEF Look, GoOn
<1>2. check.step \in {"json records", "gbp.json"} /\ check.rows \in SUBSET Builds
  BY DEF ListJsonRecords, CorruptGbpJson, Check
<1>3. /\ \A b \in Builds : RecordExists(b) => StoragePulled(b)
      /\ \A c \in Content : Clean(c)
  BY <1>2 DEF Seen
<1>4. CASE ListJsonRecords
  <2>1. /\ Listed("gbp.json").step = "gbp.json"
        /\ Listed("gbp.json").rows = {b \in Builds : RecordExists(b)}
    BY DEF Listed, Check
  <2>2. Seen(Listed("gbp.json"))
    BY <1>3, <2>1 DEF Seen
  <2> QED
    BY <1>4, <2>2, SeenStays DEF ListJsonRecords
<1>5. CASE CorruptGbpJson
  <2>1. check.step = "gbp.json"
    BY <1>5 DEF CorruptGbpJson
  <2>2. \A b \in Builds : RecordExists(b) => json[b] = "valid" \/ b \in check.rows
    BY <2>1 DEF Seen
  <2>3. ASSUME NEW b \in FirstRows, NEW state, state = json[b],
               Look([check EXCEPT !.rows = @ \ {b},
                                  !.warnings = @ \/ Warns(state),
                                  !.errors = @ \/ state = "corrupt",
                                  !.excuse = @ \/ BeingWritten(b)])
        PROVE  check'.errors \/ check'.warnings \/ Seen(check)'
    <3>1. SUFFICES ASSUME NEW s, s = [check EXCEPT !.rows = @ \ {b},
                                         !.warnings = @ \/ Warns(state),
                                         !.errors = @ \/ state = "corrupt",
                                         !.excuse = @ \/ BeingWritten(b)]
                   PROVE  s.errors \/ s.warnings \/ Seen(s)
      BY <1>1, <2>3, SeenStays
    <3>2. /\ s.step = "gbp.json" /\ s.rows = check.rows \ {b}
          /\ s.warnings <=> check.warnings \/ Warns(state)
          /\ s.errors <=> check.errors \/ state = "corrupt"
      BY <2>1, <3>1 DEF Check
    <3>3. state \in {"missing", "valid", "corrupt"}
      BY <1>2, <2>3 DEF JsonFits, FirstRows
    <3> QED
      BY <1>3, <2>2, <2>3, <3>2, <3>3 DEF Seen, Warns
  <2>4. ASSUME check.rows = {}, Look([check EXCEPT !.step = "report", !.completed = {}])
        PROVE  Seen(check)'
    <3>1. [check EXCEPT !.step = "report", !.completed = {}].step = "report"
      BY DEF Check
    <3>2. Seen([check EXCEPT !.step = "report", !.completed = {}])
      BY <1>3, <2>2, <2>4, <3>1 DEF Seen
    <3> QED
      BY <2>4, <3>2, SeenStays
  <2>5. \A b : ~BeingWritten(b)
    BY DEF BeingWritten
  <2> QED
    BY <1>5, <2>3, <2>4, <2>5 DEF CorruptGbpJson
<1> QED
  BY <1>4, <1>5

\* What a check has counted is not forgotten, and it warns of a directory that
\* it creates.
LEMMA ChecksRemember ==
    ASSUME check \in Check, CheckStep, check' # Nil
    PROVE  /\ check.errors => check'.errors
           /\ check.warnings => check'.warnings
           /\ check'.step = "mkdir" => check'.warnings
<1> DEFINE Remembers(s) == /\ check.errors => s.errors
                           /\ check.warnings => s.warnings
                           /\ s.step = "mkdir" => s.warnings
           Goal == Remembers(check')
<1>0. SUFFICES Goal
  OBVIOUS
<1>1. \A next : Look(next) \/ GoOn(next) => check' = next
  BY DEF Look, GoOn
<1>2. ASSUME NextRecord PROVE Goal
  <2>1. ASSUME NEW b, Look([check EXCEPT !.step = "exists", !.build = b, !.item = 1,
                                         !.missing = FALSE, !.rows = @ \ {b}])
        PROVE  Goal
    BY <1>1, <2>1 DEF Check
  <2>2. ASSUME Look([check EXCEPT !.step = "orphans", !.item = 1, !.completed = {},
                                  !.build = Nil])
        PROVE  Goal
    BY <1>1, <2>2 DEF Check
  <2> HIDE DEF Goal
  <2> QED
    BY <1>2, <2>1, <2>2, Zenon DEF NextRecord
<1>3. ASSUME ExistsTest \/ Mkdir PROVE Goal
  <2>1. \A missing : Remembers(AfterContent(missing))
    <3>1. \A i, m : Remembers([check EXCEPT !.step = "exists", !.item = i, !.missing = m])
      BY DEF Check
    <3>2. \A e, w : (check.errors => e) /\ (check.warnings => w) =>
            Remembers([check EXCEPT !.step = "next", !.missing = FALSE,
                                    !.errors = e, !.warnings = w])
      BY DEF Check
    <3> HIDE DEF Remembers
    <3> QED
      BY <3>1, <3>2 DEF AfterContent
  <2>2. Remembers([check EXCEPT !.step = "mkdir", !.warnings = TRUE])
    BY DEF Check
  <2> HIDE DEF Remembers
  <2>3. CASE ExistsTest
    BY <1>1, <2>1, <2>2, <2>3 DEF ExistsTest
  <2>4. CASE Mkdir
    BY <1>1, <2>1, <2>4 DEF Mkdir
  <2> QED
    BY <1>3, <2>3, <2>4
<1>4. ASSUME ListRecords \/ ListContent \/ ListTags \/ ListJsonRecords PROVE Goal
  <2>1. CASE ListRecords
    BY <1>1, <2>1 DEF ListRecords, Listed, Check
  <2>2. CASE ListContent
    BY <1>1, <2>2 DEF ListContent, Check
  <2>3. CASE ListTags
    BY <1>1, <2>3 DEF ListTags, Check
  <2>4. CASE ListJsonRecords
    BY <1>1, <2>4 DEF ListJsonRecords, Listed, Check
  <2> HIDE DEF Goal
  <2> QED
    BY <1>4, <2>1, <2>2, <2>3, <2>4
<1>5. ASSUME Orphan PROVE Goal
  <2>1. ASSUME NEW b, Look([check EXCEPT !.rows = @ \ {b},
                                         !.errors = @ \/ ~RecordExists(b)])
        PROVE  Goal
    <3>1. check.step = "orphan"
      BY <1>5 DEF Orphan
    <3> QED
      BY <1>1, <2>1, <3>1 DEF Check
  <2>2. ASSUME NEW t, Look([check EXCEPT !.tags = @ \ {t},
                                         !.errors = @ \/ Dangles(t, check.item)])
        PROVE  Goal
    <3>1. check.step = "orphan"
      BY <1>5 DEF Orphan
    <3> QED
      BY <1>1, <2>2, <3>1 DEF Check
  <2>3. ASSUME Look(IF check.item < N THEN [check EXCEPT !.step = "orphans", !.item = @ + 1]
                    ELSE [check EXCEPT !.step = "tags", !.item = 1])
        PROVE  Goal
    BY <1>1, <2>3 DEF Check
  <2> HIDE DEF Goal
  <2> QED
    BY <1>5, <2>1, <2>2, <2>3, Zenon DEF Orphan
<1>6. ASSUME Target PROVE Goal
  <2>1. ASSUME NEW t,
               Look([check EXCEPT !.tags = @ \ {t},
                       !.targets[t] = @ \cup ({links[t][check.item]} \ {Nil})])
        PROVE  Goal
    <3>1. check.step = "target"
      BY <1>6 DEF Target
    <3> QED
      BY <1>1, <2>1, <3>1 DEF Check
  <2>2. \A x, e : (check.errors => e) =>
          Remembers([check EXCEPT !.step = "temp", !.item = 1, !.targets = x,
                                  !.errors = e])
    BY DEF Check
  <2>3. \A i : Remembers([check EXCEPT !.step = "tags", !.item = i])
    BY DEF Check
  <2>4. ASSUME Look(IF check.item < N
                    THEN [check EXCEPT !.step = "tags", !.item = @ + 1]
                    ELSE [check EXCEPT !.step = "temp", !.item = 1,
                            !.targets = [t \in Tags |-> {}],
                            !.errors = @ \/ \E t \in Tags :
                                  Cardinality(check.targets[t]) > 1])
        PROVE  Goal
    <3>1. Remembers([check EXCEPT !.step = "temp", !.item = 1,
                       !.targets = [t \in Tags |-> {}],
                       !.errors = @ \/ \E t \in Tags :
                             Cardinality(check.targets[t]) > 1])
      BY <2>2
    <3>2. Remembers([check EXCEPT !.step = "tags", !.item = @ + 1])
      BY <2>3
    <3> HIDE DEF Remembers
    <3>3. CASE check.item < N
      BY <1>1, <2>4, <3>2, <3>3
    <3>4. CASE ~(check.item < N)
      BY <1>1, <2>4, <3>1, <3>4
    <3> QED
      BY <3>3, <3>4
  <2> HIDE DEF Goal
  <2> QED
    BY <1>6, <2>1, <2>4, Zenon DEF Target
<1>7. ASSUME DirtyTemp PROVE Goal
  <2>1. \A w : (check.warnings => w) =>
          Remembers([check EXCEPT !.step = "json records", !.warnings = w])
    BY DEF Check
  <2> HIDE DEF Remembers
  <2> QED
    BY <1>1, <1>7, <2>1 DEF DirtyTemp
<1>8. ASSUME CorruptGbpJson PROVE Goal
  <2>1. ASSUME NEW b, NEW state,
               Look([check EXCEPT !.rows = @ \ {b},
                                  !.warnings = @ \/ Warns(state),
                                  !.errors = @ \/ state = "corrupt",
                                  !.excuse = @ \/ BeingWritten(b)])
        PROVE  Goal
    <3>1. check.step = "gbp.json"
      BY <1>8 DEF CorruptGbpJson
    <3>2. check' = [check EXCEPT !.rows = @ \ {b},
                                 !.warnings = @ \/ Warns(state),
                                 !.errors = @ \/ state = "corrupt",
                                 !.excuse = @ \/ BeingWritten(b)]
      BY <1>1, <2>1
    <3>3. \A rows, w, e, x : (check.errors => e) /\ (check.warnings => w) =>
            Remembers([check EXCEPT !.rows = rows, !.warnings = w, !.errors = e,
                                    !.excuse = x])
      BY <3>1 DEF Check
    <3> HIDE DEF Remembers
    <3> QED
      BY <3>2, <3>3
  <2>2. ASSUME Look([check EXCEPT !.step = "report", !.completed = {}])
        PROVE  Goal
    BY <1>1, <2>2 DEF Check
  <2> HIDE DEF Goal
  <2> QED
    BY <1>8, <2>1, <2>2, Zenon DEF CorruptGbpJson
<1>9. ~Report
  BY <1>1 DEF Report
<1> HIDE DEF Goal
<1> QED
  BY <1>2, <1>3, <1>4, <1>5, <1>6, <1>7, <1>8, <1>9 DEF CheckStep

(***************************************************************************)
(* Which trees are whole                                                   *)
(***************************************************************************)

\* What p's step makes of its own build.
LEMMA OwnBuildStores ==
    ASSUME TypeOK, Known, StoredInv, NEW p \in Procs, Step(p),
           NEW b, b = job[p].build
    PROVE  /\ IsCompleted(records'[b]) => \A c \in Content : dirs'[b][c] # "absent"
           /\ pc'[p] \in FetchSteps => ~IsCompleted(records'[b])
<1>1. SUFFICES ASSUME NEW j, j = job[p]
               PROVE  /\ IsCompleted(records'[b]) =>
                            \A c \in Content : dirs'[b][c] # "absent"
                      /\ pc'[p] \in FetchSteps => ~IsCompleted(records'[b])
  OBVIOUS
<1>2. pc[p] # "idle"
  BY StepKeepsRequest
<1>3. /\ JobsTypeOK /\ RecordsTypeOK /\ j \in Job /\ b \in Builds
      /\ AtStep(pc[p], j, dirs[b], records[b])
  BY <1>1, <1>2, JobKnows
<1>4. IsCompleted(records[b]) => \A c \in Content : dirs[b][c] # "absent"
  BY <1>3 DEF StoredInv, Completed, StoragePulled, Exists
<1>5. \A next, local : Continue(p, next, local) => pc'[p] = next
  BY <1>3, ContinueValue
<1>6. CASE pc[p] \in FetchSteps
  <2>1. ~IsCompleted(records[b])
    BY <1>1, <1>6 DEF StoredInv, Completed
  <2>2. CASE UNCHANGED records
    BY <2>1, <2>2
  <2>3. CASE Submit(p)
    <3>1. ~j.record.completed
      BY <1>3, <2>1, <2>3 DEF Submit, AtStep
    <3>2. records'[b] = [j.record EXCEPT !.note = j.note]
      BY <1>1, <1>3, <2>3, SaveValue DEF Submit
    <3>3. j.record \in Record
      BY <1>3, JobFields
    <3>4. ~records'[b].completed
      BY <3>1, <3>2, <3>3 DEF Record
    <3> QED
      BY <3>4 DEF IsCompleted
  <2>4. \/ Submit(p) \/ Download(p) \/ Extract(p) \/ CopyPath(p) \/ RemoveTree(p)
        \/ Copy(p) \/ CopyTree(p)
    BY <1>6
       DEF FetchSteps, Step, Pull, NextTag, Metadata, Complete, GbpJson, Publish,
           Tag, IsLink, Unlink, Symlink, CheckTags, Untag, IsSymlink, RemoveLink,
           Delete, DeleteTree, DeleteRmtree, Edit, Save
  <2>5. Submit(p) \/ UNCHANGED records
    BY <2>4 DEF Download, Extract, CopyPath, RemoveTree, Copy, CopyTree
  <2> QED
    BY <2>2, <2>3, <2>5
<1>7. CASE Pull(p)
  <2>1. UNCHANGED <<dirs, records>>
    BY <1>7 DEF Pull
  <2>2. IsCompleted(records[b]) => Pulled(b)
    BY <1>4 DEF Pulled, RecordOf, RecordExists, IsCompleted, StoragePulled, Exists
  <2>3. Pulled(b) => pc'[p] = AfterPull(j)
    BY <1>1, <1>5, <1>7 DEF Pull, Goto
  <2>4. AfterPull(j) \notin FetchSteps
    BY DEF AfterPull, FetchSteps
  <2> QED
    BY <1>4, <2>1, <2>2, <2>3, <2>4
<1>8. CASE Complete(p)
  <2>1. Stored(dirs[b])
    BY <1>3, <1>8 DEF Complete, AtStep
  <2>2. pc'[p] = "gbp.json" /\ UNCHANGED dirs
    BY <1>5, <1>8 DEF Complete, Goto
  <2> QED
    BY <2>1, <2>2 DEF Stored, FetchSteps
<1>9. CASE Delete(p) \/ DeleteTree(p) \/ DeleteRmtree(p)
  <2>1. CASE Delete(p)
    <3>1. records'[b] = Nil
      BY <1>1, <1>3, <2>1, SaveValue DEF Delete
    <3> QED
      BY <3>1 DEF IsCompleted
  <2>2. CASE DeleteTree(p) \/ DeleteRmtree(p)
    <3>1. records[b] = Nil /\ UNCHANGED records
      BY <1>3, <2>2 DEF DeleteTree, DeleteRmtree, AtStep
    <3> QED
      BY <3>1 DEF IsCompleted
  <2> QED
    BY <1>9, <2>1, <2>2
<1>10. CASE Save(p)
  <2>1. /\ UNCHANGED dirs /\ pc'[p] = "idle"
        /\ records[b] # Nil /\ j.record.completed = records[b].completed
    BY <1>3, <1>5, <1>10 DEF Save, Goto, AtStep
  <2>2. records'[b] = Edited(j)
    BY <1>1, <1>3, <1>10, SaveValue DEF Save
  <2>3. Edited(j).completed = j.record.completed
    <3>1. j.record \in Record
      BY <1>3, JobFields
    <3> QED
      BY <3>1 DEF Edited, Record
  <2>4. IsCompleted(records'[b]) => IsCompleted(records[b])
    BY <2>1, <2>2, <2>3 DEF IsCompleted
  <2> QED
    BY <1>4, <2>1, <2>4 DEF FetchSteps
<1>11. CASE \/ NextTag(p) \/ Metadata(p) \/ GbpJson(p) \/ Publish(p) \/ Tag(p)
            \/ IsLink(p) \/ Unlink(p) \/ Symlink(p) \/ CheckTags(p) \/ Untag(p)
            \/ IsSymlink(p) \/ RemoveLink(p) \/ Edit(p)
  <2>1. UNCHANGED <<dirs, records>>
    BY <1>11
       DEF NextTag, Metadata, GbpJson, Publish, Tag, IsLink, Unlink, Symlink,
           CheckTags, Untag, IsSymlink, RemoveLink, Edit
  <2>2. /\ AfterPull(job[p]) \notin FetchSteps /\ AfterTag(job[p]) \notin FetchSteps
        /\ Handler(job[p]) \notin FetchSteps
    BY DEF AfterPull, AfterTag, Handler, FetchSteps
  <2>3. /\ \A next : Goto(p, next) => pc'[p] = next
        /\ \A body, after : NextItem(p, body, after) => pc'[p] \in {body, after}
        /\ Raise(p) => pc'[p] = Handler(job[p])
    BY <1>5 DEF Goto, NextItem, Raise
  <2>4. ASSUME NextTag(p) \/ Metadata(p) \/ GbpJson(p) \/ Publish(p) \/ Edit(p)
        PROVE  pc'[p] \notin FetchSteps
    BY <1>5, <2>2, <2>3, <2>4 DEF NextTag, Metadata, GbpJson, Publish, Edit, FetchSteps
  <2>5. ASSUME Tag(p) \/ IsLink(p) \/ Unlink(p) \/ Symlink(p)
        PROVE  pc'[p] \notin FetchSteps
    BY <2>2, <2>3, <2>5 DEF Tag, IsLink, Unlink, Symlink, FetchSteps
  <2>6. ASSUME CheckTags(p) \/ Untag(p) \/ IsSymlink(p) \/ RemoveLink(p)
        PROVE  pc'[p] \notin FetchSteps
    <3>1. CheckTags(p) => pc'[p] \in {"idle", "untag"}
      BY <1>5, <2>3 DEF CheckTags
    <3>2. Untag(p) => pc'[p] \in {"delete", "idle", "is_symlink", "untag"}
      <4>1. SUFFICES ASSUME Untag(p)
                     PROVE  pc'[p] \in {"delete", "idle", "is_symlink", "untag"}
        OBVIOUS
      <4>2. CASE job[p].tags = {}
        BY <2>3, <4>1, <4>2 DEF Untag
      <4>3. CASE job[p].tags # {}
        <5>1. PICK tag \in job[p].tags :
                Continue(p, IF Resolves(tag) THEN "is_symlink" ELSE "untag",
                         [job[p] EXCEPT !.tag = tag, !.tags = @ \ {tag}])
          BY <4>1, <4>3 DEF Untag
        <5> QED
          BY <1>5, <5>1
      <4> QED
        BY <4>2, <4>3
    <3>3. IsSymlink(p) => pc'[p] \in {"remove link", "is_symlink", "untag"}
      BY <2>3 DEF IsSymlink
    <3>4. RemoveLink(p) => pc'[p] \in {Handler(job[p]), "is_symlink", "untag"}
      BY <2>3 DEF RemoveLink
    <3> QED
      BY <2>2, <2>6, <3>1, <3>2, <3>3, <3>4 DEF FetchSteps
  <2>7. pc'[p] \notin FetchSteps
    BY <1>11, <2>4, <2>5, <2>6
  <2> QED
    BY <1>4, <2>1, <2>7
<1>12. \/ pc[p] \in FetchSteps
       \/ Pull(p) \/ Complete(p) \/ Delete(p) \/ DeleteTree(p) \/ DeleteRmtree(p)
       \/ Save(p) \/ NextTag(p) \/ Metadata(p) \/ GbpJson(p) \/ Publish(p) \/ Tag(p)
       \/ IsLink(p) \/ Unlink(p) \/ Symlink(p) \/ CheckTags(p) \/ Untag(p)
       \/ IsSymlink(p) \/ RemoveLink(p) \/ Edit(p)
  BY DEF Step, Submit, Download, Extract, CopyPath, RemoveTree, Copy, CopyTree,
         FetchSteps
<1> QED
  BY <1>6, <1>7, <1>8, <1>9, <1>10, <1>11, <1>12

\* A step that writes the trees or the record of its build is of the only job
\* that could.
LEMMA WritesAlone ==
    ASSUME TypeOK, Known, OneJob, NEW p \in Procs, Step(p),
           NEW q \in Procs \ {p}, pc[q] \in FetchSteps
    PROVE  records'[job[q].build] = records[job[q].build]
<1>1. SUFFICES ASSUME NEW b, b = job[q].build, ~UNCHANGED <<dirs, records>>,
                      b = job[p].build
               PROVE  FALSE
  <2>1. pc[q] # "idle"
    BY DEF FetchSteps
  <2>2. job[q].build \in Builds
    BY <2>1, JobKnows
  <2> QED
    BY <2>2, ChangesOwnBuild
<1>2. pc[p] # "idle" /\ pc[q] # "idle" /\ pc[p] \in Steps /\ pc[q] \in Steps
  BY StepKeepsRequest DEF FetchSteps, TypeOK, JobsTypeOK
<1>3. /\ AtStep(pc[p], job[p], dirs[b], records[b])
      /\ AtStep(pc[q], job[q], dirs[b], records[b])
  BY <1>1, <1>2, JobKnows
<1>4. pc[p] \notin SetTagSteps \cup UntagSteps
  <2>1. \/ Submit(p) \/ CopyPath(p) \/ RemoveTree(p) \/ Copy(p) \/ CopyTree(p)
        \/ Complete(p) \/ Delete(p) \/ DeleteTree(p) \/ DeleteRmtree(p) \/ Save(p)
    BY <1>1, ChangesOwnBuild
  <2> QED
    BY <2>1
       DEF Submit, CopyPath, RemoveTree, Copy, CopyTree, Complete, Delete,
           DeleteTree, DeleteRmtree, Save, SetTagSteps, UntagSteps
<1>5. pc[q] \notin SetTagSteps \cup UntagSteps
  BY DEF FetchSteps, SetTagSteps, UntagSteps
<1>6. job[p].op \notin TagsOnly
  BY <1>2, <1>3, <1>4, TagsOnlyKnow
<1>7. job[q].op \notin TagsOnly
  BY <1>2, <1>3, <1>5, TagsOnlyKnow
<1> QED
  BY <1>1, <1>2, <1>6, <1>7 DEF OneJob

LEMMA StepStores ==
    ASSUME TypeOK, Known, OneJob, StoredInv, NEW p \in Procs, Step(p)
    PROVE  StoredInv'
<1>1. SUFFICES ASSUME NEW a, a = job[p].build PROVE StoredInv'
  OBVIOUS
<1>2. /\ IsCompleted(records'[a]) => \A c \in Content : dirs'[a][c] # "absent"
      /\ pc'[p] \in FetchSteps => ~IsCompleted(records'[a])
  BY <1>1, OwnBuildStores
<1>3. /\ pc'[p] # "idle" => job'[p].build = a
      /\ \A q \in Procs \ {p} : pc'[q] = pc[q] /\ job'[q] = job[q]
  BY <1>1, StepKeepsRequest
<1>4. \A other \in Builds \ {a} :
        dirs'[other] = dirs[other] /\ records'[other] = records[other]
  BY <1>1, ChangesOwnBuild
<1>5. ASSUME NEW b \in Builds, IsCompleted(records'[b])
      PROVE  \A c \in Content : dirs'[b][c] # "absent"
  <2>1. CASE b = a
    BY <1>2, <1>5, <2>1
  <2>2. CASE b # a
    BY <1>4, <1>5, <2>2 DEF StoredInv, Completed, StoragePulled, Exists
  <2> QED
    BY <2>1, <2>2
<1>6. ASSUME NEW q \in Procs, pc'[q] \in FetchSteps
      PROVE  ~IsCompleted(records'[job'[q].build])
  <2>1. CASE q = p
    BY <1>2, <1>3, <1>6, <2>1 DEF FetchSteps
  <2>2. CASE q # p
    <3>1. pc[q] \in FetchSteps /\ job'[q] = job[q]
      BY <1>3, <1>6, <2>2
    <3>2. records'[job[q].build] = records[job[q].build]
      BY <2>2, <3>1, WritesAlone
    <3>3. ~IsCompleted(records[job[q].build])
      BY <3>1 DEF StoredInv, Completed
    <3> QED
      BY <3>1, <3>2, <3>3
  <2> QED
    BY <2>1, <2>2
<1> QED
  BY <1>5, <1>6 DEF StoredInv, Completed, StoragePulled, Exists
\* Only a process that copies a tree makes it its own, and that ends with it.
LEMMA StepCopies ==
    ASSUME TypeOK, DamageInv, NEW p \in Procs, Step(p),
           NEW b \in Builds, NEW c \in Content, NEW q \in Procs, dirs'[b][c] = q
    PROVE  Copies(q, b, c)'
<1>1. SUFFICES ASSUME NEW a, a = job[p].build, NEW i, i = job[p].item
               PROVE  Copies(q, b, c)'
  OBVIOUS
<1>2. /\ pc[p] # "idle"
      /\ \A r \in Procs \ {p} : pc'[r] = pc[r] /\ job'[r] = job[r]
  BY StepKeepsRequest
<1>3. StorageTypeOK /\ a \in Builds /\ i \in Content
  <2>1. job[p] \in Job
    BY <1>2 DEF TypeOK, JobsTypeOK
  <2> QED
    BY <1>1, <2>1, JobFields DEF TypeOK
<1>4. \A state : SetTree(a, i, state) =>
        dirs'[b][c] = IF b = a /\ c = i THEN state ELSE dirs[b][c]
  BY <1>3, SetTreeValue
<1>5. q \notin {"absent", "partial", "whole"}
  BY StorageAssumption
<1>6. dirs[b][c] = q => Copies(q, b, c)
  BY DEF DamageInv
<1>7. CASE q # p
  <2>1. dirs[b][c] = q
    <3>1. \/ UNCHANGED dirs
          \/ \E state \in {"absent", "partial", "whole", p} : SetTree(a, i, state)
      BY <1>1
         DEF Step, Pull, Submit, Download, Extract, CopyPath, RemoveTree, Copy,
             CopyTree, NextTag, Metadata, Complete, GbpJson, Publish, Tag, IsLink,
             Unlink, Symlink, CheckTags, Untag, IsSymlink, RemoveLink, Delete,
             DeleteTree, DeleteRmtree, Edit, Save
    <3>2. ASSUME NEW state \in {"absent", "partial", "whole", p}, SetTree(a, i, state)
          PROVE  dirs[b][c] = q
      BY <1>4, <1>5, <1>7, <3>2
    <3> QED
      BY <3>1, <3>2
  <2> QED
    BY <1>2, <1>6, <1>7, <2>1 DEF Copies
<1>8. CASE q = p /\ dirs[b][c] = p
  <2>1. pc[p] = "copytree" /\ a = b /\ i = c
    BY <1>1, <1>6, <1>8 DEF Copies
  <2>2. CopyTree(p)
    BY <2>1
       DEF Step, Pull, Submit, Download, Extract, CopyPath, RemoveTree, Copy,
           NextTag, Metadata, Complete, GbpJson, Publish, Tag, IsLink,
           Unlink, Symlink, CheckTags, Untag, IsSymlink, RemoveLink, Delete,
           DeleteTree, DeleteRmtree, Edit, Save
  <2>3. SetTree(a, i, "whole") \/ SetTree(a, i, "partial")
    BY <1>1, <1>8, <2>1, <2>2 DEF CopyTree
  <2> QED
    BY <1>4, <1>5, <2>1, <2>3
<1>9. CASE q = p /\ dirs[b][c] # p
  <2>1. ASSUME NEW state \in {"absent", "partial", "whole"}
        PROVE  ~SetTree(a, i, state)
    BY <1>4, <1>5, <1>9
  <2>2. Copy(p) /\ SetTree(a, i, p)
    BY <1>1, <1>9, <2>1
       DEF Step, Pull, Submit, Download, Extract, CopyPath, RemoveTree, Copy,
           CopyTree, NextTag, Metadata, Complete, GbpJson, Publish, Tag, IsLink,
           Unlink, Symlink, CheckTags, Untag, IsSymlink, RemoveLink, Delete,
           DeleteTree, DeleteRmtree, Edit, Save
  <2>3. b = a /\ c = i
    BY <1>4, <1>9, <2>2
  <2>4. Goto(p, "copytree")
    <3>1. ~SetTree(a, i, "whole") /\ ~UNCHANGED dirs
      BY <1>9, <2>1
    <3> QED
      BY <1>1, <2>2, <3>1 DEF Copy
  <2>5. pc'[p] = "copytree" /\ SameRequest(p, i)
    BY <1>1, <1>2, <2>4, ControlSame
  <2> QED
    BY <1>1, <1>9, <2>3, <2>5 DEF Copies, SameRequest, SameJob
<1> QED
  BY <1>7, <1>8, <1>9

\* A tree of p's build that is damaged now, and was not or was p's to remove, is
\* p's to remove.
LEMMA StepClears ==
    ASSUME TypeOK, Known, NEW p \in Procs, Step(p),
           NEW b, b = job[p].build, NEW c \in Content, dirs'[b][c] = "partial",
           dirs[b][c] = "partial" => Clears(p, b, c)
    PROVE  Clears(p, b, c)'
<1>1. SUFFICES ASSUME NEW i, i = job[p].item
               PROVE  Clears(p, b, c)'
  OBVIOUS
<1>2. pc[p] # "idle"
  BY StepKeepsRequest
<1>3. /\ StorageTypeOK /\ b \in Builds /\ i \in Content
      /\ AtStep(pc[p], job[p], dirs[b], records[b])
  BY <1>1, <1>2, JobKnows
<1>4. N \in Nat /\ i \in 1..N /\ c \in 1..N
  BY <1>3, ContentBounds DEF Content
<1>5. p \notin {"absent", "partial", "whole"}
  BY StorageAssumption
<1>6. \A state : SetTree(b, i, state) =>
        dirs'[b][c] = IF c = i THEN state ELSE dirs[b][c]
  BY <1>3, SetTreeValue
<1>7. /\ \A next : Goto(p, next) =>
           pc'[p] = next /\ (next # "idle" => SameRequest(p, i))
      /\ \A body, after : NextItem(p, body, after) /\ i < N =>
           pc'[p] = body /\ (body # "idle" => SameRequest(p, i + 1))
      /\ Raise(p) =>
           /\ pc'[p] = Handler(job[p])
           /\ Handler(job[p]) # "idle" => SameRequest(p, 1)
  BY <1>1, <1>2, ControlSame
<1>8. /\ Goto(p, "delete tree") => pc'[p] = "delete tree" /\ SameRequest(p, i)
      /\ Goto(p, "delete rmtree") => pc'[p] = "delete rmtree" /\ SameRequest(p, i)
      /\ NextItem(p, "delete tree", "idle") /\ i < N =>
           pc'[p] = "delete tree" /\ SameRequest(p, i + 1)
  <2>1. "delete tree" # "idle" /\ "delete rmtree" # "idle"
    OBVIOUS
  <2> QED
    BY <1>7, <2>1
<1>9. ASSUME NEW k, SameRequest(p, k), k <= c, pc'[p] \in DeletionSteps
      PROVE  Clears(p, b, c)'
  BY <1>9 DEF Clears, SameRequest, SameJob
<1>10. Clears(p, b, c) =>
        /\ pc[p] \in {"rmtree"} \cup DeletionSteps
        /\ IF pc[p] = "rmtree" THEN i = c ELSE i <= c
  BY <1>1 DEF Clears, DeletionSteps
<1>11. CASE CopyPath(p)
  <2>1. pc[p] = "copy_path"
    BY <1>11 DEF CopyPath
  <2>2. dirs[b][c] # "partial"
    BY <1>10, <2>1 DEF DeletionSteps
  <2>3. SetTree(b, i, "partial") /\ Goto(p, "rmtree")
    BY <1>1, <1>11, <2>2 DEF CopyPath
  <2>4. c = i
    BY <1>6, <2>2, <2>3
  <2>5. pc'[p] = "rmtree" /\ SameRequest(p, i)
    BY <1>7, <2>3
  <2> QED
    BY <2>4, <2>5 DEF Clears, SameRequest, SameJob
<1>12. CASE RemoveTree(p)
  <2>1. dirs[b][c] = "partial" => i = c
    BY <1>10, <1>12 DEF RemoveTree
  <2>2. \/ SetTree(b, i, "absent")
        \/ UNCHANGED dirs /\ dirs[b][i] # "partial"
    BY <1>1, <1>12 DEF RemoveTree
  <2> QED
    BY <1>6, <2>1, <2>2
<1>13. CASE Copy(p)
  <2>1. dirs[b][c] # "partial"
    BY <1>10, <1>13 DEF Copy, DeletionSteps
  <2>2. UNCHANGED dirs \/ SetTree(b, i, "whole") \/ SetTree(b, i, p)
    BY <1>1, <1>13 DEF Copy
  <2> QED
    BY <1>5, <1>6, <2>1, <2>2
<1>14. CASE CopyTree(p)
  <2>1. pc[p] = "copytree"
    BY <1>14 DEF CopyTree
  <2>2. dirs[b][c] # "partial"
    BY <1>10, <2>1 DEF DeletionSteps
  <2>3. ~SetTree(b, i, "whole") /\ ~UNCHANGED dirs
    BY <1>6, <2>2
  <2>4. Raise(p)
    BY <1>1, <1>14, <2>3 DEF CopyTree
  <2>5. Handler(job[p]) = "delete"
    BY <1>3, <2>1 DEF AtStep, PullSteps
  <2>6. pc'[p] = "delete" /\ SameRequest(p, 1)
    BY <1>7, <2>4, <2>5
  <2>7. 1 <= c
    BY <1>4
  <2> QED
    BY <1>9, <2>6, <2>7 DEF DeletionSteps
<1>15. CASE Delete(p)
  <2>1. UNCHANGED dirs /\ Goto(p, "delete tree") /\ pc[p] = "delete"
    BY <1>15 DEF Delete
  <2>2. i <= c
    BY <1>10, <2>1
  <2>3. pc'[p] = "delete tree" /\ SameRequest(p, i)
    BY <1>8, <2>1
  <2> QED
    BY <1>9, <2>2, <2>3 DEF DeletionSteps
<1>16. CASE DeleteTree(p)
  <2>1. dirs[b][c] = "partial" => i <= c
    BY <1>10, <1>16 DEF DeleteTree
  <2>2. CASE Exists(b, i)
    <3>1. SetTree(b, i, "partial") /\ Goto(p, "delete rmtree")
      BY <1>1, <1>16, <2>2 DEF DeleteTree
    <3>2. c = i \/ dirs[b][c] = "partial"
      BY <1>6, <3>1
    <3>3. i <= c
      BY <1>4, <2>1, <3>2
    <3>4. pc'[p] = "delete rmtree" /\ SameRequest(p, i)
      BY <1>8, <3>1
    <3> QED
      BY <1>9, <3>3, <3>4 DEF DeletionSteps
  <2>3. CASE ~Exists(b, i)
    <3>1. UNCHANGED dirs /\ NextItem(p, "delete tree", "idle") /\ dirs[b][i] = "absent"
      BY <1>1, <1>16, <2>3 DEF DeleteTree, Exists
    <3>2. c # i /\ i <= c
      BY <2>1, <3>1
    <3>3. i < N /\ i + 1 <= c
      BY <1>4, <3>2
    <3>4. pc'[p] = "delete tree" /\ SameRequest(p, i + 1)
      BY <1>8, <3>1, <3>3
    <3> QED
      BY <1>9, <3>3, <3>4 DEF DeletionSteps
  <2> QED
    BY <2>2, <2>3
<1>17. CASE DeleteRmtree(p)
  <2>1. dirs[b][c] = "partial" => i <= c
    BY <1>10, <1>17 DEF DeleteRmtree
  <2>2. dirs[b][i] = "partial"
    BY <1>1, <1>3, <1>17 DEF DeleteRmtree, AtStep
  <2>3. SetTree(b, i, "absent") /\ NextItem(p, "delete tree", "idle")
    BY <1>1, <1>17, <2>2 DEF DeleteRmtree
  <2>4. c # i /\ dirs[b][c] = "partial"
    <3>1. dirs'[b][c] = IF c = i THEN "absent" ELSE dirs[b][c]
      BY <1>6, <2>3
    <3> QED
      BY <3>1
  <2>5. i < N /\ i + 1 <= c
    BY <1>4, <2>1, <2>4
  <2>6. pc'[p] = "delete tree" /\ SameRequest(p, i + 1)
    BY <1>8, <2>3, <2>5
  <2> QED
    BY <1>9, <2>5, <2>6 DEF DeletionSteps
<1>18. CASE ~\/ CopyPath(p) \/ RemoveTree(p) \/ Copy(p) \/ CopyTree(p)
             \/ Delete(p) \/ DeleteTree(p) \/ DeleteRmtree(p)
  <2>1. UNCHANGED dirs
    BY <1>18
       DEF Step, Pull, Submit, Download, Extract, NextTag, Metadata, Complete,
           GbpJson, Publish, Tag, IsLink, Unlink, Symlink, CheckTags, Untag,
           IsSymlink, RemoveLink, Edit, Save
  <2>2. pc[p] \notin {"rmtree"} \cup DeletionSteps
    BY <1>18
       DEF Step, Pull, Submit, Download, Extract, NextTag, Metadata, Complete,
           GbpJson, Publish, Tag, IsLink, Unlink, Symlink, CheckTags, Untag,
           IsSymlink, RemoveLink, Edit, Save, DeletionSteps
  <2> QED
    BY <1>10, <2>1, <2>2
<1> QED
  BY <1>11, <1>12, <1>13, <1>14, <1>15, <1>16, <1>17, <1>18

LEMMA StepKeepsDamage ==
    ASSUME TypeOK, Known, DamageInv, NEW p \in Procs, JobStep(p)
    PROVE  DamageInv'
<1>1. SUFFICES ASSUME NEW a, a = job[p].build PROVE DamageInv'
  OBVIOUS
<1>2. Step(p) /\ torn' = {d \in torn : Damaged(dirs'[d])}
  BY DEF JobStep
<1>3. ASSUME NEW b \in Builds, NEW c \in Content, NEW q \in Procs, dirs'[b][c] = q
      PROVE  Copies(q, b, c)'
  BY <1>2, <1>3, StepCopies
<1>4. ASSUME NEW b \in Builds, NEW c \in Content, dirs'[b][c] = "partial"
      PROVE  b \in torn' \/ \E q \in Procs : Clears(q, b, c)'
  <2>1. Damaged(dirs'[b])
    BY <1>4 DEF Damaged
  <2>2. SUFFICES ASSUME b \notin torn
                 PROVE  \E q \in Procs : Clears(q, b, c)'
    BY <1>2, <2>1
  <2>3. ASSUME NEW q \in Procs \ {p}, Clears(q, b, c) PROVE Clears(q, b, c)'
    BY <1>2, <2>3, StepKeepsRequest DEF Clears
  <2>4. dirs[b][c] = "partial" => \E q \in Procs : Clears(q, b, c)
    BY <2>2 DEF DamageInv
  <2>5. CASE b # a
    <3>1. dirs[b][c] = "partial" /\ ~Clears(p, b, c)
      BY <1>1, <1>2, <1>4, <2>5, ChangesOwnBuild DEF Clears
    <3> QED
      BY <2>3, <2>4, <3>1
  <2>6. CASE b = a /\ \E q \in Procs \ {p} : Clears(q, b, c)
    BY <2>3, <2>6
  <2>7. CASE b = a /\ ~\E q \in Procs \ {p} : Clears(q, b, c)
    <3>1. dirs[b][c] = "partial" => Clears(p, b, c)
      BY <2>4, <2>7
    <3> QED
      BY <1>1, <1>2, <1>4, <2>7, <3>1, StepClears
  <2> QED
    BY <2>5, <2>6, <2>7
<1> QED
  BY <1>3, <1>4 DEF DamageInv

\* Of a process that dies, the trees that it was at are those of its build.
LEMMA CrashKeepsDamage ==
    ASSUME TypeOK, StoredInv, DamageInv, NEW p \in Procs, JobCrash(p)
    PROVE  StoredInv' /\ DamageInv'
<1>1. SUFFICES ASSUME NEW a, a = job[p].build PROVE StoredInv' /\ DamageInv'
  OBVIOUS
<1>2. /\ pc[p] # "idle" /\ UNCHANGED records
      /\ AbandonCopies(p) /\ Goto(p, "idle")
      /\ torn' = {d \in torn \cup {a} : Damaged(dirs'[d])}
  BY <1>1 DEF JobCrash, Crash
<1>3. /\ pc'[p] = "idle"
      /\ \A r \in Procs \ {p} : pc'[r] = pc[r] /\ job'[r] = job[r]
  BY <1>2, ControlValue DEF TypeOK
<1>4. ASSUME NEW b \in Builds, NEW c \in Content
      PROVE  dirs'[b][c] = IF dirs[b][c] = p THEN "partial" ELSE dirs[b][c]
  BY <1>2, <1>4 DEF AbandonCopies
<1>5. p \notin {"absent", "partial", "whole"}
  BY StorageAssumption
<1>6. StoredInv'
  BY <1>2, <1>3, <1>4, <1>5
     DEF StoredInv, Completed, StoragePulled, Exists, FetchSteps
<1>7. ASSUME NEW b \in Builds, NEW c \in Content, NEW q \in Procs, dirs'[b][c] = q
      PROVE  Copies(q, b, c)'
  <2>1. dirs[b][c] = q /\ q # p
    <3>1. q # "partial"
      BY StorageAssumption
    <3> QED
      BY <1>4, <1>7, <3>1
  <2> QED
    BY <1>3, <2>1 DEF DamageInv, Copies
<1>8. ASSUME NEW b \in Builds, NEW c \in Content, dirs'[b][c] = "partial"
      PROVE  b \in torn' \/ \E q \in Procs : Clears(q, b, c)'
  <2>1. b \in torn \cup {a} => b \in torn'
    BY <1>2, <1>8 DEF Damaged
  <2>2. CASE dirs[b][c] = p
    BY <1>1, <2>1, <2>2 DEF DamageInv, Copies
  <2>3. CASE dirs[b][c] # p
    <3>1. b \in torn \/ \E q \in Procs : Clears(q, b, c)
      BY <1>4, <1>8, <2>3 DEF DamageInv
    <3>2. ASSUME NEW q \in Procs, Clears(q, b, c)
          PROVE  b = a \/ Clears(q, b, c)'
      BY <1>1, <1>3, <3>2 DEF Clears
    <3> QED
      BY <2>1, <3>1, <3>2
  <2> QED
    BY <2>2, <2>3
<1> QED
  BY <1>6, <1>7, <1>8 DEF DamageInv

LEMMA TornInvNext ==
    ASSUME TypeOK, Known, OneJob, TornInv, during \in 0..2, [CheckNext]_allVars
    PROVE  TornInv'
<1>1. ASSUME UNCHANGED <<vars, torn>>, StoredInv, DamageInv
      PROVE  StoredInv' /\ DamageInv'
  BY <1>1 DEF vars, StoredInv, DamageInv, Completed, StoragePulled, Exists, Clears, Copies
<1>2. CASE UNCHANGED allVars
  <2>1. UNCHANGED <<vars, torn>> /\ UNCHANGED <<raced, check, during, records>>
    BY <1>2 DEF allVars, checkVars, vars
  <2>2. ListsHold => ListsHold'
    BY <2>1 DEF ListsHold, Completed
  <2> QED
    BY <1>1, <2>1, <2>2 DEF TornInv
<1>3. CASE BeginCheck \/ CheckStep
  <2>1. /\ raced' = raced /\ (CheckStep => during' = during /\ check # Nil)
        /\ BeginCheck => ~raced
    <3>1. \A next : /\ Look(next) => raced' = raced /\ during' = during
                    /\ GoOn(next) => raced' = raced /\ during' = during
      BY DEF Look, GoOn
    <3>2. CheckStep => raced' = raced /\ during' = during /\ check # Nil
      BY <3>1
         DEF CheckStep, ListRecords, NextRecord, ExistsTest, Mkdir, ListContent,
             Orphan, ListTags, Target, DirtyTemp, ListJsonRecords, CorruptGbpJson,
             Report
    <3>3. BeginCheck => raced' = raced /\ ~raced
      BY DEF BeginCheck, MayBeginCheck
    <3> QED
      BY <1>3, <3>2, <3>3
  <2>2. raced' => during' > 0
    BY <1>3, <2>1 DEF TornInv
  <2>3. ASSUME ~raced PROVE ListsHold' /\ StoredInv' /\ DamageInv'
    <3>1. ListsHold /\ StoredInv /\ DamageInv
      BY <2>3 DEF TornInv
    <3>2. \A b \in Builds : Completed(b) => StoragePulled(b)
      BY <3>1 DEF StoredInv
    <3>3. UNCHANGED <<vars, torn>>
      BY <1>3, <3>1, <3>2, CheckIsReader
    <3>4. ListsHold'
      BY <1>3, <3>1, <3>2, CheckKeepsLists
    <3> QED
      BY <1>1, <3>1, <3>3, <3>4
  <2> QED
    BY <2>1, <2>2, <2>3 DEF TornInv
<1>4. CASE Jobs
  <2>1. PICK p \in Procs : \/ Start(p) /\ UNCHANGED torn
                           \/ JobStep(p)
                           \/ JobCrash(p)
    BY <1>4 DEF Jobs
  <2>2. /\ check' = check
        /\ during' = IF check = Nil THEN 0 ELSE Worse(during, Activity')
        /\ raced' = (raced \/ (check # Nil
                               /\ \E b \in Builds : Completed(b) /\ ~Completed(b)'))
    BY <1>4 DEF Jobs
  <2>3. ASSUME check # Nil, NEW b \in Builds, Completed(b), ~Completed(b)'
        PROVE  Activity' = 2
    <3>1. JobStep(p)
      <4>1. Start(p) \/ JobCrash(p) => UNCHANGED records
        BY StartFrame DEF JobCrash, Crash
      <4> QED
        BY <2>1, <2>3, <4>1 DEF Completed
    <3>2. Step(p)
      BY <3>1 DEF JobStep
    <3>3. b = job[p].build
      BY <2>3, <3>2, ChangesOwnBuild DEF Completed
    <3>4. pc'[p] = "delete tree"
      BY <2>3, <3>2, <3>3, StepGoes DEF GoesOn, Completed
    <3> QED
      BY <3>4 DEF Activity, Changes
  <2>4. raced' /\ check' # Nil => during' > 0
    <3>1. SUFFICES ASSUME raced', check # Nil PROVE Worse(during, Activity') > 0
      BY <2>2
    <3>2. Activity' \in 0..2
      BY DEF Activity
    <3>3. CASE raced
      <4>1. during > 0
        BY <3>1, <3>3 DEF TornInv
      <4> QED
        BY <3>2, <4>1 DEF Worse
    <3>4. CASE ~raced
      <4>1. Activity' = 2
        BY <2>2, <2>3, <3>1, <3>4
      <4> QED
        BY <4>1 DEF Worse
    <3> QED
      BY <3>3, <3>4
  <2>5. ASSUME ~raced' PROVE ListsHold' /\ StoredInv' /\ DamageInv'
    <3>1. /\ ListsHold /\ StoredInv /\ DamageInv
          /\ check # Nil => \A b \in Builds : Completed(b) => Completed(b)'
      BY <2>2, <2>5 DEF TornInv
    <3>2. ListsHold'
      BY <2>2, <3>1 DEF ListsHold, Check
    <3>3. CASE Start(p) /\ UNCHANGED torn
      <4>1. /\ UNCHANGED <<dirs, links, records, crashes>>
            /\ pc[p] = "idle"
            /\ pc'[p] \in {"pull", "delete", "publish", "tag", "untag",
                           "check tags", "edit"}
            /\ \A q \in Procs \ {p} : pc'[q] = pc[q] /\ job'[q] = job[q]
        BY <3>3, StartFrame, StartsAlone
      <4>2. StoredInv'
        <5>1. pc'[p] \notin FetchSteps
          BY <4>1 DEF FetchSteps
        <5>2. \A b \in Builds : Completed(b)' => StoragePulled(b)'
          BY <3>1, <4>1 DEF StoredInv, Completed, StoragePulled, Exists
        <5>3. ASSUME NEW q \in Procs, pc'[q] \in FetchSteps
              PROVE  ~Completed(job[q].build)' /\ job'[q] = job[q]
          <6>1. q # p
            BY <5>1, <5>3
          <6>2. pc'[q] = pc[q] /\ job'[q] = job[q]
            BY <4>1, <6>1
          <6>3. ~Completed(job[q].build)
            BY <3>1, <5>3, <6>2 DEF StoredInv
          <6> QED
            BY <4>1, <6>2, <6>3 DEF Completed
        <5> QED
          BY <5>2, <5>3 DEF StoredInv, Completed
      <4>3. \A q \in Procs : \A b, c : /\ Clears(q, b, c) => Clears(q, b, c)'
                                       /\ Copies(q, b, c) => Copies(q, b, c)'
        BY <4>1 DEF Clears, Copies, DeletionSteps
      <4>4. DamageInv'
        BY <3>1, <3>3, <4>1, <4>3 DEF DamageInv
      <4> QED
        BY <3>2, <4>2, <4>4
    <3>4. CASE JobStep(p)
      <4>1. Step(p)
        BY <3>4 DEF JobStep
      <4> QED
        BY <3>1, <3>2, <3>4, <4>1, StepStores, StepKeepsDamage
    <3>5. CASE JobCrash(p)
      BY <3>1, <3>2, <3>5, CrashKeepsDamage
    <3> QED
      BY <2>1, <3>3, <3>4, <3>5
  <2> QED
    BY <2>4, <2>5 DEF TornInv
<1> QED
  BY <1>2, <1>3, <1>4 DEF CheckNext

(***************************************************************************)
(* The invariant                                                           *)
(***************************************************************************)

\* A check disturbs no job: it creates a directory at most.
LEMMA CheckDisturbsNobody ==
    ASSUME TypeOK, Known, JsonFits, ValidJson, check # Nil => check \in Check,
           BeginCheck \/ CheckStep
    PROVE  /\ TypeOK' /\ Known' /\ JsonFits' /\ ValidJson'
           /\ UNCHANGED <<pc, job, crashes>>
<1>1. BeginCheck => UNCHANGED <<dirs, links, records, pc, job, crashes, json>>
  BY DEF BeginCheck, vars
<1>2. \A next : Look(next) => UNCHANGED <<dirs, links, records, pc, job, crashes, json>>
  BY DEF Look, GoOn
<1>3. \/ UNCHANGED <<dirs, links, records, pc, job, crashes, json>>
      \/ /\ check \in Check /\ ~Exists(check.build, Aux)
         /\ SetTree(check.build, Aux, "partial")
         /\ UNCHANGED <<links, records, pc, job, crashes, json>>
  <2>1. ASSUME Mkdir
        PROVE  \/ \E next : Look(next)
               \/ /\ check \in Check /\ ~Exists(check.build, Aux)
                  /\ SetTree(check.build, Aux, "partial")
                  /\ UNCHANGED <<links, records, pc, job, crashes, json>>
    BY <2>1 DEF Mkdir, GoOn
  <2>2. CheckStep /\ ~Mkdir => \E next : Look(next)
    BY DEF CheckStep, ListRecords, NextRecord, ExistsTest, ListContent, Orphan,
           ListTags, Target, DirtyTemp, ListJsonRecords, CorruptGbpJson, Report
  <2> QED
    BY <1>1, <1>2, <2>1, <2>2
<1>4. CASE UNCHANGED <<dirs, links, records, pc, job, crashes, json>>
  <2>1. TypeOK'
    BY <1>4 DEF TypeOK, StorageTypeOK, RecordsTypeOK, JobsTypeOK
  <2>2. Known'
    BY <1>4 DEF Known
  <2>3. JsonFits'
    BY <1>4 DEF JsonFits, Exists
  <2>4. ValidJson'
    BY <1>4 DEF ValidJson, Completed, RecordExists, WillRemoveJson, CleansUp
  <2> QED
    BY <1>4, <2>1, <2>2, <2>3, <2>4
<1>5. CASE /\ check \in Check /\ ~Exists(check.build, Aux)
           /\ SetTree(check.build, Aux, "partial")
           /\ UNCHANGED <<links, records, pc, job, crashes, json>>
  <2>1. SUFFICES ASSUME NEW a, a = check.build
                 PROVE  TypeOK' /\ Known' /\ JsonFits' /\ ValidJson'
    BY <1>5
  <2>2. SetTree(a, Aux, "partial") /\ dirs[a][Aux] = "absent" /\ Aux \in Content
    BY <1>5, <2>1, ChecksAssumption DEF Exists
  <2>3. StorageTypeOK
    BY DEF TypeOK
  <2>4. /\ StorageTypeOK'
        /\ \A b \in Builds, c \in Content :
             /\ dirs[b][c] # "absent" => dirs'[b][c] # "absent"
             /\ dirs[b][c] = "partial" => dirs'[b][c] = "partial"
    <3>1. CASE a \in Builds
      <4>1. StorageTypeOK'
        BY <1>5, <2>2, <2>3, <3>1, StorageStepType DEF TreeStates
      <4>2. \A b \in Builds, c \in Content :
              dirs'[b][c] = IF b = a /\ c = Aux THEN "partial" ELSE dirs[b][c]
        BY <2>2, <2>3, <3>1, SetTreeValue
      <4> QED
        BY <2>2, <4>1, <4>2
    <3>2. CASE a \notin Builds
      <4>1. dirs' = dirs
        BY <2>2, <2>3, <3>2 DEF SetTree, StorageTypeOK
      <4> QED
        BY <1>5, <2>3, <4>1 DEF StorageTypeOK
    <3> QED
      BY <3>1, <3>2
  <2>5. TypeOK'
    BY <1>5, <2>4 DEF TypeOK, RecordsTypeOK, JobsTypeOK
  <2>6. ASSUME NEW q \in Procs, pc[q] # "idle"
        PROVE  AtStep(pc[q], job[q], dirs'[job[q].build], records[job[q].build])
    <3>1. /\ job[q].build \in Builds /\ job[q].item \in Content
          /\ AtStep(pc[q], job[q], dirs[job[q].build], records[job[q].build])
      BY <2>6, JobKnows
    <3>2. SUFFICES ASSUME NEW j, j = job[q], NEW b, b = job[q].build
                   PROVE  AtStep(pc[q], j, dirs'[b], records[b])
      OBVIOUS
    <3> QED
      BY <2>4, <3>1, <3>2, TreesGrow
  <2>7. Known'
    BY <1>5, <2>6 DEF Known
  <2>8. JsonFits'
    BY <1>5, <2>4, ChecksAssumption DEF JsonFits, Exists
  <2>9. ValidJson'
    BY <1>5 DEF ValidJson, Completed, RecordExists, WillRemoveJson, CleansUp
  <2> QED
    BY <2>5, <2>7, <2>8, <2>9
<1> QED
  BY <1>3, <1>4, <1>5

\* What jobs do keeps all that is known of them and of gbp.json.
LEMMA JobsKeepKnown ==
    ASSUME TypeOK, Known, JsonFits, ValidJson, OneJob, crashes' <= 1, Jobs
    PROVE  TypeOK' /\ Known' /\ JsonFits' /\ ValidJson'
<1>1. PICK p \in Procs : \/ Start(p) /\ UNCHANGED json
                         \/ JobStep(p)
                         \/ JobCrash(p)
  BY DEF Jobs
<1>2. Start(p) \/ Step(p) \/ Crash(p)
  BY <1>1 DEF JobStep, JobCrash
<1>3. TypeOK'
  BY <1>2, NextType DEF Next
<1>4. CASE Start(p) /\ UNCHANGED json
  BY <1>3, <1>4, StartKnows, StartKeepsValidJson
<1>5. CASE JobStep(p)
  <2>1. Step(p)
    BY <1>5 DEF JobStep
  <2> QED
    BY <1>3, <1>5, <2>1, StepKnows, StepWritesJson, StepKeepsValidJson
<1>6. CASE JobCrash(p)
  <2>1. Crash(p)
    BY <1>6 DEF JobCrash
  <2> QED
    BY <1>3, <1>6, <2>1, CrashKnows, CrashKeepsValidJson
<1> QED
  BY <1>1, <1>4, <1>5, <1>6

\* A check whose beginning and steps no job has interrupted has seen everything
\* it has passed.
LEMMA StaysUndisturbed ==
    ASSUME NoticedInv, [CheckNext]_allVars, check' # Nil, during' = 0
    PROVE  Undisturbed'
<1>1. ASSUME BeginCheck PROVE Undisturbed'
  <2>1. during' = Activity
    BY <1>1 DEF BeginCheck
  <2>2. \A p \in Procs : pc'[p] = "idle"
    BY <1>1, <2>1 DEF BeginCheck, Activity, vars
  <2>3. check'.step = "records"
    <3>1. \A x : [EmptyCheck EXCEPT !.excuse = x].step = "records"
      BY DEF EmptyCheck
    <3> QED
      BY <1>1, <3>1 DEF BeginCheck
  <2>4. Seen(check)'
    BY <2>3 DEF Seen
  <2> QED
    BY <2>2, <2>3, <2>4 DEF Undisturbed
<1>2. ASSUME CheckStep PROVE Undisturbed'
  <2>1. check # Nil
    BY <1>2 DEF CheckStep, ListRecords, NextRecord, ExistsTest, Mkdir,
           ListContent, Orphan, ListTags, Target, DirtyTemp, ListJsonRecords,
           CorruptGbpJson, Report
  <2>2. \A next : Look(next) \/ GoOn(next) => check' = next /\ during' = during
    BY DEF Look, GoOn
  <2>3. during = 0
    BY <1>2, <2>2
       DEF CheckStep, ListRecords, NextRecord, ExistsTest, Mkdir, ListContent,
           Orphan, ListTags, Target, DirtyTemp, ListJsonRecords, CorruptGbpJson,
           Report
  <2>4. TypeOK /\ Known /\ JsonFits /\ ValidJson /\ check \in Check /\ Undisturbed
    BY <2>1, <2>3 DEF NoticedInv
  <2>5. \A p \in Procs : pc'[p] = "idle"
    BY <1>2, <2>4, CheckDisturbsNobody DEF Undisturbed
  <2>6. /\ check.errors => check'.errors
        /\ check.warnings => check'.warnings
        /\ check'.step = "mkdir" => check'.warnings
    BY <1>2, <2>4, ChecksRemember
  <2>7. check'.errors \/ check'.warnings \/ Seen(check)'
    <3>1. SUFFICES ASSUME ~check.errors, ~check.warnings
                   PROVE  check'.errors \/ check'.warnings \/ Seen(check)'
      BY <2>6
    <3>2. Seen(check) /\ ~Mkdir
      BY <2>4, <3>1 DEF Undisturbed, Mkdir
    <3>3. ~Report
      BY <2>2 DEF Report
    <3>4. \/ ListRecords \/ NextRecord \/ ExistsTest \/ ListContent \/ Orphan
          \/ ListTags \/ Target \/ DirtyTemp \/ ListJsonRecords \/ CorruptGbpJson
      BY <1>2, <3>2, <3>3 DEF CheckStep
    <3>5. \A p \in Procs : pc[p] = "idle"
      BY <2>4 DEF Undisturbed
    <3> QED
      BY <2>4, <3>1, <3>2, <3>4, <3>5, RecordsSeen, OrphansSeen, NothingElseSeen,
         GbpJsonSeen
  <2> QED
    BY <2>5, <2>6, <2>7 DEF Undisturbed
<1>3. ~Jobs \/ UNCHANGED allVars
  <2>1. SUFFICES ASSUME Jobs PROVE FALSE
    OBVIOUS
  <2>2. check' = check /\ during' = Worse(during, Activity')
    BY <2>1 DEF Jobs
  <2>3. during \in 0..2 /\ Activity' \in 0..2
    BY DEF NoticedInv, Activity
  <2>4. during = 0 /\ Activity' = 0
    BY <2>2, <2>3 DEF Worse
  <2>5. \A p \in Procs : pc[p] = "idle"
    BY <2>2, <2>4 DEF NoticedInv, Undisturbed
  <2>6. \A p \in Procs : pc'[p] = "idle"
    BY <2>4 DEF Activity
  <2>7. PICK p \in Procs : Start(p) \/ JobStep(p) \/ JobCrash(p)
    BY <2>1 DEF Jobs
  <2>8. TypeOK
    BY DEF NoticedInv
  <2>9. ~JobStep(p)
    BY <2>5, <2>8, StepKeepsRequest DEF JobStep
  <2>10. ~JobCrash(p)
    BY <2>5 DEF JobCrash, Crash
  <2>11. pc'[p] # "idle"
    BY <2>7, <2>8, <2>9, <2>10, StartsAlone
  <2> QED
    BY <2>6, <2>11
<1>4. ASSUME UNCHANGED allVars PROVE Undisturbed'
  <2>1. UNCHANGED <<dirs, links, records, pc, json, check, during>>
    BY <1>4 DEF allVars, vars, checkVars
  <2>2. Undisturbed
    BY <2>1 DEF NoticedInv
  <2>3. Seen(check) => Seen(check)'
    BY <2>1 DEF Seen, Exists, RecordExists, StoragePulled, Dangles, Clean
  <2> QED
    BY <2>1, <2>2, <2>3 DEF Undisturbed
<1> QED
  BY <1>1, <1>2, <1>3, <1>4 DEF CheckNext

LEMMA NoticedInvNext ==
    ASSUME NoticedInv, OneJob, crashes' <= 1, [CheckNext]_allVars
    PROVE  NoticedInv'
<1>1. TypeOK /\ Known /\ JsonFits /\ ValidJson /\ (check # Nil => check \in Check)
  BY DEF NoticedInv
<1>2. TypeOK' /\ Known' /\ JsonFits' /\ ValidJson'
  <2>1. CASE Jobs
    BY <1>1, <2>1, JobsKeepKnown
  <2>2. CASE BeginCheck \/ CheckStep
    BY <1>1, <2>2, CheckDisturbsNobody
  <2>3. CASE UNCHANGED allVars
    <3>1. UNCHANGED <<dirs, links, records, pc, job, crashes, json>>
      BY <2>3 DEF allVars, vars, checkVars
    <3>2. TypeOK' /\ Known'
      BY <1>1, <3>1 DEF TypeOK, StorageTypeOK, RecordsTypeOK, JobsTypeOK, Known
    <3>3. JsonFits' /\ ValidJson'
      BY <1>1, <3>1 DEF JsonFits, ValidJson, Exists, Completed, RecordExists,
                        WillRemoveJson, CleansUp
    <3> QED
      BY <3>2, <3>3
  <2> QED
    BY <2>1, <2>2, <2>3 DEF CheckNext
<1>3. during' \in 0..2
  BY DuringType DEF NoticedInv
<1>4. check' # Nil => check' \in Check
  <2>1. Jobs \/ UNCHANGED allVars => check' = check
    BY DEF Jobs, allVars, checkVars
  <2>2. ASSUME BeginCheck PROVE check' \in Check
    <3>1. \A x \in BOOLEAN : [EmptyCheck EXCEPT !.excuse = x] \in Check
      BY ContentBounds DEF EmptyCheck, Check, CheckSteps
    <3>2. [EmptyCheck EXCEPT !.excuse = \E t \in Tags, c \in Content : Dangles(t, c)]
            \in Check
      BY <3>1
    <3> QED
      BY <2>2, <3>2 DEF BeginCheck
  <2>3. CheckStep /\ check' # Nil => check' \in Check
    BY <1>1, CheckStepType
  <2> QED
    BY <1>1, <2>1, <2>2, <2>3 DEF CheckNext
<1>5. check' # Nil /\ during' = 0 => Undisturbed'
  BY StaysUndisturbed
<1>6. TornInv'
  BY TornInvNext DEF NoticedInv
<1> QED
  BY <1>2, <1>3, <1>4, <1>5, <1>6 DEF NoticedInv

LEMMA NoticedInit == CheckInit => NoticedInv /\ AsUsed /\ crashes = 0
<1> SUFFICES ASSUME CheckInit PROVE NoticedInv /\ AsUsed /\ crashes = 0
  OBVIOUS
<1>1. Init /\ TypeOK
  BY InitType DEF CheckInit
<1>2. Known /\ AsUsed /\ crashes = 0
  BY <1>1 DEF Init, Known, AsUsed
<1>3. JsonFits /\ ValidJson
  BY DEF CheckInit, JsonFits, ValidJson
<1>4. TornInv
  <2>1. StoredInv
    BY <1>1 DEF Init, RecordsInit, StoredInv, Completed, IsCompleted, FetchSteps
  <2>2. DamageInv
    <3>1. \A b \in Builds, c \in Content : dirs[b][c] = "absent"
      BY <1>1 DEF Init, StorageInit
    <3> QED
      BY <3>1, StorageAssumption DEF DamageInv
  <2> QED
    BY <2>1, <2>2 DEF CheckInit, TornInv, ListsHold
<1> QED
  BY <1>1, <1>2, <1>3, <1>4 DEF CheckInit, NoticedInv

\* What a check has seen when it reports is all there is to see.
LEMMA NoticedIsSettled ==
    ASSUME NoticedInv
    PROVE  CrashesAreNoticed
<1>1. SUFFICES ASSUME Reporting, during = 0, ~check.errors, ~check.warnings
               PROVE  LooksSettled
  BY DEF CrashesAreNoticed
<1>2. Undisturbed /\ Seen(check) /\ check.step = "report"
  BY <1>1 DEF NoticedInv, Reporting, Undisturbed
<1>3. /\ \A b \in Builds : RecordExists(b) => StoragePulled(b) /\ json[b] = "valid"
      /\ \A c \in Content : Clean(c)
  BY <1>2 DEF Seen
<1>4. ASSUME NEW b \in Builds, RecordExists(b) PROVE Completed(b)
  BY <1>2, <1>3, <1>4
     DEF NoticedInv, ValidJson, Undisturbed, WillRemoveJson, CleansUp, Removing
<1>5. ASSUME NEW b \in Builds, ~RecordExists(b) PROVE Gone(dirs[b])
  BY <1>3, <1>5 DEF Clean, Exists, Gone
<1>6. ASSUME NEW b \in Builds, StoragePulled(b), b \notin torn
      PROVE  Whole(dirs[b])
  <2>1. DamageInv
    BY <1>1 DEF NoticedInv, TornInv, Reporting
  <2>2. SUFFICES ASSUME NEW c \in Content PROVE dirs[b][c] = "whole"
    BY DEF Whole
  <2>3. dirs[b][c] \in TreeStates /\ dirs[b][c] # "absent"
    BY <1>6 DEF NoticedInv, TypeOK, StorageTypeOK, StoragePulled, Exists
  <2>4. \A p \in Procs : ~Clears(p, b, c) /\ ~Copies(p, b, c)
    BY <1>2 DEF Undisturbed, Clears, Copies, DeletionSteps
  <2> QED
    BY <1>6, <2>1, <2>3, <2>4 DEF DamageInv, TreeStates
<1>7. \A t \in Tags, c \in Content : ~Dangles(t, c)
  BY <1>3 DEF Clean
<1> QED
  BY <1>3, <1>4, <1>5, <1>6, <1>7 DEF LooksSettled

\* As long as one process at most has died, and of two jobs for the same build
\* one only tags it, a gbp.json is valid of completed builds only, unless the
\* job is at work that will remove it or a deletion of the build was cut short,
\* and a check that no job interrupts has seen everything it has passed.  A tree
\* is damaged only while a job that is at work will remove it, or by a process
\* that died.
THEOREM NoticedInvariant == CheckSpec /\ []OneJob => [](crashes <= 1 => NoticedInv)
<1> DEFINE I == crashes \in Nat /\ (crashes <= 1 => NoticedInv)
<1>1. CheckInit => I
  BY NoticedInit
<1>2. I /\ OneJob /\ [CheckNext]_allVars => I'
  <2>1. SUFFICES ASSUME I, OneJob, [CheckNext]_allVars PROVE I'
    OBVIOUS
  <2>2. crashes' = crashes \/ crashes' = crashes + 1
    BY <2>1, CheckCounts
  <2>3. crashes' \in Nat /\ (crashes' <= 1 => crashes <= 1)
    BY <2>1, <2>2
  <2> QED
    BY <2>1, <2>3, NoticedInvNext
<1> QED
  BY <1>1, <1>2, PTL DEF CheckSpec, allVars

\* So whatever the one process that has died was doing, and at whatever step of
\* it, "gbp check" says something unless each build is completed, with all its
\* trees and a valid gbp.json, or is not there at all, and no tag dangles.  The
\* trees of a build are whole, but for a build of which that process damaged a
\* tree that has not been removed since: the check does not look into trees.
THEOREM OneCrashIsNoticed ==
    CheckSpec /\ []OneJob => [](crashes <= 1 => CrashesAreNoticed)
<1>1. NoticedInv => CrashesAreNoticed
  BY NoticedIsSettled
<1> QED
  BY <1>1, NoticedInvariant, PTL

\* It is so with one task worker for each build, next to web processes that only
\* set and remove tags: the deployment that the model checker looks at.
THEOREM StoresApartCrashIsNoticed ==
    StoresApart /\ MaxCrashes <= 1 => (CheckSpec => []CrashesAreNoticed)
<1> SUFFICES ASSUME StoresApart, MaxCrashes <= 1
             PROVE  CheckSpec => []CrashesAreNoticed
  OBVIOUS
<1>1. CheckInit => NoticedInv /\ AsUsed
  BY NoticedInit
<1>2. ASSUME AsUsed PROVE OneJob
  <2>1. SUFFICES ASSUME NEW p \in Procs, NEW q \in Procs, p # q,
                        pc[p] # "idle", pc[q] # "idle", job[p].build = job[q].build,
                        job[p].op \notin TagsOnly, job[q].op \notin TagsOnly
                 PROVE  FALSE
    BY DEF OneJob
  <2>2. /\ job[p].op \in Ops[p] /\ job[p].build \in BuildsUsed[p]
        /\ job[q].op \in Ops[q] /\ job[q].build \in BuildsUsed[q]
    BY <1>2, <2>1 DEF AsUsed
  <2> QED
    BY <2>1, <2>2 DEF StoresApart, TagsOnly
<1>3. ASSUME NoticedInv, AsUsed, [CheckNext]_allVars
      PROVE  NoticedInv' /\ AsUsed'
  <2>1. TypeOK /\ Known /\ JsonFits /\ ValidJson /\ (check # Nil => check \in Check)
    BY <1>3 DEF NoticedInv
  <2>2. crashes' <= 1
    BY <1>3, <2>1, CheckCounts, PublisherAssumption DEF TypeOK
  <2>3. CASE Jobs
    <3>1. Next
      BY <2>3 DEF Jobs, JobStep, JobCrash, Next
    <3> QED
      BY <1>2, <1>3, <2>1, <2>2, <3>1, NoticedInvNext, AsUsedNext
  <2>4. CASE BeginCheck \/ CheckStep \/ UNCHANGED allVars
    <3>1. UNCHANGED <<pc, job>>
      BY <2>1, <2>4, CheckDisturbsNobody DEF allVars, vars
    <3>2. AsUsed'
      BY <1>3, <3>1 DEF AsUsed
    <3> QED
      BY <1>2, <1>3, <2>2, <3>2, NoticedInvNext
  <2> QED
    BY <1>3, <2>3, <2>4 DEF CheckNext
<1>4. NoticedInv => CrashesAreNoticed
  BY NoticedIsSettled
<1> QED
  BY <1>1, <1>3, <1>4, PTL DEF CheckSpec, allVars
=============================================================================
