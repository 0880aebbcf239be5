-------------------------- MODULE StatisticsProofs --------------------------
(***************************************************************************)
(* Proofs of what the statistics in the cache show once everything has     *)
(* come to rest: with one task worker, the builds as they are.             *)
(***************************************************************************)
EXTENDS Statistics, OrderingProofs

(***************************************************************************)
(* What is shown does not depend on keep flags                             *)
(***************************************************************************)
LEMMA GroupsAre ==
    /\ Len(Groups) = 4
    /\ Groups[1] = {"machines"}
    /\ Groups[2] = {"machine_info", "package_counts", "recent_packages"}
    /\ Groups[3] = {"build_packages", "latest_published"}
    /\ Groups[4] = {"latest_build"}
BY DEF Groups

LEMMA PiecesAre ==
    /\ Pieces = {"machines", "machine_info", "package_counts", "recent_packages",
                 "build_packages", "latest_published", "latest_build"}
    /\ \A i \in 1..4 : Groups[i] \subseteq Pieces
<1>1. Pieces = Groups[1] \cup Groups[2] \cup Groups[3] \cup Groups[4]
  BY DEF Pieces, ToSet, Groups
<1> QED
  BY <1>1, GroupsAre

\* The queries, except for the records that they return.
LEMMA SameQueries ==
    ASSUME UNCHANGED <<stage, files, links>>
    PROVE  /\ \A m : RowsOf(m)' = RowsOf(m) /\ CompletedOf(m)' = CompletedOf(m)
           /\ \A m : PublishedOf(m)' = PublishedOf(m) /\ TagsOf(m)' = TagsOf(m)
           /\ \A b : Metadata(b)' = Metadata(b)
<1>1. \A b : HasRow(b)' <=> HasRow(b)
  BY DEF HasRow
<1>2. \A m : RowsOf(m)' = RowsOf(m)
  BY <1>1 DEF RowsOf
<1>3. \A m : CompletedOf(m)' = CompletedOf(m)
  BY <1>2 DEF CompletedOf
<1>4. \A m : PublishedOf(m)' = PublishedOf(m)
  BY <1>1 DEF PublishedOf
<1>5. \A m : TagsOf(m)' = TagsOf(m)
  BY <1>1 DEF TagsOf
<1>6. \A b : Metadata(b)' = Metadata(b)
  BY DEF Metadata
<1> QED
  BY <1>2, <1>3, <1>4, <1>5, <1>6

\* Two records of one build differ in nothing but the flag.
LEMMA SameRecords ==
    ASSUME UNCHANGED <<stage, note>>, NEW b \in Builds,
           note[b] \in Notes \cup {Nil}, keep[b] \in BOOLEAN, keep'[b] \in BOOLEAN
    PROVE  /\ Unkept(Record(b))' = Unkept(Record(b))
           /\ Record(b)'.build = b /\ Record(b).build = b
           /\ Record(b)' # Nil /\ Record(b) # Nil
<1>1. Record(b) \in RecordSet /\ Record(b)' \in RecordSet
  BY DEF Record, RecordSet
<1>2. Record(b) # Nil /\ Record(b)' # Nil
  BY <1>1, StatisticsAssumption
<1>3. Record(b).build = b /\ Record(b)'.build = b
  BY DEF Record
<1>4. Unkept(Record(b)) = <<b, note[b], stage[b] = "complete">>
  BY <1>2 DEF Record, Unkept
<1>5. Unkept(Record(b))' = <<b, note'[b], stage'[b] = "complete">>
  BY <1>2 DEF Record, Unkept
<1> QED
  BY <1>2, <1>3, <1>4, <1>5

Typed == note \in [Builds -> Notes \cup {Nil}] /\ keep \in [Builds -> BOOLEAN]

\* The latest build is the same, though its record may not be.
LEMMA SameLatest ==
    ASSUME UNCHANGED <<stage, note, files, links>>, Typed, Typed', NEW m
    PROVE  /\ Unkept(LatestOf(m))' = Unkept(LatestOf(m))
           /\ LatestOf(m)' = Nil <=> LatestOf(m) = Nil
           /\ LatestOf(m) # Nil => LatestOf(m)'.build = LatestOf(m).build
<1> DEFINE latest == {b \in CompletedOf(m) : \A c \in CompletedOf(m) : c <= b}
           b == CHOOSE x \in latest : TRUE
<1>1. latest' = latest /\ b' = b
  BY SameQueries
<1>2. LatestOf(m) = IF latest = {} THEN Nil ELSE Record(b)
  BY DEF LatestOf
<1>3. LatestOf(m)' = IF latest' = {} THEN Nil ELSE Record(b)'
  BY DEF LatestOf
<1>4. latest # {} => b \in Builds
  BY DEF CompletedOf, RowsOf
<1> HIDE DEF latest, b
<1>5. CASE latest = {}
  BY <1>1, <1>2, <1>3, <1>5 DEF Unkept
<1>6. CASE latest # {}
  <2>1. PICK c \in Builds : c = b
    BY <1>4, <1>6
  <2>2. LatestOf(m) = Record(c) /\ LatestOf(m)' = Record(c)'
    BY <1>1, <1>2, <1>3, <1>6, <2>1 DEF Record
  <2>3. /\ Unkept(Record(c))' = Unkept(Record(c))
        /\ Record(c)'.build = c /\ Record(c).build = c
        /\ Record(c)' # Nil /\ Record(c) # Nil
    BY SameRecords DEF Typed
  <2> QED
    BY <2>2, <2>3 DEF Unkept
<1> QED
  BY <1>5, <1>6

\* What is shown of an uninterrupted collection, piece by piece.
ShownFacts ==
    LET ms == ToSet(MachineList) IN
    /\ MachinesOf(Collected) = ms
    /\ \A name \in Pieces : Collected[name] = Piece(name, ms)
    /\ ShownPiece(Collected, "machines") = MachineList
    /\ ShownPiece(Collected, "package_counts") = [m \in ms |-> PackageCount(m)]
    /\ ShownPiece(Collected, "recent_packages") = [m \in ms |-> RecentPackages(m)]
    /\ ShownPiece(Collected, "latest_published") =
          [m \in ms |-> Unkept(LatestPublished(m))]
    /\ ShownPiece(Collected, "latest_build") = [m \in ms |-> Unkept(LatestOf(m))]
    /\ ShownPiece(Collected, "machine_info") =
          [m \in ms |-> [builds |-> {Unkept(r) : r \in BuildsOf(m)},
                         build_count |-> Cardinality(RowsOf(m)),
                         published_build |-> PublishedOf(m), tags |-> TagsOf(m)]]
    /\ ShownPiece(Collected, "build_packages") =
          {<<Unkept(r), Metadata(r.build).built>> :
              r \in {LatestOf(m) : m \in ms} \ {Nil}}

LEMMA ShownIs == ShownFacts
<1> DEFINE ms == ToSet(MachineList)
<1>1. \A name \in Pieces : Collected[name] = Piece(name, ms)
  BY DEF Collected
<1>2. MachinesOf(Collected) = ms
  BY <1>1, PiecesAre DEF MachinesOf, Piece
<1>3. ShownPiece(Collected, "machines") = MachineList
  BY <1>1, PiecesAre DEF ShownPiece, Piece
<1> HIDE DEF ms
<1>4. ShownPiece(Collected, "package_counts") = [m \in ms |-> PackageCount(m)]
  BY <1>1, PiecesAre DEF ShownPiece, Piece
<1>5. ShownPiece(Collected, "recent_packages") = [m \in ms |-> RecentPackages(m)]
  BY <1>1, PiecesAre DEF ShownPiece, Piece
<1>6. ShownPiece(Collected, "latest_published") =
        [m \in ms |-> Unkept(LatestPublished(m))]
  <2>1. Collected["latest_published"] = [m \in ms |-> LatestPublished(m)]
    BY <1>1, PiecesAre DEF Piece
  <2> QED
    BY <1>2, <2>1 DEF ShownPiece
<1>7. ShownPiece(Collected, "latest_build") = [m \in ms |-> Unkept(LatestOf(m))]
  <2>1. Collected["latest_build"] = [m \in ms |-> LatestOf(m)]
    BY <1>1, PiecesAre DEF Piece
  <2> QED
    BY <1>2, <2>1 DEF ShownPiece
<1>8. ShownPiece(Collected, "machine_info") =
        [m \in ms |-> [builds |-> {Unkept(r) : r \in BuildsOf(m)},
                       build_count |-> Cardinality(RowsOf(m)),
                       published_build |-> PublishedOf(m), tags |-> TagsOf(m)]]
  <2>1. Collected["machine_info"] = [m \in ms |-> MachineInfo(m)]
    BY <1>1, PiecesAre DEF Piece
  <2>2. \A m : /\ MachineInfo(m).builds = BuildsOf(m)
               /\ MachineInfo(m).build_count = Cardinality(RowsOf(m))
               /\ MachineInfo(m).published_build = PublishedOf(m)
               /\ MachineInfo(m).tags = TagsOf(m)
    BY DEF MachineInfo
  <2> QED
    BY <1>2, <2>1, <2>2 DEF ShownPiece
<1>9. ShownPiece(Collected, "build_packages") =
        {<<Unkept(r), Metadata(r.build).built>> :
            r \in {LatestOf(m) : m \in ms} \ {Nil}}
  <2> DEFINE records == {LatestOf(m) : m \in ms} \ {Nil}
  <2>1. Collected["build_packages"] = [r \in records |-> Metadata(r.build).built]
    BY <1>1, PiecesAre DEF Piece, BuildPackages
  <2> HIDE DEF records
  <2>2. ShownPiece(Collected, "build_packages") =
          {<<Unkept(r), Metadata(r.build).built>> : r \in records}
    BY <2>1 DEF ShownPiece
  <2> QED
    BY <2>2 DEF records
<1> QED
  BY <1>1, <1>2, <1>3, <1>4, <1>5, <1>6, <1>7, <1>8, <1>9 DEF ms, ShownFacts

\* Whoever changes nothing but keep flags changes nothing that is shown.
LEMMA KeepHidden ==
    UNCHANGED <<stage, note, files, links>> /\ Typed /\ Typed' =>
        \A name \in Pieces :
            ShownPiece(Collected, name)' = ShownPiece(Collected, name)
<1>a. ShownFacts /\ ShownFacts'
  BY ShownIs, PTL
<1> SUFFICES ASSUME UNCHANGED <<stage, note, files, links>>, Typed, Typed'
             PROVE  \A name \in Pieces :
                        ShownPiece(Collected, name)' = ShownPiece(Collected, name)
  OBVIOUS
<1>1. MachineList' = MachineList
  <2> DEFINE count == [m \in {x \in Machines : RowsOf(x) # {}} |->
                          Cardinality(RowsOf(m))]
  <2>1. count' = count
    BY SameQueries
  <2>2. MachineList = Ranked(count) /\ MachineList' = Ranked(count')
    BY DEF MachineList
  <2> QED
    BY <2>1, <2>2
<1> DEFINE ms == ToSet(MachineList)
<1>2. ms' = ms
  BY <1>1
<1>3. ShownPiece(Collected, "machines")' = ShownPiece(Collected, "machines")
  BY <1>1, <1>a DEF ShownFacts
<1>4. \A m : PackageCount(m)' = PackageCount(m)
  <2> SUFFICES ASSUME NEW m PROVE PackageCount(m)' = PackageCount(m)
    OBVIOUS
  <2> DEFINE count == [b \in CompletedOf(m) |-> Metadata(b).total]
  <2>1. count' = count
    BY SameQueries
  <2>2. PackageCount(m) = Sum(count) /\ PackageCount(m)' = Sum(count')
    BY DEF PackageCount
  <2> QED
    BY <2>1, <2>2
<1>5. \A m : RecentPackages(m)' = RecentPackages(m)
  BY SameQueries DEF RecentPackages
<1>6. \A m : Unkept(LatestPublished(m))' = Unkept(LatestPublished(m))
  BY SameQueries, SameLatest DEF LatestPublished, Unkept
<1>7. \A m : Unkept(LatestOf(m))' = Unkept(LatestOf(m))
  BY SameLatest
<1>8. \A m : {Unkept(r) : r \in BuildsOf(m)}' = {Unkept(r) : r \in BuildsOf(m)}
  <2> SUFFICES ASSUME NEW m
               PROVE  {Unkept(r) : r \in BuildsOf(m)}' = {Unkept(r) : r \in BuildsOf(m)}
    OBVIOUS
  <2> DEFINE rows == RowsOf(m)
             before(b) == Unkept(Record(b))
             after(b) == Unkept(Record(b))'
  <2>1. {Unkept(r) : r \in BuildsOf(m)} = {before(b) : b \in rows}
    BY DEF BuildsOf
  <2>2. {Unkept(r) : r \in BuildsOf(m)}' = {after(b) : b \in RowsOf(m)'}
    BY DEF BuildsOf, Unkept
  <2>3. \A b \in rows : after(b) = before(b)
    BY SameRecords DEF Typed, RowsOf
  <2>4. RowsOf(m)' = rows
    BY SameQueries
  <2> HIDE DEF rows, before, after
  <2> QED
    BY <2>1, <2>2, <2>3, <2>4
<1>9. ShownPiece(Collected, "package_counts")' = ShownPiece(Collected, "package_counts")
  BY <1>2, <1>4, <1>a DEF ShownFacts
<1>10. ShownPiece(Collected, "recent_packages")'
         = ShownPiece(Collected, "recent_packages")
  BY <1>2, <1>5, <1>a DEF ShownFacts
<1>11. ShownPiece(Collected, "latest_published")'
         = ShownPiece(Collected, "latest_published")
  BY <1>2, <1>6, <1>a DEF ShownFacts
<1>12. ShownPiece(Collected, "latest_build")' = ShownPiece(Collected, "latest_build")
  BY <1>2, <1>7, <1>a DEF ShownFacts
<1>13. ShownPiece(Collected, "machine_info")' = ShownPiece(Collected, "machine_info")
  <2> DEFINE info(m) == [builds |-> {Unkept(r) : r \in BuildsOf(m)},
                         build_count |-> Cardinality(RowsOf(m)),
                         published_build |-> PublishedOf(m), tags |-> TagsOf(m)]
  <2>1. \A m : info(m)' = info(m)
    BY <1>8, SameQueries
  <2>2. ShownPiece(Collected, "machine_info") = [m \in ms |-> info(m)]
    BY <1>a DEF ShownFacts
  <2>3. ShownPiece(Collected, "machine_info")' = [m \in ms' |-> info(m)']
    BY <1>a DEF ShownFacts
  <2> HIDE DEF info, ms
  <2> QED
    BY <1>2, <2>1, <2>2, <2>3
<1>14. ShownPiece(Collected, "build_packages")'
         = ShownPiece(Collected, "build_packages")
  <2> DEFINE pair(m) == <<Unkept(LatestOf(m)), Metadata(LatestOf(m).build).built>>
             listed == {m \in ms : LatestOf(m) # Nil}
  <2>1. ShownPiece(Collected, "build_packages") = {pair(m) : m \in listed}
    BY <1>a DEF ShownFacts
  <2>2. ShownPiece(Collected, "build_packages")' = {pair(m)' : m \in listed'}
    BY <1>a DEF ShownFacts
  <2>3. listed' = listed
    BY <1>2, SameLatest
  <2>4. \A m \in listed : pair(m)' = pair(m)
    BY SameLatest, SameQueries
  <2> HIDE DEF pair, listed
  <2> QED
    BY <2>1, <2>2, <2>3, <2>4
<1> QED
  BY <1>3, <1>9, <1>10, <1>11, <1>12, <1>13, <1>14, PiecesAre

\* In one equation, which is how the other proofs need it.
LEMMA SameShown ==
    UNCHANGED <<stage, note, files, links>> /\ Typed /\ Typed' =>
        Shown(Collected)' = Shown(Collected)
BY KeepHidden DEF Shown

(***************************************************************************)
(* Collecting group by group                                               *)
(***************************************************************************)
LEMMA SamePiece ==
    ASSUME NEW s, NEW t, NEW name, s[name] = t[name], MachinesOf(s) = MachinesOf(t)
    PROVE  ShownPiece(s, name) = ShownPiece(t, name)
BY DEF ShownPiece

\* The machines that were found in the first group are those whose pieces an
\* uninterrupted collection has.
LEMMA SameMachines ==
    ASSUME NEW stats, ShownPiece(stats, "machines") = ShownPiece(Collected, "machines")
    PROVE  MachinesOf(stats) = MachinesOf(Collected)
BY DEF ShownPiece, MachinesOf

\* One more group that no change has interrupted
LEMMA SoFarGrows ==
    ASSUME NEW stats, NEW i \in 1..Len(Groups), FreshSoFar(stats, i)
    PROVE  LET found == [name \in Pieces |-> IF name \in Groups[i]
                                             THEN Piece(name, MachinesOf(stats))
                                             ELSE stats[name]]
           IN  FreshSoFar(found, i + 1)
<1> DEFINE found == [name \in Pieces |-> IF name \in Groups[i]
                                         THEN Piece(name, MachinesOf(stats))
                                         ELSE stats[name]]
<1>0. i \in 1..4
  BY GroupsAre
<1>1. \A name \in Groups[i] : found[name] = Piece(name, MachinesOf(stats))
  BY <1>0, PiecesAre
<1>2. \A j \in 1..4 : j < i => \A name \in Groups[j] : found[name] = stats[name]
  BY <1>0, PiecesAre, GroupsAre
<1> HIDE DEF found
<1>3. \A name \in Pieces : Collected[name] = Piece(name, MachinesOf(Collected))
  BY ShownIs DEF ShownFacts
<1>4. ASSUME i = 1 PROVE FreshSoFar(found, i + 1)
  <2>1. found["machines"] = MachineList
    BY <1>1, <1>4, GroupsAre DEF Piece
  <2>2. ShownPiece(found, "machines") = ShownPiece(Collected, "machines")
    BY <2>1, ShownIs DEF ShownFacts, ShownPiece
  <2> QED
    BY <2>2, <1>4, GroupsAre DEF FreshSoFar
<1>5. ASSUME i > 1 PROVE FreshSoFar(found, i + 1)
  <2>1. ShownPiece(stats, "machines") = ShownPiece(Collected, "machines")
    BY <1>0, <1>5, GroupsAre DEF FreshSoFar
  <2>2. MachinesOf(stats) = MachinesOf(Collected)
    BY <2>1, SameMachines
  <2>3. found["machines"] = stats["machines"]
    BY <1>0, <1>2, <1>5, GroupsAre
  <2>4. MachinesOf(found) = MachinesOf(stats)
    BY <2>3 DEF MachinesOf
  <2>5. ASSUME NEW name \in Groups[i]
        PROVE  ShownPiece(found, name) = ShownPiece(Collected, name)
    <3>1. found[name] = Collected[name]
      BY <1>0, <1>1, <1>3, <2>2, PiecesAre
    <3> QED
      BY <2>2, <2>4, <3>1, SamePiece
  <2>6. ASSUME NEW j \in 1..4, j < i, NEW name \in Groups[j]
        PROVE  ShownPiece(found, name) = ShownPiece(Collected, name)
    <3>1. ShownPiece(found, name) = ShownPiece(stats, name)
      BY <1>2, <2>4, <2>6, SamePiece
    <3> QED
      BY <2>6, <3>1, GroupsAre DEF FreshSoFar
  <2>7. \A j \in 1..4 : j < i + 1 => j = i \/ j < i
    BY <1>0
  <2> QED
    BY <2>5, <2>6, <2>7, GroupsAre DEF FreshSoFar
<1> QED
  BY <1>0, <1>4, <1>5 DEF found

\* Collections that are done have gone through all groups.
LEMMA DoneIsShown ==
    ASSUME NEW stats, FreshSoFar(stats, Len(Groups) + 1)
    PROVE  Shown(stats) = Shown(Collected)
<1>1. \A i \in 1..4 : \A name \in Groups[i] :
        ShownPiece(stats, name) = ShownPiece(Collected, name)
  BY GroupsAre DEF FreshSoFar
<1>2. \A name \in Pieces : \E i \in 1..4 : name \in Groups[i]
  BY PiecesAre, GroupsAre
<1>3. \A name \in Pieces : ShownPiece(stats, name) = ShownPiece(Collected, name)
  BY <1>1, <1>2
<1> QED
  BY <1>3 DEF Shown

\* As long as the collected pieces look the same, what is fresh stays fresh.
LEMMA SoFarKept ==
    ASSUME Shown(Collected)' = Shown(Collected), NEW stats, NEW next,
           FreshSoFar(stats, next)
    PROVE  FreshSoFar(stats, next)'
BY PiecesAre, GroupsAre DEF FreshSoFar, Shown

(***************************************************************************)
(* Where processes are                                                     *)
(***************************************************************************)
Steps == {"idle", "extract", "complete", "emit", "delete", "delete files",
          "collect", "store"}

LEMMA Disjoint ==
    /\ Changers \subseteq Procs /\ Updaters \subseteq Procs /\ Readers \subseteq Procs
    /\ \A p \in Changers : p \notin Updaters /\ p \notin Readers
    /\ \A p \in Updaters : p \notin Readers
BY StatisticsAssumption DEF Procs

\* What Continue() leaves behind
LEMMA ContinueDoes ==
    ASSUME ControlOK, NEW p \in Procs, NEW next \in Steps, NEW value,
           Continue(p, next, value)
    PROVE  /\ pc' \in [Procs -> Steps] /\ local' = [q \in Procs |-> local'[q]]
           /\ pc'[p] = next
           /\ next # "idle" => local'[p] = value
           /\ \A q \in Procs \ {p} : pc'[q] = pc[q] /\ local'[q] = local[q]
BY DEF ControlOK, Continue, Steps

\* A changer's step
LEMMA ChangerControl ==
    ASSUME ControlOK, NEW p \in Changers, NEW next \in Steps \ {"collect", "store"},
           NEW value, Continue(p, next, value),
           next = "emit" => value.event \in Bound /\ value.next = "idle",
           queue' \in Nat, Typed'
    PROVE  ControlOK'
<1>1. p \in Procs
  BY Disjoint
<1>2. /\ pc' \in [Procs -> Steps] /\ local' = [q \in Procs |-> local'[q]]
      /\ pc'[p] = next
      /\ next # "idle" => local'[p] = value
      /\ \A q \in Procs \ {p} : pc'[q] = pc[q] /\ local'[q] = local[q]
  BY <1>1, ContinueDoes
<1>3. \A q \in Changers :
          /\ pc'[q] \notin {"collect", "store"}
          /\ pc'[q] = "emit" => local'[q].event \in Bound /\ local'[q].next = "idle"
  BY <1>2, Disjoint DEF ControlOK
<1>4. \A q \in Updaters \cup Readers :
          /\ pc'[q] \in {"idle", "collect", "store"}
          /\ pc'[q] = "collect" => local'[q].next \in 1..Len(Groups)
          /\ pc'[q] = "store" => local'[q].next = Len(Groups) + 1
  BY <1>2, Disjoint DEF ControlOK
<1> QED
  BY <1>2, <1>3, <1>4 DEF ControlOK, Typed, Steps

\* A step of a worker or of a reader
LEMMA CollectorControl ==
    ASSUME ControlOK, NEW p \in Updaters \cup Readers,
           NEW next \in {"idle", "collect", "store"}, NEW value,
           Continue(p, next, value),
           next = "collect" => value.next \in 1..Len(Groups),
           next = "store" => value.next = Len(Groups) + 1,
           queue' \in Nat, UNCHANGED <<note, keep>>
    PROVE  ControlOK'
<1>1. p \in Procs /\ next \in Steps
  BY Disjoint DEF Steps
<1>2. /\ pc' \in [Procs -> Steps] /\ local' = [q \in Procs |-> local'[q]]
      /\ pc'[p] = next
      /\ next # "idle" => local'[p] = value
      /\ \A q \in Procs \ {p} : pc'[q] = pc[q] /\ local'[q] = local[q]
  BY <1>1, ContinueDoes
<1>3. \A q \in Changers :
          /\ pc'[q] \notin {"collect", "store"}
          /\ pc'[q] = "emit" => local'[q].event \in Bound /\ local'[q].next = "idle"
  BY <1>2, Disjoint DEF ControlOK
<1>4. \A q \in Updaters \cup Readers :
          /\ pc'[q] \in {"idle", "collect", "store"}
          /\ pc'[q] = "collect" => local'[q].next \in 1..Len(Groups)
          /\ pc'[q] = "store" => local'[q].next = Len(Groups) + 1
  BY <1>2, Disjoint DEF ControlOK
<1> QED
  BY <1>2, <1>3, <1>4 DEF ControlOK, Steps

(***************************************************************************)
(* The steps                                                               *)
(***************************************************************************)

\* Another process has stepped.
Others(p) == \A q \in Procs \ {p} : pc'[q] = pc[q] /\ local'[q] = local[q]

\* The call emit(event) comes next, for an event to which a handler is bound.
LEMMA EmitNext ==
    ASSUME ControlOK, NEW p \in Changers, NEW b, NEW event \in Bound,
           EmitThen(p, b, event, "idle"), queue' \in Nat, Typed'
    PROVE  ControlOK' /\ pc'[p] # "idle" /\ Others(p)
<1> DEFINE value == [build |-> b, event |-> event, next |-> "idle"]
<1>1. Continue(p, "emit", value)
  BY DEF EmitThen
<1>2. value.event \in Bound /\ value.next = "idle"
  OBVIOUS
<1> HIDE DEF value
<1>3. ControlOK'
  BY <1>1, <1>2, ChangerControl DEF Steps
<1>4. pc'[p] = "emit" /\ Others(p)
  BY <1>1, ContinueDoes, Disjoint DEF Steps, Others
<1> QED
  BY <1>3, <1>4

\* The operation goes on, or ends.
LEMMA OtherNext ==
    ASSUME ControlOK, NEW p \in Changers, NEW value,
           NEW next \in {"idle", "extract", "complete", "delete", "delete files"},
           Continue(p, next, value), queue' \in Nat, Typed'
    PROVE  ControlOK' /\ pc'[p] = next /\ Others(p)
<1>0. /\ next \in Steps /\ next \in Steps \ {"collect", "store"} /\ next # "emit"
      /\ p \in Procs
  BY Disjoint DEF Steps
<1>1. ControlOK'
  BY <1>0, ChangerControl
<1>2. pc'[p] = next /\ Others(p)
  BY <1>0, ContinueDoes DEF Others
<1> QED
  BY <1>1, <1>2

\* Whoever changes more than a keep flag is not done with it.
LEMMA StartChangeStep ==
    ASSUME ControlOK, NEW p \in Changers, StartChange(p)
    PROVE  /\ ControlOK' /\ Others(p) /\ UNCHANGED <<queue, cache, filled>>
           /\ \/ pc'[p] # "idle"
              \/ pc[p] = "idle" /\ UNCHANGED <<stage, note, files, links>>
<1> DEFINE Goal == /\ ControlOK' /\ Others(p) /\ UNCHANGED <<queue, cache, filled>>
                   /\ \/ pc'[p] # "idle"
                      \/ pc[p] = "idle" /\ UNCHANGED <<stage, note, files, links>>
<1>0. /\ queue \in Nat /\ Typed
      /\ {"postdelete", "postpull", "published", "tagged", "untagged", "note"} = Bound
  BY DEF ControlOK, Typed, Bound
<1>1. ASSUME NEW b \in Builds, StartPull(p, b)
      PROVE  Goal
  <2>1. /\ UNCHANGED <<queue, cache, filled>> /\ Typed'
        /\ Continue(p, "extract", [build |-> b])
    BY <1>0, <1>1 DEF StartPull, Change, Typed
  <2>2. ControlOK' /\ pc'[p] = "extract" /\ Others(p)
    BY <1>0, <2>1, OtherNext
  <2> QED
    BY <2>1, <2>2
<1>2. ASSUME NEW b \in Builds, StartDelete(p, b)
      PROVE  Goal
  <2>1. /\ UNCHANGED <<queue, cache, filled>> /\ Typed'
        /\ Continue(p, "delete", [build |-> b])
    BY <1>0, <1>2 DEF StartDelete, Change, Typed, world
  <2>2. ControlOK' /\ pc'[p] = "delete" /\ Others(p)
    BY <1>0, <2>1, OtherNext
  <2> QED
    BY <2>1, <2>2
<1>3. ASSUME NEW b \in Builds, NEW t \in TagNames, SetTag(p, b, t)
      PROVE  Goal
  <2>1. PICK event \in Bound : EmitThen(p, b, event, "idle")
    BY <1>0, <1>3 DEF SetTag
  <2>2. UNCHANGED <<queue, cache, filled>> /\ Typed'
    BY <1>0, <1>3 DEF SetTag, Change, Typed
  <2>3. ControlOK' /\ pc'[p] # "idle" /\ Others(p)
    BY <1>0, <2>1, <2>2, EmitNext
  <2> QED
    BY <2>2, <2>3
<1>4. ASSUME NEW b \in Builds, NEW text \in Notes \cup {Nil}, SetNote(p, b, text)
      PROVE  Goal
  <2>1. /\ UNCHANGED <<queue, cache, filled, stage, files, links>> /\ Typed'
        /\ note' = [note EXCEPT ![b] = text] /\ pc[p] = "idle"
    BY <1>0, <1>4 DEF SetNote, Change, Typed
  <2>2. ASSUME text # note[b] PROVE Goal
    <3>1. EmitThen(p, b, "note", "idle")
      BY <1>4, <2>2 DEF SetNote
    <3>2. ControlOK' /\ pc'[p] # "idle" /\ Others(p)
      BY <1>0, <2>1, <3>1, EmitNext
    <3> QED
      BY <2>1, <3>2
  <2>3. ASSUME text = note[b] PROVE Goal
    <3>1. Continue(p, "idle", local[p])
      BY <1>4, <2>3 DEF SetNote, Goto
    <3>2. ControlOK' /\ Others(p)
      BY <1>0, <2>1, <3>1, OtherNext
    <3>3. note' = note
      BY <1>0, <2>1, <2>3 DEF Typed
    <3> QED
      BY <2>1, <3>2, <3>3
  <2> QED
    BY <2>2, <2>3
<1>5. ASSUME NEW b \in Builds, SetKeep(p, b)
      PROVE  Goal
  <2>1. /\ UNCHANGED <<queue, cache, filled, stage, note, files, links>> /\ Typed'
        /\ Continue(p, "idle", local[p]) /\ pc[p] = "idle"
    BY <1>0, <1>5 DEF SetKeep, Change, Goto, Typed
  <2>2. ControlOK' /\ Others(p)
    BY <1>0, <2>1, OtherNext
  <2> QED
    BY <2>1, <2>2
<1>6. ASSUME NEW m \in Machines, NEW t \in TagNames, RemoveTag(p, m, t)
      PROVE  Goal
  <2>1. PICK b : b = links[m][t]
    OBVIOUS
  <2>2. /\ UNCHANGED <<queue, cache, filled>> /\ Typed'
        /\ EmitThen(p, b, "untagged", "idle")
    BY <1>0, <1>6, <2>1 DEF RemoveTag, Change, Typed
  <2>3. ControlOK' /\ pc'[p] # "idle" /\ Others(p)
    BY <1>0, <2>2, EmitNext
  <2> QED
    BY <2>2, <2>3
<1> HIDE DEF Goal
<1>7. Goal
  BY <1>1, <1>2, <1>3, <1>4, <1>5, <1>6 DEF StartChange
<1> QED
  BY <1>7 DEF Goal

\* Until an operation has emitted its event it is not done, and then there is
\* a job.
LEMMA StepChangeStep ==
    ASSUME ControlOK, NEW p \in Changers, StepChange(p)
    PROVE  ControlOK' /\ ~Quiet'
<1>0. /\ queue \in Nat /\ Typed
      /\ {"postdelete", "postpull", "published", "tagged", "untagged", "note"} = Bound
  BY DEF ControlOK, Typed, Bound
<1>1. CASE Emit(p)
  <2>1. /\ local[p].event \in Bound /\ local[p].next = "idle"
        /\ UNCHANGED <<note, keep>>
    BY <1>1 DEF Emit, ControlOK, world
  <2>2. queue' = queue + 1 /\ Continue(p, "idle", local[p])
    BY <1>1, <2>1 DEF Emit, Goto
  <2>3. PICK value : value = local[p]
    OBVIOUS
  <2>4. queue' \in Nat /\ queue' # 0
    BY <1>0, <2>2
  <2>5. Typed'
    BY <1>0, <2>1 DEF Typed
  <2>6. Continue(p, "idle", value)
    BY <2>2, <2>3
  <2>7. ControlOK'
    BY <2>4, <2>5, <2>6, OtherNext
  <2> QED
    BY <2>4, <2>7 DEF Quiet
<1>2. CASE ExtractFiles(p)
  <2>1. /\ UNCHANGED <<note, keep, queue>>
        /\ Continue(p, "complete", local[p])
    BY <1>2 DEF ExtractFiles, Goto
  <2>2. ControlOK' /\ pc'[p] = "complete"
    BY <1>0, <2>1, OtherNext DEF Typed
  <2> QED
    BY <2>2 DEF Quiet
<1>3. CASE CompletePull(p)
  <2>1. PICK b : b = local[p].build
    OBVIOUS
  <2>2. UNCHANGED <<note, keep, queue>> /\ EmitThen(p, b, "postpull", "idle")
    BY <1>3, <2>1 DEF CompletePull
  <2>3. ControlOK' /\ pc'[p] # "idle"
    BY <1>0, <2>2, EmitNext DEF Typed
  <2> QED
    BY <2>3 DEF Quiet
<1>4. CASE FailPull(p)
  <2>1. /\ UNCHANGED <<note, keep, queue>>
        /\ Continue(p, "delete", [build |-> local[p].build])
    BY <1>4 DEF FailPull, world
  <2>2. PICK value : value = [build |-> local[p].build]
    OBVIOUS
  <2>3. ControlOK' /\ pc'[p] = "delete"
    BY <1>0, <2>1, <2>2, OtherNext DEF Typed
  <2> QED
    BY <2>3 DEF Quiet
<1>5. CASE DeleteRow(p)
  <2>1. /\ UNCHANGED <<note, keep, queue>>
        /\ Continue(p, "delete files", local[p])
    BY <1>5 DEF DeleteRow, Goto
  <2>2. ControlOK' /\ pc'[p] = "delete files"
    BY <1>0, <2>1, OtherNext DEF Typed
  <2> QED
    BY <2>2 DEF Quiet
<1>6. CASE DeleteFiles(p)
  <2>1. PICK b : b = local[p].build
    OBVIOUS
  <2>2. UNCHANGED <<note, keep, queue>> /\ EmitThen(p, b, "postdelete", "idle")
    BY <1>6, <2>1 DEF DeleteFiles
  <2>3. ControlOK' /\ pc'[p] # "idle"
    BY <1>0, <2>2, EmitNext DEF Typed
  <2> QED
    BY <2>3 DEF Quiet
<1> QED
  BY <1>1, <1>2, <1>3, <1>4, <1>5, <1>6 DEF StepChange

\* A group is collected.
FoundBy(p) == [name \in Pieces |-> IF name \in Groups[local[p].next]
                                   THEN Piece(name, MachinesOf(local[p].stats))
                                   ELSE local[p].stats[name]]

LEMMA GroupStep ==
    ASSUME ControlOK, NEW p \in Updaters \cup Readers, CollectGroup(p)
    PROVE  /\ ControlOK' /\ UNCHANGED <<world, queue, cache, filled>> /\ Others(p)
           /\ pc[p] = "collect" /\ pc'[p] # "idle"
           /\ local[p].next \in 1..Len(Groups)
           /\ local'[p].stats = FoundBy(p) /\ local'[p].next = local[p].next + 1
<1>0. queue \in Nat /\ Len(Groups) = 4 /\ p \in Procs
  BY GroupsAre, Disjoint DEF ControlOK
<1>1. PICK i : i = local[p].next
  OBVIOUS
<1>2. PICK found : found = FoundBy(p)
  OBVIOUS
<1>3. PICK next : next = IF i = Len(Groups) THEN "store" ELSE "collect"
  OBVIOUS
<1>4. PICK value : value = [stats |-> found, next |-> i + 1]
  OBVIOUS
<1>5. /\ UNCHANGED <<world, queue, cache, filled>> /\ pc[p] = "collect"
      /\ Continue(p, next, value)
  BY <1>1, <1>2, <1>3, <1>4 DEF CollectGroup, FoundBy
<1>6. i \in 1..4
  BY <1>0, <1>1, <1>5 DEF ControlOK
<1>7. UNCHANGED <<queue, note, keep>>
  BY <1>5 DEF world
<1>8. /\ next \in {"idle", "collect", "store"} /\ next \in Steps /\ next # "idle"
      /\ next = "collect" => value.next \in 1..Len(Groups)
      /\ next = "store" => value.next = Len(Groups) + 1
  BY <1>0, <1>3, <1>4, <1>6 DEF Steps
<1>9. ControlOK'
  BY <1>0, <1>5, <1>7, <1>8, CollectorControl
<1>10. pc'[p] # "idle" /\ local'[p] = value /\ Others(p)
  BY <1>0, <1>5, <1>8, ContinueDoes DEF Others
<1> QED
  BY <1>0, <1>1, <1>2, <1>4, <1>5, <1>6, <1>9, <1>10

\* A worker's step
LEMMA UpdateControl ==
    ASSUME ControlOK, NEW p \in Updaters, Update(p)
    PROVE  ControlOK'
<1>0. /\ queue \in Nat /\ p \in Updaters \cup Readers /\ Len(Groups) = 4
      /\ pc[p] = "collect" => local[p].next \in 1..Len(Groups)
  BY GroupsAre DEF ControlOK
<1>1. CASE TakeJob(p)
  <2>1. /\ UNCHANGED <<note, keep>> /\ queue' \in Nat
        /\ Continue(p, "collect", [stats |-> NoStats, next |-> 1])
    BY <1>0, <1>1 DEF TakeJob, BeginCollection, world
  <2> QED
    BY <1>0, <2>1, CollectorControl
<1>2. CASE CollectGroup(p)
  BY <1>0, <1>2, GroupStep
<1>3. CASE StoreUpdate(p)
  <2>1. UNCHANGED <<note, keep, queue>> /\ Continue(p, "idle", local[p])
    BY <1>3 DEF StoreUpdate, Goto, world
  <2> QED
    BY <1>0, <2>1, CollectorControl
<1> QED
  BY <1>1, <1>2, <1>3 DEF Update

\* A reader's step
LEMMA FillControl ==
    ASSUME ControlOK, NEW p \in Readers, Fill(p)
    PROVE  ControlOK'
<1>0. /\ queue \in Nat /\ p \in Updaters \cup Readers /\ Len(Groups) = 4
      /\ pc[p] = "collect" => local[p].next \in 1..Len(Groups)
  BY GroupsAre DEF ControlOK
<1>1. CASE BeginFill(p)
  <2>1. /\ UNCHANGED <<note, keep, queue>>
        /\ Continue(p, "collect", [stats |-> NoStats, next |-> 1])
    BY <1>0, <1>1 DEF BeginFill, BeginCollection, world
  <2> QED
    BY <1>0, <2>1, CollectorControl
<1>2. CASE CollectGroup(p)
  BY <1>0, <1>2, GroupStep
<1>3. CASE StoreFill(p)
  <2>1. UNCHANGED <<note, keep, queue>> /\ Continue(p, "idle", local[p])
    BY <1>3 DEF StoreFill, Goto, world
  <2> QED
    BY <1>0, <2>1, CollectorControl
<1> QED
  BY <1>1, <1>2, <1>3 DEF Fill

(***************************************************************************)
(* With one task worker, the cache shows the builds as they are            *)
(***************************************************************************)
OneWorker == \A p, q \in Updaters : p = q

LEMMA SameWorld ==
    UNCHANGED <<stage, note, files, links>> /\ ControlOK /\ ControlOK' =>
        Shown(Collected)' = Shown(Collected)
BY SameShown DEF ControlOK, Typed

\* Steps that updaters take no part in
LEMMA WorkersKept ==
    ASSUME UpToDate, Shown(Collected)' = Shown(Collected),
           \A q \in Updaters : pc'[q] = pc[q] /\ local'[q] = local[q]
    PROVE  \A q \in Updaters : pc'[q] # "idle" =>
              FreshSoFar(local[q].stats, local[q].next)'
<1> SUFFICES ASSUME NEW q \in Updaters, pc'[q] # "idle"
             PROVE  FreshSoFar(local[q].stats, local[q].next)'
  OBVIOUS
<1>1. FreshSoFar(local[q].stats, local[q].next)
  BY DEF UpToDate
<1>2. PICK stats, next : stats = local[q].stats /\ next = local[q].next
  OBVIOUS
<1>3. FreshSoFar(stats, next)'
  BY <1>1, <1>2, SoFarKept
<1>4. local'[q].stats = stats /\ local'[q].next = next
  BY <1>2
<1> QED
  BY <1>3, <1>4

\* Steps that neither updaters nor the cache take part in
LEMMA UpToDateKept ==
    ASSUME UpToDate, Shown(Collected)' = Shown(Collected), UNCHANGED <<cache, filled>>,
           \A q \in Updaters : pc'[q] = pc[q] /\ local'[q] = local[q]
    PROVE  UpToDate'
<1>1. ASSUME \A q \in Updaters : pc'[q] = "idle", cache' # Nil, ~filled'
      PROVE  Shown(cache)' = Shown(Collected)'
  BY <1>1 DEF UpToDate
<1> QED
  BY <1>1, WorkersKept DEF UpToDate

\* The statistics of the one worker
LEMMA WorkerCollects ==
    ASSUME OneWorker, NEW p \in Updaters, pc'[p] # "idle",
           FreshSoFar(local[p].stats, local[p].next)'
    PROVE  UpToDate'
<1>1. \A q \in Updaters : q = p
  BY DEF OneWorker
<1> QED
  BY <1>1 DEF UpToDate

LEMMA UpdateStep ==
    ASSUME OneWorker, FreshInv, NEW p \in Updaters, Update(p)
    PROVE  FreshInv'
<1>1. ControlOK /\ ControlOK'
  BY UpdateControl DEF FreshInv
<1>2. p \in Procs /\ p \in Updaters \cup Readers /\ queue \in Nat
  BY Disjoint, <1>1 DEF ControlOK
<1> SUFFICES ASSUME Quiet' PROVE UpToDate'
  BY <1>1 DEF FreshInv
<1>3. CASE TakeJob(p)
  <2>0. PICK value : value = [stats |-> NoStats, next |-> 1]
    OBVIOUS
  <2>1. Continue(p, "collect", value) /\ "collect" \in Steps
    BY <1>3, <2>0 DEF TakeJob, BeginCollection, Steps
  <2>2. pc'[p] = "collect" /\ local'[p] = value
    BY <1>1, <1>2, <2>1, ContinueDoes
  <2>3. PICK stats, next : stats = local'[p].stats /\ next = local'[p].next
    OBVIOUS
  <2>4. next = 1
    BY <2>0, <2>2, <2>3
  <2>5. FreshSoFar(stats, next)'
    BY <2>4, GroupsAre DEF FreshSoFar
  <2>6. FreshSoFar(local[p].stats, local[p].next)'
    BY <2>3, <2>5
  <2> QED
    BY <2>2, <2>6, WorkerCollects
<1>4. CASE CollectGroup(p)
  <2>1. /\ UNCHANGED <<world, queue, cache, filled>> /\ Others(p)
        /\ pc[p] = "collect" /\ pc'[p] # "idle"
        /\ local[p].next \in 1..Len(Groups)
        /\ local'[p].stats = FoundBy(p) /\ local'[p].next = local[p].next + 1
    BY <1>1, <1>2, <1>4, GroupStep
  <2>2. UpToDate
    <3>1. \A q \in Changers : pc'[q] = pc[q]
      BY <2>1, Disjoint DEF Others
    <3> QED
      BY <2>1, <3>1 DEF FreshInv, Quiet
  <2>3. PICK stats, i : stats = local[p].stats /\ i = local[p].next
    OBVIOUS
  <2>4. FreshSoFar(stats, i) /\ i \in 1..Len(Groups)
    BY <2>1, <2>2, <2>3 DEF UpToDate
  <2>5. PICK found : found = FoundBy(p)
    OBVIOUS
  <2>6. FreshSoFar(found, i + 1)
    BY <2>3, <2>4, <2>5, SoFarGrows DEF FoundBy
  <2>7. Shown(Collected)' = Shown(Collected)
    BY <1>1, <2>1, SameWorld DEF world
  <2>8. PICK next : next = i + 1
    OBVIOUS
  <2>9. FreshSoFar(found, next)'
    BY <2>6, <2>7, <2>8, SoFarKept
  <2>10. local'[p].stats = found /\ local'[p].next = next
    BY <2>1, <2>3, <2>5, <2>8
  <2>11. FreshSoFar(local[p].stats, local[p].next)'
    BY <2>9, <2>10
  <2> QED
    BY <2>1, <2>11, WorkerCollects
<1>5. CASE StoreUpdate(p)
  <2>1. /\ UNCHANGED <<world, queue>> /\ Continue(p, "idle", local[p])
        /\ cache' = local[p].stats /\ pc[p] = "store"
    BY <1>5 DEF StoreUpdate, Goto
  <2>2. pc'[p] = "idle" /\ Others(p)
    BY <1>1, <1>2, <2>1, ContinueDoes DEF Steps, Others
  <2>3. UpToDate
    <3>1. \A q \in Changers : pc'[q] = pc[q]
      BY <2>2, Disjoint DEF Others
    <3> QED
      BY <2>1, <3>1 DEF FreshInv, Quiet
  <2>4. PICK stats : stats = local[p].stats
    OBVIOUS
  <2>5. FreshSoFar(stats, Len(Groups) + 1)
    BY <1>1, <2>1, <2>3, <2>4 DEF UpToDate, ControlOK
  <2>6. Shown(stats) = Shown(Collected)
    BY <2>5, DoneIsShown
  <2>7. Shown(Collected)' = Shown(Collected)
    BY <1>1, <2>1, SameWorld DEF world
  <2>8. Shown(cache)' = Shown(Collected)'
    BY <2>1, <2>4, <2>6, <2>7
  <2>9. \A q \in Updaters : pc'[q] = "idle"
    BY <2>2 DEF OneWorker
  <2> QED
    BY <2>8, <2>9 DEF UpToDate
<1> QED
  BY <1>3, <1>4, <1>5 DEF Update

LEMMA FillStep ==
    ASSUME FreshInv, NEW p \in Readers, Fill(p)
    PROVE  FreshInv'
<1>1. ControlOK /\ ControlOK'
  BY FillControl DEF FreshInv
<1>2. p \in Procs /\ p \in Updaters \cup Readers
  BY Disjoint
<1>3. UNCHANGED <<world, queue>> /\ Others(p)
  <2>1. CASE BeginFill(p)
    <3>1. PICK value : value = [stats |-> NoStats, next |-> 1]
      OBVIOUS
    <3>2. UNCHANGED <<world, queue>> /\ Continue(p, "collect", value)
      BY <2>1, <3>1 DEF BeginFill, BeginCollection
    <3>3. "collect" \in Steps
      BY DEF Steps
    <3> QED
      BY <1>1, <1>2, <3>2, <3>3, ContinueDoes DEF Others
  <2>2. CASE CollectGroup(p)
    BY <1>1, <1>2, <2>2, GroupStep
  <2>3. CASE StoreFill(p)
    <3>1. UNCHANGED <<world, queue>> /\ Continue(p, "idle", local[p])
      BY <2>3 DEF StoreFill, Goto
    <3> QED
      BY <1>1, <1>2, <3>1, ContinueDoes DEF Steps, Others
  <2> QED
    BY <2>1, <2>2, <2>3 DEF Fill
<1>4. Shown(Collected)' = Shown(Collected)
  BY <1>1, <1>3, SameWorld DEF world
<1>5. \A q \in Changers \cup Updaters : pc'[q] = pc[q] /\ local'[q] = local[q]
  BY <1>3, Disjoint DEF Others
<1> SUFFICES ASSUME Quiet' PROVE UpToDate'
  BY <1>1 DEF FreshInv
<1>6. UpToDate
  BY <1>3, <1>5 DEF FreshInv, Quiet
<1>7. UNCHANGED <<cache, filled>> \/ filled' = TRUE
  BY GroupStep, <1>1, <1>2 DEF Fill, BeginFill, StoreFill
<1>8. CASE UNCHANGED <<cache, filled>>
  BY <1>4, <1>5, <1>6, <1>8, UpToDateKept
<1>9. CASE filled' = TRUE
  BY <1>4, <1>5, <1>6, <1>9, WorkersKept DEF UpToDate
<1> QED
  BY <1>7, <1>8, <1>9

LEMMA ChangeStep ==
    ASSUME FreshInv, NEW p \in Changers, StartChange(p) \/ StepChange(p)
    PROVE  FreshInv'
<1>0. p \in Procs /\ ControlOK
  BY Disjoint DEF FreshInv
<1>1. CASE StepChange(p)
  BY <1>0, <1>1, StepChangeStep DEF FreshInv
<1>2. CASE StartChange(p)
  <2>1. /\ ControlOK' /\ Others(p) /\ UNCHANGED <<queue, cache, filled>>
        /\ \/ pc'[p] # "idle"
           \/ pc[p] = "idle" /\ UNCHANGED <<stage, note, files, links>>
    BY <1>0, <1>2, StartChangeStep
  <2> SUFFICES ASSUME Quiet' PROVE UpToDate'
    BY <2>1 DEF FreshInv
  <2>2. pc[p] = "idle" /\ UNCHANGED <<stage, note, files, links>>
    BY <2>1 DEF Quiet
  <2>3. Quiet
    BY <2>1, <2>2, Disjoint DEF Quiet, Others
  <2>4. Shown(Collected)' = Shown(Collected)
    BY <1>0, <2>1, <2>2, SameWorld
  <2>5. \A q \in Updaters : pc'[q] = pc[q] /\ local'[q] = local[q]
    BY <2>1, Disjoint DEF Others
  <2> QED
    BY <2>1, <2>3, <2>4, <2>5, UpToDateKept DEF FreshInv
<1> QED
  BY <1>1, <1>2

\* Cleared statistics are collected anew by whoever asks for them.
LEMMA ClearStep ==
    ASSUME FreshInv, Clear
    PROVE  FreshInv'
<1>1. /\ UNCHANGED <<stage, note, keep, files, links, queue, pc, local>>
      /\ cache' = Nil
  BY DEF Clear, world, control
<1>2. ControlOK'
  BY <1>1 DEF FreshInv, ControlOK
<1>3. Shown(Collected)' = Shown(Collected)
  BY <1>1, <1>2, SameWorld DEF FreshInv
<1>4. Quiet' => UpToDate
  BY <1>1 DEF FreshInv, Quiet
<1>5. UpToDate => UpToDate'
  BY <1>1, <1>3, WorkersKept DEF UpToDate
<1> QED
  BY <1>2, <1>4, <1>5 DEF FreshInv

LEMMA FreshInvInit == Init => FreshInv
<1> SUFFICES ASSUME Init PROVE FreshInv
  OBVIOUS
<1>1. ControlOK
  <2>1. /\ queue \in Nat
        /\ note \in [Builds -> Notes \cup {Nil}] /\ keep \in [Builds -> BOOLEAN]
    BY DEF Init
  <2>2. /\ pc = [p \in Procs |-> "idle"] /\ local = [p \in Procs |-> Nil]
    BY DEF Init
  <2>3. \A p \in Procs : pc[p] = "idle"
    BY <2>2
  <2>4. local = [p \in Procs |-> local[p]]
    BY <2>2
  <2>5. pc \in [Procs -> Steps]
    BY <2>2 DEF Steps
  <2> QED
    BY <2>1, <2>3, <2>4, <2>5, Disjoint DEF ControlOK, Steps
<1>2. \A p \in Updaters : pc[p] = "idle"
  BY Disjoint DEF Init
<1>3. cache = Collected
  BY DEF Init
<1> QED
  BY <1>1, <1>2, <1>3 DEF FreshInv, UpToDate

LEMMA FreshInvPreserved ==
    OneWorker /\ FreshInv /\ [Next]_vars => FreshInv'
<1> SUFFICES ASSUME OneWorker, FreshInv, [Next]_vars PROVE FreshInv'
  OBVIOUS
<1>1. ASSUME NEW p \in Changers, StartChange(p) \/ StepChange(p) PROVE FreshInv'
  BY <1>1, ChangeStep
<1>2. ASSUME NEW p \in Updaters, Update(p) PROVE FreshInv'
  BY <1>2, UpdateStep
<1>3. ASSUME NEW p \in Readers, Fill(p) PROVE FreshInv'
  BY <1>3, FillStep
<1>4. CASE Clear
  BY <1>4, ClearStep
<1>5. CASE UNCHANGED vars
  <2>1. UNCHANGED <<stage, note, keep, files, links, queue, cache, filled, pc, local>>
    BY <1>5 DEF vars, world, control
  <2>2. ControlOK'
    BY <2>1 DEF FreshInv, ControlOK
  <2>3. Shown(Collected)' = Shown(Collected)
    BY <2>1, <2>2, SameWorld DEF FreshInv
  <2>4. Quiet' => UpToDate
    BY <2>1 DEF FreshInv, Quiet
  <2> QED
    BY <2>1, <2>2, <2>3, <2>4, UpToDateKept DEF FreshInv
<1> QED
  BY <1>1, <1>2, <1>3, <1>4, <1>5 DEF Next

\* For any number of changers and readers: what one task worker has collected
\* and stored so far shows the builds as they are, unless the event of a change
\* is still to come or to be worked off.
THEOREM FreshInvariant ==
    ASSUME OneWorker
    PROVE  Spec => []FreshInv
<1>1. FreshInv /\ [Next]_vars => FreshInv'
  BY FreshInvPreserved
<1> QED
  BY <1>1, FreshInvInit, PTL DEF Spec

\* So, once everything has come to rest, the cache is what a collection would
\* yield then.
THEOREM FreshWithOneWorker ==
    ASSUME OneWorker
    PROVE  Spec => []FreshAtRest
<1>1. FreshInv => FreshAtRest
  BY DEF FreshInv, UpToDate, Quiet, FreshAtRest, AtRest
<1> QED
  BY <1>1, FreshInvariant, PTL

(***************************************************************************)
(* What pages show at rest                                                 *)
(***************************************************************************)

\* Nothing but the flag is lost.
LEMMA UnkeptIs ==
    ASSUME NEW r, NEW s, Unkept(r) = Unkept(s)
    PROVE  (r = Nil <=> s = Nil) /\ (r # Nil => r.build = s.build)
BY DEF Unkept

\* The machines that have builds
Used == {m \in Machines : RowsOf(m) # {}}

LEMMA UsedIsFinite == IsFiniteSet(Used) /\ Used \subseteq Nat
<1>1. IsFiniteSet(Builds) /\ Used \subseteq Nat
  BY StatisticsAssumption DEF Used
<1>2. IsFiniteSet({MachineOf[b] : b \in Builds})
  BY <1>1, ImageIsFinite
<1>3. Used \subseteq {MachineOf[b] : b \in Builds}
  BY DEF Used, RowsOf
<1> QED
  BY <1>1, <1>2, <1>3, FS_Subset

LEMMA MachineListIs == ToSet(MachineList) = Used
<1> DEFINE count == [m \in Used |-> Cardinality(RowsOf(m))]
           n == Cardinality(Used)
           before(x, y) == \/ count[x] > count[y]
                           \/ count[x] = count[y] /\ x < y
           R == {p \in Used \X Used : before(p[1], p[2])}
           fits(s) == \A i, j \in 1..n : i < j => s[i] # s[j] /\ ~before(s[j], s[i])
<1>1. IsFiniteSet(Used) /\ Used \subseteq Nat
  BY UsedIsFinite
<1>2. \A m \in Used : m \in Nat /\ count[m] \in Nat
  <2>1. \A m : IsFiniteSet(RowsOf(m))
    <3>1. \A m : RowsOf(m) \in SUBSET Builds
      BY DEF RowsOf
    <3> QED
      BY <3>1, FS_Subset, StatisticsAssumption
  <2>2. \A m : Cardinality(RowsOf(m)) \in Nat
    BY <2>1, FS_CardinalityType
  <2> QED
    BY <1>1, <2>2
<1>3. MachineList = CHOOSE s \in [1..n -> Used] : fits(s)
  <2>1. DOMAIN count = Used
    OBVIOUS
  <2>2. MachineList = Ranked(count)
    BY DEF MachineList, Used
  <2> HIDE DEF count
  <2> QED
    BY <2>1, <2>2 DEF Ranked, Sorted
<1> HIDE DEF count
<1>4. \A x, y \in Used : <<x, y>> \in R <=> before(x, y)
  OBVIOUS
<1>5. StrictOrder(Used, R)
  <2>1. \A x \in Used : ~before(x, x)
    BY <1>2
  <2>2. \A x, y, z \in Used : before(x, y) /\ before(y, z) => before(x, z)
    BY <1>2
  <2> HIDE DEF R, before
  <2> QED
    BY <1>4, <2>1, <2>2 DEF StrictOrder
<1> HIDE DEF R, before
<1>6. PICK t : InOrder(t, Used, R)
  BY <1>1, <1>5, OrderExists
<1>7. t \in [1..n -> Used]
  BY <1>6 DEF InOrder
<1>8. \A s \in [1..n -> Used] : fits(s) <=> InOrder(s, Used, R)
  BY <1>4 DEF InOrder
<1> HIDE DEF fits, n
<1>9. InOrder(MachineList, Used, R)
  BY <1>3, <1>6, <1>7, <1>8
<1> QED
  BY <1>1, <1>9, InOrderHas

\* A machine's latest build
LEMMA LatestIs ==
    ASSUME Typed, NEW m
    PROVE  LatestOf(m) # Nil =>
                /\ LatestOf(m).build \in Builds /\ HasRow(LatestOf(m).build)
                /\ MachineOf[LatestOf(m).build] = m
<1> DEFINE latest == {b \in CompletedOf(m) : \A c \in CompletedOf(m) : c <= b}
           b == CHOOSE x \in latest : TRUE
<1>1. LatestOf(m) = IF latest = {} THEN Nil ELSE Record(b)
  BY DEF LatestOf
<1>2. latest # {} => b \in Builds /\ HasRow(b) /\ MachineOf[b] = m
  BY DEF CompletedOf, RowsOf
<1> HIDE DEF latest, b
<1>3. Record(b).build = b
  BY DEF Record
<1> QED
  BY <1>1, <1>2, <1>3

\* What stored statistics have, if they show what a collection would
LEMMA ShownHas ==
    ASSUME NEW stats, Shown(stats) = Shown(Collected)
    PROVE  /\ MachinesOf(stats) = Used
           /\ \A m \in Used :
                /\ Unkept(stats["latest_build"][m]) = Unkept(LatestOf(m))
                /\ Unkept(stats["latest_published"][m]) = Unkept(LatestPublished(m))
                /\ stats["machine_info"][m].build_count = Cardinality(RowsOf(m))
           /\ \A m \in Used : LatestOf(m) # Nil =>
                Unkept(LatestOf(m)) \in {Unkept(r) : r \in DOMAIN stats["build_packages"]}
<1>1. \A name \in Pieces : ShownPiece(stats, name) = ShownPiece(Collected, name)
  BY DEF Shown
<1>2. /\ ToSet(MachineList) = Used
      /\ ShownPiece(Collected, "machines") = MachineList
      /\ ShownPiece(Collected, "latest_published") =
            [m \in Used |-> Unkept(LatestPublished(m))]
      /\ ShownPiece(Collected, "latest_build") = [m \in Used |-> Unkept(LatestOf(m))]
      /\ ShownPiece(Collected, "machine_info") =
            [m \in Used |-> [builds |-> {Unkept(r) : r \in BuildsOf(m)},
                             build_count |-> Cardinality(RowsOf(m)),
                             published_build |-> PublishedOf(m), tags |-> TagsOf(m)]]
      /\ ShownPiece(Collected, "build_packages") =
            {<<Unkept(r), Metadata(r.build).built>> :
                r \in {LatestOf(m) : m \in Used} \ {Nil}}
  BY ShownIs, MachineListIs DEF ShownFacts
<1>3. MachinesOf(stats) = Used
  <2>1. ShownPiece(stats, "machines") = stats["machines"]
    BY DEF ShownPiece
  <2> QED
    BY <1>1, <1>2, <2>1, PiecesAre DEF MachinesOf
<1>4. ASSUME NEW m \in Used
      PROVE  Unkept(stats["latest_build"][m]) = Unkept(LatestOf(m))
  <2>1. ShownPiece(stats, "latest_build") = [k \in Used |-> Unkept(stats["latest_build"][k])]
    BY <1>3 DEF ShownPiece
  <2>2. [k \in Used |-> Unkept(stats["latest_build"][k])] = [k \in Used |-> Unkept(LatestOf(k))]
    BY <1>1, <1>2, <2>1, PiecesAre
  <2>3. [k \in Used |-> Unkept(stats["latest_build"][k])][m] = [k \in Used |-> Unkept(LatestOf(k))][m]
    BY <2>2
  <2> QED
    BY <2>3
<1>5. ASSUME NEW m \in Used
      PROVE  Unkept(stats["latest_published"][m]) = Unkept(LatestPublished(m))
  <2>1. ShownPiece(stats, "latest_published")
            = [k \in Used |-> Unkept(stats["latest_published"][k])]
    BY <1>3 DEF ShownPiece
  <2>2. [k \in Used |-> Unkept(stats["latest_published"][k])]
            = [k \in Used |-> Unkept(LatestPublished(k))]
    BY <1>1, <1>2, <2>1, PiecesAre
  <2>3. [k \in Used |-> Unkept(stats["latest_published"][k])][m]
            = [k \in Used |-> Unkept(LatestPublished(k))][m]
    BY <2>2
  <2> QED
    BY <2>3
<1>6. ASSUME NEW m \in Used
      PROVE  stats["machine_info"][m].build_count = Cardinality(RowsOf(m))
  <2> DEFINE info == stats["machine_info"]
             mine == [k \in Used |-> [builds |-> {Unkept(r) : r \in info[k].builds},
                                      build_count |-> info[k].build_count,
                                      published_build |-> info[k].published_build,
                                      tags |-> info[k].tags]]
             theirs == [k \in Used |-> [builds |-> {Unkept(r) : r \in BuildsOf(k)},
                                        build_count |-> Cardinality(RowsOf(k)),
                                        published_build |-> PublishedOf(k), tags |-> TagsOf(k)]]
  <2>1. ShownPiece(stats, "machine_info") = mine
    BY <1>3 DEF ShownPiece
  <2>2. mine = theirs
    BY <1>1, <1>2, <2>1, PiecesAre
  <2>3. mine[m].build_count = info[m].build_count /\ theirs[m].build_count = Cardinality(RowsOf(m))
    OBVIOUS
  <2> HIDE DEF mine, theirs
  <2> QED
    BY <2>2, <2>3
<1>7. ASSUME NEW m \in Used, LatestOf(m) # Nil
      PROVE  Unkept(LatestOf(m)) \in {Unkept(r) : r \in DOMAIN stats["build_packages"]}
  <2> DEFINE piece == stats["build_packages"]
             packages == Metadata(LatestOf(m).build).built
  <2>1. ShownPiece(stats, "build_packages") = {<<Unkept(r), piece[r]>> : r \in DOMAIN piece}
    BY DEF ShownPiece
  <2>2. <<Unkept(LatestOf(m)), packages>> \in ShownPiece(Collected, "build_packages")
    BY <1>2, <1>7
  <2>3. <<Unkept(LatestOf(m)), packages>> \in {<<Unkept(r), piece[r]>> : r \in DOMAIN piece}
    BY <1>1, <2>1, <2>2, PiecesAre
  <2> HIDE DEF piece, packages
  <2>4. PICK r \in DOMAIN piece : <<Unkept(LatestOf(m)), packages>> = <<Unkept(r), piece[r]>>
    BY <2>3
  <2> QED
    BY <2>4 DEF piece
<1> QED
  BY <1>3, <1>4, <1>5, <1>6, <1>7

\* The latest builds are those that are published and those that are not.
LEMMA NumbersAddUp ==
    ASSUME Typed, NEW stats, Shown(stats) = Shown(Collected)
    PROVE  LET latest == {stats["latest_build"][m] : m \in Used} \ {Nil} IN
           Cardinality({r \in latest : links[MachineOf[r.build]][""] # r.build})
             + Cardinality({stats["latest_published"][m] : m \in Used} \ {Nil})
             = Cardinality(latest)
<1> DEFINE lb(m) == stats["latest_build"][m]
           lp(m) == stats["latest_published"][m]
           latest == {lb(m) : m \in Used} \ {Nil}
           published == {lp(m) : m \in Used} \ {Nil}
           unpublished == {r \in latest : links[MachineOf[r.build]][""] # r.build}
           L == {m \in Used : LatestOf(m) # Nil}
           P == {m \in L : links[m][""] = LatestOf(m).build}
<1>1. \A m \in L : /\ lb(m) # Nil /\ lb(m).build = LatestOf(m).build
                   /\ LatestOf(m).build \in Builds /\ HasRow(LatestOf(m).build)
                   /\ MachineOf[LatestOf(m).build] = m
  <2> SUFFICES ASSUME NEW m \in L
               PROVE  /\ lb(m) # Nil /\ lb(m).build = LatestOf(m).build
                      /\ LatestOf(m).build \in Builds /\ HasRow(LatestOf(m).build)
                      /\ MachineOf[LatestOf(m).build] = m
    OBVIOUS
  <2>1. Unkept(lb(m)) = Unkept(LatestOf(m))
    BY ShownHas
  <2>2. (lb(m) = Nil <=> LatestOf(m) = Nil) /\ (lb(m) # Nil => lb(m).build = LatestOf(m).build)
    BY <2>1, UnkeptIs
  <2> QED
    BY <2>2, LatestIs
<1>2. \A m \in Used : lb(m) # Nil <=> m \in L
  <2> SUFFICES ASSUME NEW m \in Used PROVE lb(m) # Nil <=> m \in L
    OBVIOUS
  <2>1. Unkept(lb(m)) = Unkept(LatestOf(m))
    BY ShownHas
  <2> QED
    BY <2>1, UnkeptIs
<1>3. \A m \in Used : /\ lp(m) # Nil <=> m \in P
                      /\ m \in P => lp(m).build = LatestOf(m).build
  <2> SUFFICES ASSUME NEW m \in Used
               PROVE  /\ lp(m) # Nil <=> m \in P
                      /\ m \in P => lp(m).build = LatestOf(m).build
    OBVIOUS
  <2>1. Unkept(lp(m)) = Unkept(LatestPublished(m))
    BY ShownHas
  <2>2. /\ lp(m) = Nil <=> LatestPublished(m) = Nil
        /\ lp(m) # Nil => lp(m).build = LatestPublished(m).build
    BY <2>1, UnkeptIs
  <2>3. CASE LatestOf(m) = Nil
    BY <2>2, <2>3 DEF LatestPublished
  <2>4. CASE LatestOf(m) # Nil
    <3> DEFINE b == LatestOf(m).build
    <3>1. b \in Builds /\ HasRow(b) /\ b # Nil
      BY <1>1, <2>4, StatisticsAssumption
    <3> HIDE DEF b
    <3>2. PublishedOf(m) = b <=> links[m][""] = b
      BY <3>1 DEF PublishedOf
    <3>3. LatestPublished(m) = IF links[m][""] = b THEN LatestOf(m) ELSE Nil
      BY <2>4, <3>2 DEF LatestPublished, b
    <3> QED
      BY <2>2, <2>4, <3>3 DEF b
  <2> QED
    BY <2>3, <2>4
<1>4. IsFiniteSet(L) /\ IsFiniteSet(P)
  <2>1. L \subseteq Used /\ P \subseteq Used
    OBVIOUS
  <2> HIDE DEF L, P
  <2> QED
    BY <2>1, UsedIsFinite, FS_Subset
<1> HIDE DEF L
<1>5. L \subseteq Used /\ P \subseteq L
  BY DEF L
<1>6. Cardinality(latest) = Cardinality(L)
  <2> DEFINE f == [m \in L |-> lb(m)]
  <2>1. \A m \in L : lb(m) \in latest
    BY <1>1, <1>5
  <2>2. \A r \in latest : \E m \in L : lb(m) = r
    BY <1>2
  <2>3. \A m, n \in L : lb(m) = lb(n) => m = n
    BY <1>1
  <2> HIDE DEF latest, lb
  <2>4. f \in Bijection(L, latest)
    BY <2>1, <2>2, <2>3 DEF Bijection, Injection, Surjection, IsInjective
  <2> QED
    BY <1>4, <2>4, FS_Bijection DEF ExistsBijection
<1>7. Cardinality(published) = Cardinality(P)
  <2> DEFINE f == [m \in P |-> lp(m)]
  <2>1. \A m \in P : lp(m) \in published
    BY <1>3, <1>5
  <2>2. ASSUME NEW r \in published PROVE \E m \in P : lp(m) = r
    <3>1. PICK m \in Used : lp(m) = r /\ lp(m) # Nil
      OBVIOUS
    <3>2. m \in P
      BY <1>3, <3>1
    <3> HIDE DEF P, lp, published
    <3> QED
      BY <3>1, <3>2
  <2>3. ASSUME NEW m \in P, NEW n \in P, lp(m) = lp(n) PROVE m = n
    <3>1. m \in L /\ n \in L /\ m \in Used /\ n \in Used
      BY <1>5
    <3>2. lp(m).build = LatestOf(m).build /\ lp(n).build = LatestOf(n).build
      BY <1>3, <3>1
    <3>3. MachineOf[LatestOf(m).build] = m /\ MachineOf[LatestOf(n).build] = n
      BY <1>1, <3>1
    <3> HIDE DEF lp, P
    <3> QED
      BY <2>3, <3>2, <3>3
  <2> HIDE DEF published, lp, P
  <2>4. f \in Bijection(P, published)
    BY <2>1, <2>2, <2>3 DEF Bijection, Injection, Surjection, IsInjective
  <2> QED
    BY <1>4, <2>4, FS_Bijection DEF ExistsBijection
<1>8. Cardinality(unpublished) = Cardinality(L \ P)
  <2> DEFINE Q == L \ P
             f == [m \in Q |-> lb(m)]
  <2>1. ASSUME NEW m \in Q PROVE lb(m) \in unpublished
    <3>1. m \in L /\ links[m][""] # LatestOf(m).build
      OBVIOUS
    <3>2. /\ lb(m) # Nil /\ lb(m).build = LatestOf(m).build
          /\ MachineOf[lb(m).build] = m
      BY <1>1, <3>1
    <3>3. lb(m) \in latest
      BY <1>5, <3>1, <3>2
    <3> HIDE DEF latest, lb
    <3> QED
      BY <3>1, <3>2, <3>3
  <2>2. ASSUME NEW r \in unpublished PROVE \E m \in Q : lb(m) = r
    <3>1. PICK m \in Used : lb(m) = r /\ lb(m) # Nil
      OBVIOUS
    <3>2. m \in L /\ lb(m).build = LatestOf(m).build /\ MachineOf[lb(m).build] = m
      BY <1>1, <1>2, <3>1
    <3>3. links[MachineOf[r.build]][""] # r.build
      OBVIOUS
    <3> HIDE DEF lb, unpublished
    <3>4. links[m][""] # LatestOf(m).build
      BY <3>1, <3>2, <3>3
    <3>5. m \in Q
      BY <3>2, <3>4
    <3> HIDE DEF Q
    <3> QED
      BY <3>1, <3>5
  <2>3. ASSUME NEW m \in Q, NEW n \in Q, lb(m) = lb(n) PROVE m = n
    <3>1. m \in L /\ n \in L
      OBVIOUS
    <3>2. MachineOf[lb(m).build] = m /\ MachineOf[lb(n).build] = n
      BY <1>1, <3>1
    <3> HIDE DEF lb, Q
    <3> QED
      BY <2>3, <3>2
  <2>4. IsFiniteSet(Q)
    BY <1>4, FS_Subset
  <2> HIDE DEF unpublished, lb, Q
  <2>5. f \in Bijection(Q, unpublished)
    BY <2>1, <2>2, <2>3 DEF Bijection, Injection, Surjection, IsInjective
  <2>6. Cardinality(unpublished) = Cardinality(Q)
    BY <2>4, <2>5, FS_Bijection DEF ExistsBijection
  <2> QED
    BY <2>6 DEF Q
<1>9. Cardinality(L \ P) + Cardinality(P) = Cardinality(L)
  <2> HIDE DEF P
  <2>1. /\ IsFiniteSet(L \ P)
        /\ Cardinality(L \ P) = Cardinality(L) - Cardinality(L \cap P)
    BY <1>4, FS_Difference
  <2>2. L \cap P = P
    BY <1>5
  <2>3. Cardinality(L) \in Nat /\ Cardinality(P) \in Nat
    BY <1>4, FS_CardinalityType
  <2> QED
    BY <2>1, <2>2, <2>3
<1> HIDE DEF latest, published, unpublished, P
<1>10. Cardinality(unpublished) + Cardinality(published) = Cardinality(latest)
  BY <1>6, <1>7, <1>8, <1>9
<1> QED
  BY <1>10 DEF latest, published, unpublished

\* The dashboard
LEMMA DashboardServes ==
    ASSUME Typed, NEW stats, Shown(stats) = Shown(Collected)
    PROVE  LET page == Dashboard(stats) IN
           IF page = Error THEN TornByKeep(stats)
           ELSE page.unpublished_builds_count + Cardinality(page.latest_published)
                    = Cardinality(page.latest_builds)
<1>1. MachinesOf(stats) = Used
  BY ShownHas
<1>2. TornByKeep(stats)
  <2> SUFFICES ASSUME NEW m \in Used, stats["latest_build"][m] # Nil
               PROVE  Unkept(stats["latest_build"][m])
                        \in {Unkept(r) : r \in DOMAIN stats["build_packages"]}
    BY <1>1 DEF TornByKeep
  <2>1. Unkept(stats["latest_build"][m]) = Unkept(LatestOf(m))
    BY ShownHas
  <2>2. LatestOf(m) # Nil
    BY <2>1, UnkeptIs
  <2> QED
    BY <2>1, <2>2, ShownHas
<1> DEFINE latest == {stats["latest_build"][m] : m \in Used} \ {Nil}
           published == {stats["latest_published"][m] : m \in Used} \ {Nil}
           count == Cardinality({r \in latest : links[MachineOf[r.build]][""] # r.build})
           page == Dashboard(stats)
<1>3. count + Cardinality(published) = Cardinality(latest)
  BY NumbersAddUp
<1>4. page # Error => /\ page.unpublished_builds_count = count
                      /\ page.latest_published = published /\ page.latest_builds = latest
  <2> SUFFICES ASSUME page # Error
               PROVE  /\ page.unpublished_builds_count = count
                      /\ page.latest_published = published /\ page.latest_builds = latest
    OBVIOUS
  <2>1. PICK listed, per_machine, package_count, packages :
            page = [machines |-> listed,
                    builds_per_machine |-> per_machine,
                    package_count |-> package_count,
                    build_packages |-> packages,
                    latest_builds |-> latest,
                    latest_published |-> published,
                    unpublished_builds_count |-> count]
    BY <1>1 DEF Dashboard
  <2> HIDE DEF page, latest, published, count
  <2> QED
    BY <2>1
<1> HIDE DEF page, latest, published, count
<1>5. IF page = Error THEN TornByKeep(stats)
      ELSE page.unpublished_builds_count + Cardinality(page.latest_published)
                = Cardinality(page.latest_builds)
  BY <1>2, <1>3, <1>4
<1> QED
  BY <1>5 DEF page

\* The page of a machine, and its summary
LEMMA MachineServes ==
    ASSUME Typed, NEW stats, Shown(stats) = Shown(Collected), NEW m \in Machines
    PROVE  /\ LatestOf(m) # Nil <=> MachinePage(stats, m) \notin {Error, NotFound}
           /\ BuildsOf(m) # {} => Summary(stats, m) # Error
<1>1. MachinesOf(stats) = Used
  BY ShownHas
<1>2. CASE m \notin Used
  <2>1. RowsOf(m) = {}
    BY <1>2 DEF Used
  <2>2. BuildsOf(m) = {} /\ LatestOf(m) = Nil
    BY <2>1 DEF BuildsOf, LatestOf, CompletedOf
  <2>3. MachinePage(stats, m) = NotFound
    BY <1>1, <1>2 DEF MachinePage
  <2> QED
    BY <2>2, <2>3
<1>3. CASE m \in Used
  <2> DEFINE info == stats["machine_info"][m]
             latest == stats["latest_build"][m]
  <2>1. Unkept(latest) = Unkept(LatestOf(m)) /\ info.build_count = Cardinality(RowsOf(m))
    BY <1>3, ShownHas
  <2>2. latest = Nil <=> LatestOf(m) = Nil
    BY <2>1, UnkeptIs
  <2>3. info.build_count # 0
    <3>1. RowsOf(m) \in SUBSET Builds /\ RowsOf(m) # {}
      BY <1>3 DEF RowsOf, Used
    <3>2. IsFiniteSet(RowsOf(m))
      BY <3>1, FS_Subset, StatisticsAssumption
    <3> QED
      BY <2>1, <3>1, <3>2, FS_EmptySet
  <2>4. MachinePage(stats, m) =
            IF latest = Nil \/ info.build_count = 0 THEN Error
            ELSE [build_count |-> info.build_count, builds |-> info.builds,
                  latest_build |-> latest, published_build |-> info.published_build,
                  recent_packages |-> stats["recent_packages"][m]]
    BY <1>1, <1>3 DEF MachinePage
  <2>5. Summary(stats, m) = [package_count |-> stats["package_counts"][m]]
    BY <1>1, <1>3 DEF Summary
  <2>6. DOMAIN Error = {"status"} /\ DOMAIN NotFound = {"status"}
    BY DEF Error, NotFound
  <2> HIDE DEF info, latest
  <2>7. Summary(stats, m) # Error
    <3>1. "package_count" \in DOMAIN Summary(stats, m)
      BY <2>5
    <3> QED
      BY <2>6, <3>1
  <2>8. latest # Nil => MachinePage(stats, m) \notin {Error, NotFound}
    <3> SUFFICES ASSUME latest # Nil PROVE MachinePage(stats, m) \notin {Error, NotFound}
      OBVIOUS
    <3>1. "build_count" \in DOMAIN MachinePage(stats, m)
      BY <2>3, <2>4
    <3> QED
      BY <2>6, <3>1
  <2>9. latest = Nil => MachinePage(stats, m) = Error
    BY <2>4
  <2> QED
    BY <2>2, <2>7, <2>8, <2>9
<1> QED
  BY <1>2, <1>3

\* With one task worker, what its jobs leave behind serves every page once
\* everything has come to rest.
THEOREM PagesWithOneWorker ==
    ASSUME OneWorker
    PROVE  Spec => []PagesAtRest
<1>1. FreshInv => PagesAtRest
  <2> SUFFICES ASSUME FreshInv, AtRest, cache # Nil, ~filled
               PROVE  /\ LET page == Dashboard(cache) IN
                         IF page = Error THEN TornByKeep(cache)
                         ELSE page.unpublished_builds_count + Cardinality(page.latest_published)
                                = Cardinality(page.latest_builds)
                      /\ \A m \in Machines :
                            /\ LatestOf(m) # Nil <=> MachinePage(cache, m) \notin {Error, NotFound}
                            /\ BuildsOf(m) # {} => Summary(cache, m) # Error
    BY DEF PagesAtRest
  <2>1. Typed
    BY DEF FreshInv, ControlOK, Typed
  <2>2. Shown(cache) = Shown(Collected)
    BY DEF FreshInv, UpToDate, Quiet, AtRest
  <2>3. PICK stats : stats = cache
    OBVIOUS
  <2> QED
    BY <2>1, <2>2, <2>3, DashboardServes, MachineServes
<1> QED
  BY <1>1, FreshInvariant, PTL
=============================================================================
