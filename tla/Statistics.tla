----------------------------- MODULE Statistics -----------------------------
(***************************************************************************)
(* The statistics that the dashboard shows (stats.py), the cache that      *)
(* holds them (cache.py), and the events that refresh it (signals.py and   *)
(* django's signals.py).                                                   *)
(*                                                                         *)
(* Changers pull, delete, publish, tag and annotate builds and emit an     *)
(* event after each change; the handler of the event puts a job on the     *)
(* task queue; updaters (task workers) take jobs, collect the statistics   *)
(* anew and store them; readers (web processes, "gbp stats") use what is   *)
(* stored, or collect and store it themselves when nothing is.  Collecting *)
(* takes many queries, between which builds change.                        *)
(*                                                                         *)
(* Storage and records are what BuildLifecycle promises of them, with the  *)
(* notes, keep flags and links that statistics include.  A build is known  *)
(* by its number: Jenkins numbers the builds of a machine in order.        *)
(***************************************************************************)
EXTENDS Ordering

CONSTANTS Machines,   \* the machines, by their alphabetical rank
          Builds,     \* the builds, by number
          MachineOf,  \* MachineOf[b]: the machine that b was built for
          Packages,   \* Packages[b]: the packages that were new in b
          TagNames,   \* tag names, "" (published) among them
          Notes,      \* texts of notes
          Nil,        \* Python's None
          Changers, Updaters, Readers,  \* the processes
          MaxChanges, \* bound on the number of operations that change builds
          MaxClears   \* bound on the number of "gbp stats clear"

Procs == Changers \cup Updaters \cup Readers

RecordSet == [build : Builds, note : Notes \cup {Nil}, keep : BOOLEAN,
              completed : BOOLEAN]

ASSUME StatisticsAssumption ==
    /\ Machines \subseteq Nat /\ Builds \subseteq Nat /\ IsFiniteSet(Builds)
    /\ MachineOf \in [Builds -> Machines]
    /\ "" \in TagNames
    /\ Nil \notin Builds /\ Nil \notin Notes /\ Nil \notin RecordSet
    /\ Changers \cap Updaters = {} /\ Readers \cap (Changers \cup Updaters) = {}
    /\ MaxChanges \in Nat /\ MaxClears \in Nat

VARIABLES
    stage,     \* stage[b]: BuildLifecycle's
    note,      \* note[b]: the note of b's row
    keep,      \* keep[b]: the keep flag of b's row
    files,     \* the builds whose package index exists
    links,     \* links[m][t]: the build that tag t of machine m names
    queue,     \* the number of update_stats_cache jobs on the task queue
    cache,     \* the value of the key "stats", or Nil
    filled,    \* whether a reader stored it (history; no code reads it)
    pc,        \* pc[p]: the step that process p takes next
    local,     \* local[p]: its arguments and local variables
    changes,   \* the number of operations so far
    clears     \* the number of clears so far

world == <<stage, note, keep, files, links>>
control == <<pc, local>>
vars == <<world, queue, cache, filled, control, changes, clears>>

Lifecycle == INSTANCE BuildLifecycle

(***************************************************************************)
(* Queries on storage and records                                          *)
(***************************************************************************)
HasRow(b) == stage[b] \in {"pulling", "complete"}

\* BuildRecord; records are compared, and used as keys, with all fields.
Record(b) == [build |-> b, note |-> note[b], keep |-> keep[b],
              completed |-> stage[b] = "complete"]

\* MachineInfo.builds, and the builds whose records these are
RowsOf(m) == {b \in Builds : HasRow(b) /\ MachineOf[b] = m}
BuildsOf(m) == {Record(b) : b \in RowsOf(m)}
CompletedOf(m) == {b \in RowsOf(m) : stage[b] = "complete"}

\* MachineInfo.latest_build: the first completed one of the machine's builds.
LatestOf(m) ==
    LET latest == {b \in CompletedOf(m) : \A c \in CompletedOf(m) : c <= b} IN
    IF latest = {} THEN Nil ELSE Record(CHOOSE b \in latest : TRUE)

\* MachineInfo.published_build
PublishedOf(m) ==
    IF links[m][""] # Nil /\ HasRow(links[m][""]) THEN links[m][""] ELSE Nil

\* MachineInfo.tags
TagsOf(m) == {t \in TagNames \ {""} : links[m][t] # Nil /\ HasRow(links[m][t])}

\* BuildPublisher.build_metadata(), from gbp.json or from the package index,
\* which lists what was new in the build and in those before it.  Of a build
\* that is not completed all packages are taken for built.
Metadata(b) ==
    LET index == UNION {Packages[x] : x \in {y \in Builds :
                            MachineOf[y] = MachineOf[b] /\ y <= b}} IN
    IF b \notin files THEN [total |-> 0, built |-> {}]
    ELSE [total |-> Cardinality(index),
          built |-> IF stage[b] = "complete" THEN Packages[b] ELSE index]

\* MachineInfoDataClass
MachineInfo(m) ==
    [build_count |-> Cardinality(RowsOf(m)), builds |-> BuildsOf(m),
     latest_build |-> LatestOf(m), published_build |-> PublishedOf(m),
     tags |-> TagsOf(m)]

(***************************************************************************)
(* StatsCollector.  Days, sizes and the order of packages are left out:    *)
(* they are functions of the same builds and packages.                     *)
(***************************************************************************)

\* Machines by their number of builds (descending) and name.
Ranked(count) ==
    LET before(m, n) == \/ count[m] > count[n]
                        \/ count[m] = count[n] /\ m < n
    IN  Sorted(DOMAIN count, before)

MachineList ==
    Ranked([m \in {x \in Machines : RowsOf(x) # {}} |-> Cardinality(RowsOf(m))])

Sum(f) == FoldFunction(+, 0, f)

PackageCount(m) == Sum([b \in CompletedOf(m) |-> Metadata(b).total])

RecentPackages(m) == UNION {Metadata(b).built : b \in RowsOf(m)}

\* A function from the record of the latest build to its packages.
BuildPackages(ms) ==
    [r \in {LatestOf(m) : m \in ms} \ {Nil} |-> Metadata(r.build).built]

\* Mutant: any published build will do.
LatestPublished_Any(m) == IF PublishedOf(m) # Nil THEN LatestOf(m) ELSE Nil

LatestPublished(m) ==
    IF LatestOf(m) # Nil /\ PublishedOf(m) = LatestOf(m).build
    THEN LatestOf(m) ELSE Nil

\* Stats.collect() in the order of the code.  Each group of pieces is read in
\* one step; pieces of different groups may be torn by a change in between,
\* those of one group are not looked up with one another.
Groups == <<{"machines"}, {"machine_info", "package_counts", "recent_packages"},
            {"build_packages", "latest_published"}, {"latest_build"}>>

Pieces == UNION ToSet(Groups)

Piece(name, ms) ==
    CASE name = "machines" -> MachineList
      [] name = "machine_info" -> [m \in ms |-> MachineInfo(m)]
      [] name = "package_counts" -> [m \in ms |-> PackageCount(m)]
      [] name = "recent_packages" -> [m \in ms |-> RecentPackages(m)]
      [] name = "build_packages" -> BuildPackages(ms)
      [] name = "latest_published" -> [m \in ms |-> LatestPublished(m)]
      [] name = "latest_build" -> [m \in ms |-> LatestOf(m)]

NoStats == [name \in Pieces |-> <<>>]

\* What a collection yields that no change interrupts.
Collected == [name \in Pieces |-> Piece(name, ToSet(MachineList))]

(***************************************************************************)
(* Control flow                                                            *)
(***************************************************************************)
Continue(p, next, value) ==
    /\ pc' = [pc EXCEPT ![p] = next]
    /\ local' = [local EXCEPT ![p] = IF next = "idle" THEN Nil ELSE value]

Goto(p, next) == Continue(p, next, local[p])

\* signals.init(): the events with background_update_stats_cache() as handler.
Bound == {"note", "postdelete", "postpull", "published", "tagged", "untagged"}

\* The call emit(event) comes next, and then the step "next".
EmitThen(p, b, event, next) ==
    Continue(p, "emit", [build |-> b, event |-> event, next |-> next])

\* Mutant: deletions are not bound.
Emit_NoDelete(p) ==
    /\ pc[p] = "emit"
    /\ queue' = IF local[p].event \in Bound \ {"postdelete"} THEN queue + 1 ELSE queue
    /\ Goto(p, local[p].next)
    /\ UNCHANGED <<world, cache, filled, changes, clears>>

\* dispatcher.emit(), its handler, and worker.run(update_stats_cache)
Emit(p) ==
    /\ pc[p] = "emit"
    /\ queue' = IF local[p].event \in Bound THEN queue + 1 ELSE queue
    /\ Goto(p, local[p].next)
    /\ UNCHANGED <<world, cache, filled, changes, clears>>

(***************************************************************************)
(* Changers: the operations of BuildPublisher, as far as statistics and    *)
(* events are concerned.  No two of them work on one build at one time.    *)
(***************************************************************************)
Change(p) ==
    /\ pc[p] = "idle"
    /\ changes < MaxChanges
    /\ changes' = changes + 1
    /\ UNCHANGED <<queue, cache, filled, clears>>

\* BuildPublisher.pull(): the row; "note" if there is one.
StartPull(p, b) ==
    /\ Change(p)
    /\ Lifecycle!BeginPull(b)
    /\ note' = [note EXCEPT ![b] = Nil]
    /\ keep' = [keep EXCEPT ![b] = FALSE]
    /\ Continue(p, "extract", [build |-> b])
    /\ UNCHANGED <<files, links>>

ExtractFiles(p) ==
    /\ pc[p] = "extract"
    /\ files' = files \cup {local[p].build}
    /\ Goto(p, "complete")
    /\ UNCHANGED <<stage, note, keep, links, queue, cache, filled, changes, clears>>

\* The row is completed; "postpull" follows once gbp.json is written.
CompletePull(p) ==
    /\ pc[p] = "complete"
    /\ Lifecycle!Complete(local[p].build)
    /\ EmitThen(p, local[p].build, "postpull", "idle")
    /\ UNCHANGED <<note, keep, files, links, queue, cache, filled, changes, clears>>

\* A pull fails at some step, before the event at the latest.
FailPull(p) ==
    /\ \/ pc[p] \in {"extract", "complete"}
       \/ pc[p] = "emit" /\ local[p].event = "postpull"
    /\ Continue(p, "delete", [build |-> local[p].build])
    /\ UNCHANGED <<world, queue, cache, filled, changes, clears>>

\* delete_build() or the delete command
StartDelete(p, b) ==
    /\ Change(p)
    /\ stage[b] = "complete"
    /\ \A q \in Changers : pc[q] # "idle" => local[q].build # b
    /\ Continue(p, "delete", [build |-> b])
    /\ UNCHANGED world

\* BuildPublisher.delete(): the row, the files, "postdelete"
DeleteRow(p) ==
    /\ pc[p] = "delete"
    /\ \/ Lifecycle!BeginDelete(local[p].build)
       \/ Lifecycle!Move(local[p].build, "pulling", "deleting")
    /\ Goto(p, "delete files")
    /\ UNCHANGED <<note, keep, files, links, queue, cache, filled, changes, clears>>

DeleteFiles(p) ==
    /\ pc[p] = "delete files"
    /\ Lifecycle!EndDelete(local[p].build)
    /\ files' = files \ {local[p].build}
    /\ EmitThen(p, local[p].build, "postdelete", "idle")
    /\ UNCHANGED <<note, keep, links, queue, cache, filled, changes, clears>>

\* BuildPublisher.publish() of a pulled build, or tag()
SetTag(p, b, t) ==
    LET m == MachineOf[b] IN
    /\ Change(p)
    /\ stage[b] = "complete"
    /\ t = "" => links[m][t] # b
    /\ links' = [links EXCEPT ![m][t] = b]
    /\ EmitThen(p, b, IF t = "" THEN "published" ELSE "tagged", "idle")
    /\ UNCHANGED <<stage, note, keep, files>>

\* BuildPublisher.untag() of a tag that resolves
RemoveTag(p, m, t) ==
    /\ Change(p)
    /\ links[m][t] # Nil /\ stage[links[m][t]] = "complete"
    /\ links' = [links EXCEPT ![m][t] = Nil]
    /\ EmitThen(p, links[m][t], "untagged", "idle")
    /\ UNCHANGED <<stage, note, keep, files>>

\* createNote: save() emits "note" if ChangeState.get() finds a difference.
SetNote(p, b, text) ==
    /\ Change(p)
    /\ stage[b] = "complete"
    /\ note' = [note EXCEPT ![b] = text]
    /\ IF text # note[b] THEN EmitThen(p, b, "note", "idle") ELSE Goto(p, "idle")
    /\ UNCHANGED <<stage, keep, files, links>>

\* keepBuild, releaseBuild: save() without a note emits nothing.
SetKeep(p, b) ==
    /\ Change(p)
    /\ stage[b] = "complete"
    /\ keep' = [keep EXCEPT ![b] = ~@]
    /\ Goto(p, "idle")
    /\ UNCHANGED <<stage, note, files, links>>

StartChange(p) ==
    \/ \E b \in Builds : \/ StartPull(p, b)
                         \/ StartDelete(p, b)
                         \/ \E t \in TagNames : SetTag(p, b, t)
                         \/ \E text \in Notes \cup {Nil} : SetNote(p, b, text)
                         \/ SetKeep(p, b)
    \/ \E m \in Machines, t \in TagNames : RemoveTag(p, m, t)

StepChange(p) ==
    \/ Emit(p)
    \/ ExtractFiles(p)
    \/ CompletePull(p)
    \/ FailPull(p)
    \/ DeleteRow(p)
    \/ DeleteFiles(p)

(***************************************************************************)
(* Collecting and storing                                                  *)
(***************************************************************************)
BeginCollection(p) ==
    Continue(p, "collect", [stats |-> NoStats, next |-> 1])

\* The machines whose pieces p collects: those it found at the beginning.
MachinesOf(stats) == ToSet(stats["machines"])

CollectGroup(p) ==
    LET i == local[p].next
        stats == local[p].stats
        found == [name \in Pieces |-> IF name \in Groups[i]
                                      THEN Piece(name, MachinesOf(stats))
                                      ELSE stats[name]] IN
    /\ pc[p] = "collect"
    /\ Continue(p, IF i = Len(Groups) THEN "store" ELSE "collect",
                [stats |-> found, next |-> i + 1])
    /\ UNCHANGED <<world, queue, cache, filled, changes, clears>>

\* Mutant: the job fails in the worker.
TakeJob_Fails(p) ==
    /\ pc[p] = "idle"
    /\ queue > 0
    /\ queue' = queue - 1
    /\ UNCHANGED <<world, cache, filled, control, changes, clears>>

\* An updater takes a job: update_stats_cache()
TakeJob(p) ==
    /\ pc[p] = "idle"
    /\ queue > 0
    /\ queue' = queue - 1
    /\ BeginCollection(p)
    /\ UNCHANGED <<world, cache, filled, changes, clears>>

\* cache.set("stats", Stats.collect())
StoreUpdate(p) ==
    /\ pc[p] = "store" /\ p \in Updaters
    /\ cache' = local[p].stats
    /\ filled' = FALSE
    /\ Goto(p, "idle")
    /\ UNCHANGED <<world, queue, changes, clears>>

\* Stats.with_cache() when nothing is stored.  A value that is stored is only
\* read (MachinePage).
BeginFill(p) ==
    /\ pc[p] = "idle"
    /\ cache = Nil
    /\ BeginCollection(p)
    /\ UNCHANGED <<world, queue, cache, filled, changes, clears>>

StoreFill(p) ==
    /\ pc[p] = "store" /\ p \in Readers
    /\ cache' = local[p].stats
    /\ filled' = TRUE
    /\ Goto(p, "idle")
    /\ UNCHANGED <<world, queue, changes, clears>>

\* "gbp stats clear"
Clear ==
    /\ clears < MaxClears
    /\ clears' = clears + 1
    /\ cache' = Nil
    /\ filled' = FALSE
    /\ UNCHANGED <<world, queue, control, changes>>

(***************************************************************************)
(* What is shown of the statistics                                         *)
(***************************************************************************)

Error == [status |-> "error"]
NotFound == [status |-> "not found"]

\* MachineSummary.packageCount; a machine that is not listed is a KeyError.
Summary(stats, m) ==
    IF m \in MachinesOf(stats) THEN [package_count |-> stats["package_counts"][m]]
    ELSE Error

\* Machine.create() divides by the number of builds, and asserts that the
\* machine has a latest build.
MachinePage(stats, m) ==
    IF m \notin MachinesOf(stats) THEN NotFound
    ELSE LET info == stats["machine_info"][m]
             latest == stats["latest_build"][m] IN
         IF latest = Nil \/ info.build_count = 0 THEN Error
         ELSE [build_count |-> info.build_count, builds |-> info.builds,
               latest_build |-> latest, published_build |-> info.published_build,
               recent_packages |-> stats["recent_packages"][m]]

\* Dashboard.create().  The number of unpublished builds is not from the
\* statistics but from storage.
Dashboard(stats) ==
    LET ms == MachinesOf(stats)
        latest == {stats["latest_build"][m] : m \in ms} \ {Nil} IN
    IF ~(latest \subseteq DOMAIN stats["build_packages"]) THEN Error
    ELSE [machines |-> stats["machines"],
          builds_per_machine |-> [m \in ms |-> stats["machine_info"][m].build_count],
          package_count |-> Sum(stats["package_counts"]),
          build_packages |->
            [b \in {r.build : r \in latest} |->
                UNION {stats["build_packages"][r] : r \in {x \in latest : x.build = b}}],
          latest_builds |-> latest,
          latest_published |-> {stats["latest_published"][m] : m \in ms} \ {Nil},
          unpublished_builds_count |->
            Cardinality({r \in latest : links[MachineOf[r.build]][""] # r.build})]

(***************************************************************************)
(* Specification                                                           *)
(***************************************************************************)

\* An installation that has run for a while: any builds, published or not,
\* and statistics that are up to date.
Init ==
    /\ stage \in [Builds -> {"absent", "complete"}]
    /\ note = [b \in Builds |-> Nil]
    /\ keep = [b \in Builds |-> FALSE]
    /\ files = {b \in Builds : stage[b] = "complete"}
    /\ links \in [Machines -> [TagNames -> files \cup {Nil}]]
    /\ \A m \in Machines, t \in TagNames :
            links[m][t] # Nil => MachineOf[links[m][t]] = m
    /\ queue = 0
    /\ cache = Collected
    /\ filled = FALSE
    /\ pc = [p \in Procs |-> "idle"]
    /\ local = [p \in Procs |-> Nil]
    /\ changes = 0 /\ clears = 0

Update(p) == TakeJob(p) \/ CollectGroup(p) \/ StoreUpdate(p)

Fill(p) == BeginFill(p) \/ CollectGroup(p) \/ StoreFill(p)

Next ==
    \/ \E p \in Changers : StartChange(p) \/ StepChange(p)
    \/ \E p \in Updaters : Update(p)
    \/ \E p \in Readers : Fill(p)
    \/ Clear

\* Operations that have begun end, and task workers work off the queue.
Fairness ==
    /\ \A p \in Changers : WF_vars(StepChange(p))
    /\ \A p \in Updaters : WF_vars(Update(p))

Spec == Init /\ [][Next]_vars /\ Fairness

(***************************************************************************)
(* Properties                                                              *)
(***************************************************************************)

\* No operation, job or collection is under way.
AtRest == queue = 0 /\ \A p \in Changers \cup Updaters : pc[p] = "idle"

\* A record without its keep flag
Unkept(r) == IF r = Nil THEN <<>> ELSE <<r.build, r.note, r.completed>>

ShownPiece(stats, name) ==
    LET piece == stats[name]
        ms == MachinesOf(stats) IN
    CASE name \in {"machines", "package_counts", "recent_packages"} -> piece
      [] name \in {"latest_published", "latest_build"} -> [m \in ms |-> Unkept(piece[m])]
      [] name = "machine_info" ->
            [m \in ms |-> [builds |-> {Unkept(r) : r \in piece[m].builds},
                           build_count |-> piece[m].build_count,
                           published_build |-> piece[m].published_build,
                           tags |-> piece[m].tags]]
      [] name = "build_packages" -> {<<Unkept(r), piece[r]>> : r \in DOMAIN piece}

Shown(stats) == [name \in Pieces |-> ShownPiece(stats, name)]

\* With one task worker, the statistics that its jobs leave in the cache are
\* those of the builds as they are, however the collections were interrupted:
\* the events of signals.init() cover every change, except of keep flags.
FreshAtRest == AtRest /\ cache # Nil /\ ~filled => Shown(cache) = Shown(Collected)

\* The latest builds whose packages are not found under the record that they
\* have by now are those whose keep flag was changed during the collection.
TornByKeep(stats) ==
    \A m \in MachinesOf(stats) :
        LET latest == stats["latest_build"][m] IN
        latest # Nil => Unkept(latest) \in {Unkept(r) : r \in DOMAIN stats["build_packages"]}

\* At rest, statistics from a job serve every page: the dashboard is there,
\* unless a keep flag was changed during the collection, and its numbers add
\* up, though some come from the cache and one from storage; every machine
\* with a completed build has a page, and every one with builds a summary.
PagesAtRest ==
    AtRest /\ cache # Nil /\ ~filled =>
        /\ LET page == Dashboard(cache) IN
           IF page = Error THEN TornByKeep(cache)
           ELSE page.unpublished_builds_count + Cardinality(page.latest_published)
                    = Cardinality(page.latest_builds)
        /\ \A m \in Machines :
            /\ LatestOf(m) # Nil <=> MachinePage(cache, m) \notin {Error, NotFound}
            /\ BuildsOf(m) # {} => Summary(cache, m) # Error

\* Whoever publishes a build sees it published on the dashboard some time
\* later, unless something else happens to it, or the statistics are cleared
\* or stored by a reader.
PublicationShown ==
    \A m \in Machines, b \in Builds :
        (PublishedOf(m) = b) ~>
            \/ PublishedOf(m) # b
            \/ cache = Nil
            \/ filled
            \/ /\ m \in MachinesOf(cache)
               /\ cache["machine_info"][m].published_build = b

\* "assert latest_build" (Machine.create) holds for whatever is stored.
MachinePageRenders ==
    cache # Nil => \A m \in Machines : MachinePage(cache, m) # Error

(***************************************************************************)
(* Inductive invariant for FreshAtRest                                     *)
(***************************************************************************)

\* There is no change whose event is still to come or to be worked off.
Quiet == queue = 0 /\ \A p \in Changers : pc[p] = "idle"

\* Of stats, the groups before the next one show the builds as they are.
FreshSoFar(stats, next) ==
    \A i \in 1..Len(Groups) : i < next =>
        \A name \in Groups[i] : ShownPiece(stats, name) = ShownPiece(Collected, name)

\* Where processes are: a changer that is at something will emit an event to
\* which a handler is bound.
ControlOK ==
    /\ queue \in Nat
    /\ note \in [Builds -> Notes \cup {Nil}] /\ keep \in [Builds -> BOOLEAN]
    /\ pc \in [Procs -> {"idle", "extract", "complete", "emit", "delete",
                         "delete files", "collect", "store"}]
    /\ local = [p \in Procs |-> local[p]]
    /\ \A p \in Changers :
          /\ pc[p] \notin {"collect", "store"}
          /\ pc[p] = "emit" => local[p].event \in Bound /\ local[p].next = "idle"
    /\ \A p \in Updaters \cup Readers :
          /\ pc[p] \in {"idle", "collect", "store"}
          /\ pc[p] = "collect" => local[p].next \in 1..Len(Groups)
          /\ pc[p] = "store" => local[p].next = Len(Groups) + 1

\* The statistics that a worker has collected so far, and with no worker at
\* it those in the cache, show the builds as they are.
UpToDate ==
    /\ \A p \in Updaters : pc[p] # "idle" =>
            FreshSoFar(local[p].stats, local[p].next)
    /\ (\A p \in Updaters : pc[p] = "idle") /\ cache # Nil /\ ~filled =>
            Shown(cache) = Shown(Collected)

\* They are out of date only as long as another job is going to come.
FreshInv == ControlOK /\ (Quiet => UpToDate)
=============================================================================
