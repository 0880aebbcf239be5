# Gentoo Build Publisher in TLA+

Gentoo Build Publisher (GBP) pulls finished builds from Jenkins, stores them,
tags and publishes them for Gentoo machines, and deletes them again. It does so
from several processes (task workers, web processes, the command line) over a
file system and a database, without a lock and without a transaction. These
modules say what the processes do to the storage, the records, the cached
statistics, the API keys and Jenkins, step by step, and what holds nevertheless.

Paths below are relative to `src/src/gentoo_build_publisher/`.

## 1. The system

| Component | State | Operations | Modelled |
| --- | --- | --- | --- |
| `BuildPublisher` (`build_publisher.py`) | none of its own | `pull`, `publish`, `tag`, `untag`, `delete`, `save`, `record`, `pulled`, `published`, `tags`, `resolve_tag`, `build_metadata`, `get_packages`, `diff_binpkgs` | what changes state in `Publisher`; names and queries in `Resolution` and `Pages` |
| Storage (`storage.py`, `utils/fs.py`) | five directories per build (one per `Content`), five symlinks per tag, `gbp.json`, a temporary directory | `extract_artifact`, `tag`, `untag`, `delete`, `pulled`, `published`, `resolve_tag`, `get_tags`, `set_metadata` | `Storage`, `Publisher`, `Checks`; not the contents of archives and files |
| Build records (`records/`, Django models) | one row per build: note, keep, completed, built, submitted, logs | `save`, `get`, `delete`, `exists`, `previous`, `next`, `latest`, lists, search, in two implementations | `Records` for `Publisher`; both implementations in `Databases` |
| Tasks (`worker/tasks.py`) | local variables | `pull_build`, `publish_build`, `delete_build`, `update_stats_cache` | `Publisher`; the last one in `Statistics` |
| Worker backends (`worker/`) | queues of Celery, RQ; threads | `run`, `work` | as processes, and the queue of statistics jobs |
| GraphQL mutations (`graphql/mutations.py`) | local variables | `publish`, `pull`, `keepBuild`, `releaseBuild`, `createNote`, `createBuildTag`, `removeBuildTag`; `scheduleBuild`, `createRepo`, `createMachine` | `Publisher`; `Administration` (but not `isRepo` of `scheduleBuild`) |
| GraphQL queries (`graphql/queries.py`, `build.py`, `machine_summary.py`) | none | builds, machines, tags, packages, differences | `Pages` |
| Delete command (`cli/delete.py`) | local variables | check tags, untag, delete | `Publisher` |
| Checks (`checks.py`) | local variables, totals | five checks, one of which creates a directory | `Checks` |
| Stats cache (`stats.py`, `cache.py`, Django `signals.py`) | one cached value | collect in the background after each event, or when nothing is cached; clear | `Statistics`; not sizes, days, sub-caches |
| Event dispatcher (`signals.py`) | handlers by event | `bind`, `unbind`, `emit` | `emit` in `Statistics` |
| API keys (`graphql/utils.py`, `cli/apikey.py`, `records/django_orm.py`) | keys with a last-used time | check and update, create, delete, list | `ApiKeys`, `Administration` |
| Jenkins client (`jenkins/`) | none; Jenkins has the projects | downloads; `create_item`, `make_folder`, `install_plugin`, `schedule_build` | downloads as steps of `Publisher`; the rest in `Jenkins`, `Administration` |
| Machine information (`machines.py`) | none | builds, latest and published build, tags of a machine | `Pages`, `Statistics` |
| Dashboard and views (`django/.../views/`) | none | what is shown of statistics, and where names of builds and tags lead | `Statistics`, `Pages`; not charts and templates |
| Command line, plugins, settings, migrations, test kit | none that others depend on | | no (see "Not modelled") |

**Interaction.** A mutation either acts itself (tags, notes, publishing a build
that has been pulled, changing Jenkins) or hands a task to the worker. A task
calls `BuildPublisher`, which calls Jenkins, storage and records in turn and
emits events. The handler of the events puts another task on the queue, which
collects statistics and stores them in the cache; web processes show what is
cached, and collect statistics themselves if nothing is. Storage and records
know nothing of each other: whatever relates them is the order of the calls in
`BuildPublisher` and the cleanup in `pull_build`. The check command reads both,
and both may change while it does.

**What is hard.** Every operation is a sequence of file-system calls, database
statements or HTTP requests; other processes run between any two of them, any
of them may fail, and a process may die between them. Records, keys and
statistics are written from copies read long before (`pull` holds its copy over
the whole download). A tag is five symlinks, replaced one by one. Cleaning up a
failed pull deletes whatever is there. A tag name and a number after it share
one syntax.

**What makes the components correct.**
- Records and trees: a completed record means complete trees; a build nobody
  works on is complete or absent; a completed build does not change; a build
  goes through the stages of its life in order.
- Tags: its symlinks agree once nobody is at them; only completed builds are
  published; what a tag leads to is there.
- Record edits: what one writer sets, another does not silently undo; both
  databases hold the same, and answer alike where Jenkins' clock follows its
  numbers.
- Statistics: the last collection shows what there is.
- API keys: they work from their creation to their deletion, and no longer.
- Jenkins: when a job is made, the folders it needs are there.
- Checks: they notice what a crash leaves missing (a tree, a record, a
  `gbp.json`), and raise no alarm over pulls. That a tree has lost some of its
  files they do not notice, as they only look whether directories exist.
- Jobs: every one ends.

The full list of hazards, each with its source line and the properties about it,
is in `PROJECT.json`.

## 2. The modules

| Module | Contents |
| --- | --- |
| `Types` | builds, processes, `Nil` |
| `Storage` | `dirs`, `links`, the queries on them, and single steps |
| `Records` | `records`, queries, saving and deleting a row |
| `Publisher` | the processes: `pc`, `job`, an action per step of every operation; the properties |
| `BuildLifecycle` | the abstract specification: the stages of a build |
| `Consistency` | the inductive invariant `Inv` and the assumptions `Orderly`, `WritersApart`, `Separate` |
| `Publication` | the inductive invariants of tags and of published builds, the assumptions `TagsApart`, `OwnTags`, `PublishedIsKept`, `NeverWithdraws`, and the order in which a request goes through its steps |
| `Crashes` | the inductive invariant of what crashes leave of trees and records, and the assumptions `OneStorer`, `StoresApart`, `NothingCutShort` |
| `Refinement` | the mapping from `Publisher` to `BuildLifecycle` |
| `MCPublisher` | instances of the above for TLC |
| `Checks`, `MCChecks` | the check command among the jobs of `Publisher` |
| `Statistics`, `MCStatistics` | statistics, their cache and the events, over `BuildLifecycle` |
| `Ordering` | sorting, and list comprehensions with a condition |
| `Databases` | the tables of Django and the dicts in memory |
| `Resolution` | operations of one client on them; names of builds |
| `Pages`, `MCPages` | queries and pages |
| `ApiKeys` | the table of API keys |
| `Jenkins` | the items on Jenkins and the requests about them |
| `Administration`, `MCAdministration` | web processes that check keys and change Jenkins, and the administrator |
| `ConsistencyProofs` | type correctness of `Publisher`; `Inv` is inductive, and what follows from it, the refinement of `BuildLifecycle` included |
| `PublicationProofs` | tags settle, published builds are complete, and requests advance |
| `CrashProofs` | a completed record means complete trees after crashes as well |
| `ChecksProofs` | the check command does no harm, counts no error beside pulls, and notices if something is missing after a crash |
| `OrderingProofs` | every finite set can be sorted, and by a strict total order in one way only; cardinality and induction |
| `StatisticsProofs` | statistics are fresh at rest, and serve every page |
| `PagesProofs` | saves, both databases, names, queries and the pages that tags lead to |
| `AdministrationProofs` | invariants of `Administration` |

`Publisher` composes `Storage` and `Records`; `Checks` extends `Publisher` with
one more process; `Statistics` takes the life of builds from `BuildLifecycle`,
which `Publisher` implements; `Administration` composes `ApiKeys` and `Jenkins`.

### Publisher

- `dirs[b][c]` is the worth of the directory `<root>/<content>/<machine>.<id>`:
  `"absent"`; `"whole"`; `"partial"` (some files missing, nobody adding any);
  or a process, the one whose `copytree()` is filling it. Every one but
  `"absent"` answers `Path.exists()`. The builds are those of one machine:
  different machines share no path and no row.
- `links[t][c]` is the symlink of tag `t`; tag `""` is the publication. A link
  may name a build whose directory is gone, as in the file system.
- `records[b]` is the row of `b` with `note`, `keep` and `completed`; `submitted`
  and `logs` are in `Databases`. `built` is set together with `completed`, to
  the constant `BuiltAt[b]`.
- `pc[p]` and `job[p]` are the call stack of process `p`, flattened: the next
  step, and the arguments and locals that later steps use. `record` is the
  copy that `pull()` or an edit holds, and `publishing` tells whether the code
  is inside `BuildPublisher.publish()`, outside of `pull_build`'s handler.

The start actions (`PullBuild`, ..., `DeleteCommand`) begin a task, mutation or
command. Each further action is one call that touches storage or records, or a
call to Jenkins:

- `Pull`, `Submit`, `Download`, `Extract`, {`CopyPath`, `RemoveTree`, `Copy`,
  `CopyTree`} per content, `NextTag`, `Metadata`, `Complete`, `GbpJson`:
  `BuildPublisher.pull` from top to bottom. `Copy` is `os.renames()` without a
  previous build (`HasPrevious`) and the beginning of `copytree()` with one.
- `Publish`, `Tag`, {`IsLink`, `Unlink`, `Symlink`} per content: `publish()` and
  `Storage.tag()`.
- `CheckTags`, `Untag`, {`IsSymlink`, `RemoveLink`} per content: the delete
  command and `Storage.untag()`.
- `Delete`, {`DeleteTree`, `DeleteRmtree`} per content: `BuildPublisher.delete`.
- `Edit`, `Save`: the note and keep mutations.
- `Raise`, with `Handler`: an exception. Inside of `pull_build` it leads to the
  cleanup, elsewhere to the end of the job.
- `Crash`: a process dies at any step. Celery and RQ take a task off the queue
  when they begin it, so it is not repeated by itself; that somebody asks again
  is a new job.

`Faults` names the outside calls that may fail: `download` (also the `note` and
`prepull` handlers), `extract` (a truncated archive, a full disk), `copy`,
`metadata`, `gbp.json` (also the `postpull` handlers). A handler of `tagged` that
fails in the tag loop has the same effect as a failing metadata query of a pull
with fewer tags, so it has no fault of its own. Failures that come from other
processes (a directory that appeared, a link that is gone) need no fault: the
actions have them as outcomes. Errors that `shutil.rmtree(ignore_errors=True)`
swallows are not among the faults: a call that comes to its end has removed the
directory, unless another process writes to it.

### BuildLifecycle and Refinement

`BuildLifecycle` is what storage and records promise together: `stage[b]` is
`absent`, `pulling`, `complete` or `deleting`; a build is complete only after it
was pulled; what has begun ends complete or absent (`Settle` is fair). `Stage` in
`Refinement` reads the stage off the row and the trees: no row is `absent` or,
with trees left, `deleting`; a row is `pulling` until it is completed and
`complete` when all trees are whole; a completed row over anything less is
`broken`, which the abstract specification has no step to.

### Checks

`check` is the local state of the command: the check and loop it is in, the
builds and tags that the loop still has to look at (read when the loop began),
what is missing so far, and whether errors and warnings have been counted.
`ListRecords`, `NextRecord`, `ExistsTest`, `Mkdir` are `build_content()`;
`ListContent`, `Orphan` are `orphans()`; `ListTags`, `Target` are
`inconsistent_tags()`; `DirtyTemp` and `ListJsonRecords`, `CorruptGbpJson` the
last two. `json` and `leftover` add to `Publisher` the `gbp.json` files and the
temporary directory, which only checks look at. A pull leaves `gbp.json` valid,
or as it was if the artifact has no package index (`get_packages()` raises
`LookupError`, which is caught), and corrupt if an error or the end of the process
cuts the write short (`JsonAfterWrite`). `during` and `raced` record what
has run meanwhile, `torn` the builds with a tree that a process damaged when it
died; properties use them, no code reads them.

### Statistics

- `stage`, `note`, `keep`, `files` and `links` are the world of builds; changers
  are processes that pull, delete, publish, tag and annotate them, and emit an
  event after each change (`Emit`, with the events that `signals.init()` binds).
  Pulls and deletions are several steps; a pull may fail (`FailPull`), and is
  then deleted.
- `queue` is the number of `update_stats_cache` jobs on the task queue, `cache`
  the value of the key `stats`.
- An updater takes a job (`TakeJob`), collects (`CollectGroup` for each of four
  groups of pieces, in the order of `Stats.collect()`) and stores (`StoreUpdate`).
  A reader that finds nothing cached does the same as `BeginFill`, `StoreFill`
  (`Stats.with_cache()`); `filled` records that it did. `Clear` is `gbp stats clear`.
- `MachinePage`, `Dashboard` and `Summary` are what `views/context.py` and
  `graphql/machine_summary.py` do with the statistics.

### Databases, Resolution, Pages

- `model`, `kept`, `logs` and `note` are Django's four tables; `save()` is a
  statement for each, without a transaction (`SaveRow`, `SaveKept`, `SaveLogs`,
  `SaveNote`). `memory` is the dict of dicts of `records/memory.py`, written with
  the same records. All queries of both are operators with their own code's
  conditions and orders, `previous()` and `next()` included. Memory goes by the
  number of a build; Django goes by `built`, the time stamp `BuiltAt[b]` that
  Jenkins gave the build, which need not follow the numbers, and falls back on
  the numbers for rows without one (`DjangoLatest`). Sorted lists are
  `Sorted` of `Ordering`: a sequence of all members in which none is before an
  earlier one, which is any such sequence where the order leaves ties.
- `Resolution` is one client that pulls (`StartPull`, `Extract`, `CompletePull`),
  edits, tags, untags and deletes (`DeleteRecord`, `DeleteTrees`), and may die
  in between. Links outlive their builds. A tag name is a sequence of tokens;
  `ResolveTag` reads an offset off its end, and recurs on the rest, as
  `resolve_tag()` does; the recursion is a function of how many tokens are
  left. `Untag` does nothing for a name that does not resolve.
- `Pages` has no actions: the fields and queries of the GraphQL API, and the
  pages that take a machine, a tag, a build or a package in their URL.
  `PackagesIn[b]` is what the package index of `b` lists, or `Nil` if its artifact
  has none, which keeps no pull from completing.

### ApiKeys, Jenkins, Administration

- `keys[name]` is the row of the table; `ApiKeyDB.save()` is `get_or_create()`,
  which makes a row with an empty key, and a second statement that fills it.
  `issued`, `revoked` and `excused` are history.
- `items` is what there is on Jenkins, by path: folders and jobs. What Jenkins
  answers is modelled from how the client uses it: a HEAD for
  `project_exists()`, a GET for `is_folder()`, and a POST that fails when the
  parent folder is missing or the name is taken.
- A request (`BeginRequest`) checks its key (`GetApiKey`), saves it with a new
  last-used time (`SaveApiKeyGet`, `SaveApiKey`), makes the folders one by one
  (`HeadFolder`, `CheckFolder`, `PostFolder`), installs the plugin, and makes the
  item (`HeadItem`, `PostItem`), or reads the parameters of a job and schedules a
  build (`GetParameters`, `Schedule`). `HttpFails`: a request is not answered,
  whether it was carried out or not. Meanwhile the administrator creates and
  deletes keys (`CreateAction`, `ListKeys`, `DeleteAction`, `DeleteApiKey`),
  somebody deletes items on Jenkins, and processes die.

### Abstractions

- One query is one step. In `Publisher` this is also so where `exists()` or
  `islink()` is called for five contents in turn; a query of changing parts
  could see a mixture. `Checks` has a step for each content.
- `Publisher` saves a row in one step; that Django writes four tables is in
  `Databases`. In `Resolution`, in turn, the five contents go together.
- What archives and files contain is not modelled; a missing source directory
  in an archive is a `copy` fault. A package is a name. Statistics leave out
  sizes, days and the order of packages, and take the recent packages of all
  builds without a maximum.
- Tag names of `Publisher` are opaque, except that `BadTags` are those that
  `validate_identifier()` refuses; those of `Resolution` have structure.
- `HasPrevious` tells that there is a previous build, not which: its files are
  only read, and a file that is not there any more is copied instead.
- Of time stamps only the order is kept. A build is known by its number.
- `Resolution` starts from rows that this version has completed. Rows that were
  completed before there was a `built` are in no initial state; the branch of
  `latest()` for them is modelled, but not reached.
- The log and the built time of a build are constants (`LogOf`, `BuiltAt`): a
  second pull gets the same from Jenkins.
- Rows of API keys have no id. If a row is deleted and created again between the
  two statements of a `save()`, the code raises `IntegrityError` where `SaveKey`
  overwrites the new row.
- The pieces of statistics that `CollectGroup` reads in one step are not looked
  up with one another by any page, so that it makes no difference to them
  whether a change comes in between.
- `Target` in `Checks` takes `is_symlink()` and `resolve()` together.
- The queue of build tasks is left out: an idle process may begin anything at
  any time.
- Keys are not encrypted; all that is left of encryption is that an empty key
  cannot be decrypted.

## 3. Properties and runs

| Run | Module and instance | Checks | Result |
| --- | --- | --- | --- |
| `Serial` | `MCPublisher`: 2 builds, 2 contents; one worker that does everything, a web process that tags; every fault of `Faults` | `Inv`, `CompletedIsWhole`, `SettledAtRest`, `CompletedIsImmutable`, `FollowsLifecycle`, `ImplementsLifecycle` | hold (384,479 states) |
| `Chaos` | `MCPublisher`: 2 builds, 2 contents; two workers on the same build, one deletes; `copy` faults | `TypeOK`, `JobsEnd` | hold (331,686) |
| `Tagging` | `MCPublisher`: 2 builds, 3 contents, tags `""`, `a` and a refused one; a worker pulls, a web process publishes and unpublishes; every fault before completion | `TagsSettle`, `PublishedIsComplete`, `OnlyFailuresDeleted`, `NoStepBack`; `TagInv`, `PublicationInv` | hold (45,434) |
| `CrashPull` | `MCPublisher`: 1 build, 3 contents, 2 crashes; a worker pulls and publishes, a web process edits | `CompletedIsWhole`; `CrashInv` | hold (412,149) |
| `CrashCopy` | `MCPublisher`: 2 builds, 2 contents, 1 crash | `CompletedIsWhole` | **violated** |
| `LatePublish` | `MCPublisher`: 1 build; worker and web publish; also `gbp.json` faults | `PublishedIsComplete` | **violated** |
| `NoteErased` | `MCPublisher`: 1 build, 1 note, 1 crash | `PullKeepsNote` | **violated** |
| `CheckCommand` | `MCChecks`: 2 builds, contents `BINPKGS` and `AUX`; a worker that publishes and deletes, 1 crash | `CrashesAreNoticed`, `PullsAreNoErrors`, `ChecksLeaveNothing`; `LeavesInv`, `NoErrorsInv` | hold (1,172,895) |
| `Refresh` | `MCStatistics`: 1 machine, 2 builds, 2 changes, 1 clear; a changer, a task worker, a web process | `FreshAtRest`, `PagesAtRest`, `PublicationShown`; `FreshInv` | hold (463,836) |
| `MachinePage` | `MCStatistics`: the same without the clear | `MachinePageRenders` | **violated** |
| `Queries` | `MCPages`: 2 machines, 4 builds, 2 operations, 1 crash; tags `""`, `r`, `r-1` | `BuiltWhenCompleted`, `BackendsAgree`, `ResolvesAsDocumented`, `RedirectsArrive`, `ServesTaggedBuild`, `QueriesFit`, `SavedAsGiven`; `MemoryInv` | hold (365,912) |
| `Requests` | `MCAdministration`: 1 name, 2 keys, 2 web processes, 1 crash; a machine, and a repository that has the name of a folder | `RevokedKeysStayOut`, `OnlyIssuedKeys`, `KeysAreListed`, `FoldersAreMade`, `FailuresAreReported` | hold (2,215,883) |

Builds, records and tags:

- `CompletedIsWhole`: a completed record means complete trees.
- `SettledAtRest`: a build nobody works on is completed and complete, or has
  neither row nor trees: what `gbp check` looks for never stays behind.
- `CompletedIsImmutable`: no step writes a tree of a build that is and stays
  completed.
- `FollowsLifecycle`, `ImplementsLifecycle`: `Publisher` implements
  `BuildLifecycle`, its safety part and, under fairness, all of it.
- `TagsSettle`: the links of a tag agree when nobody is at that tag.
- `PublishedIsComplete`: a published build is completed and complete.
- `OnlyFailuresDeleted`: where nobody deletes on request, the builds deleted are
  those whose pull has failed, which are never completed ones.
- `PullKeepsNote`: a pull without a note leaves the row's note alone.
- `JobsEnd`: every job ends whatever other processes do.
- `NoStepBack`: a job never comes back to a step that it has done: each step
  leads to the next one of a loop, the next content, the next tag, a later phase
  of the request, or into `publish()` for the first time (`Beyond`). With
  finitely many tags this leaves finitely many steps, and is the part of `JobsEnd`
  that needs no fairness.

The check command:

- `CrashesAreNoticed`: when a check that no job ran beside has nothing to say,
  every build is there with each of its trees and a valid `gbp.json`, or not at
  all, and no tag dangles (`LooksSettled`). Its trees are whole as well, but for
  trees that a process damaged when it died (`torn`): the check looks whether
  directories exist and not into them. A `delete_build` that is killed in the first
  `rmtree()` and a publication after it, which takes the trees as they are, leave
  a completed build without some of its files, and a silent check. What the
  property says of such builds is that nothing else is missing.
- `PullsAreNoErrors`: without crashes, a check counts no errors, however many
  pulls run beside it, as long as nobody deletes a build or changes a tag
  meanwhile. Two false alarms are
  possible and excused: a tag that dangled before, and a `gbp.json` read while it
  was being written, as `set_metadata()` writes it in place.
- `ChecksLeaveNothing`: the aux directory that the check makes belongs to a
  build, unless a completed build was deleted meanwhile.

Statistics:

- `FreshAtRest`: when no operation and no job is under way, what the worker's
  last job left in the cache is what a fresh collection gives. It is not claimed
  of what a reader stored: a web process that found nothing cached may store its
  own collection over a newer one, and nothing corrects it before the next
  event. Nor of keep flags, whose change emits no event.
- `PagesAtRest`: then the dashboard is there and its numbers add up, every
  machine with a completed build has a page, and every one with builds a
  summary. Excused is a keep flag changed during the collection: records, keep
  flag included, are the keys that the latest builds are looked up by, so the
  dashboard fails with a `KeyError` until the next event.
- `PublicationShown`: a build that is published is shown so in the end, unless
  something else happens to it or the cache.
- `MachinePageRenders`: the assertion in `Machine.create()`.

Queries and pages:

- `SavedAsGiven`: a `save()` that ends leaves what was saved, whatever an
  interrupted one left before.
- `BuiltWhenCompleted`: rows that this program completes have a built time,
  which the queries order by.
- `BackendsAgree`: between two operations both databases hold the same records,
  and give the same answers as far as the code makes them. They put the
  completed builds of a machine in the same order, and agree about the latest,
  the previous and the next one (`SameOrder`), if Jenkins' clock and Jenkins'
  numbers do (`Chronological`): when the clock is put back, or two builds start
  at the same time, Django's answers, by `built`, differ from those of memory, by
  number. `tests/test_records.py` has such records. What a search in memory
  finds, the tables' search finds too, and the rest are texts with capital
  letters (memory lowers the key only). Not compared: the order of builds in
  progress and of search results, and machines that are left without builds
  (memory lists them).
- `ResolvesAsDocumented`: the docstring of `resolve_tag()`: the nth build since
  a completed one is that with `n` completed builds after the one and up to the
  other, by built time; of builds that were started at the same time one counts,
  as `next()` and `previous()` pass over the others. Starting from a build in
  progress, which has no built time yet, is outside of what the docstring says.
- `RedirectsArrive`, `ServesTaggedBuild`, `QueriesFit`: a tag leads to the page
  of a build that has the tag, its configuration names a link to a build that is
  there, and lists, single records, differences and packages fit together. The
  packages of a completed build can be listed, looked up and compared exactly if
  its artifact had a package index. Without one `packages` is `None`, while
  `packageDetail` and `diff` end in a `LookupError` that nothing handles
  (`Failure`): `QueriesFit` says so of both.
  Tags whose names end in an offset (`r-1`) can be set but not reached, and
  are left out. A build that is published, deleted and pulled again is offered
  before it is complete, as its link has outlived it.

Keys and Jenkins:

- `RevokedKeysStayOut`: a request that begins after its key was deleted is
  refused. Excused are keys that a request was just about to save: it saves the
  row again, and the deleted key works again.
- `OnlyIssuedKeys`: no request is let in with another key.
- `KeysAreListed`: without crashes keys can be listed between requests. (After a
  crash between the two statements of `save()` a row has an empty key, and
  `gbp apikey list` and `create` fail.)
- `FoldersAreMade`, `FailuresAreReported`: for a request that nobody interferes
  with on Jenkins, repeated after any failure; the only exception is that
  something on the way is no folder, as a machine called `repos` is none.

`Inv`, `TagInv`, `PublicationInv`, `CrashInv`, `LeavesInv`, `NoErrorsInv`, `FreshInv`
and `MemoryInv` are the inductive invariants of section 4, checked on instances
that meet the assumptions they are proved under (`LeavesInv` and `NoErrorsInv`
say nothing of the time after a crash).

Deadlock is checked in every run except `Refresh`, `MachinePage` and `Queries`,
where the bound on operations lets the model stop.

**Why these bounds.** A content loop is the same for two contents as for five
except at its ends and in the middle; `N` is 2 or, where a state before and one
after a damaged content matter, 3. Two builds are needed for a previous build to
link from and for a tag that moves between builds; four, of two machines, for
offsets of two and for what one machine's queries may see of another's. Two
processes are needed for every race described here; a third adds no kind of
step. Two crashes let a repeated pull die over what the first one left.
The bounds on behaviour are:

- `Queries`: the clock was put back after build 1, so that some sets of completed
  builds are in the order of their numbers and some are not; build 2 has no package
  index; and there are a log and a search key with capitals. That two builds
  start at the same time is not in the instance, but in the theorems.
- `MaxCrashes`. With two crashes `CrashesAreNoticed` does not hold: a deletion
  and then a pull of the same build that are both cut short leave a row that is
  not completed with an old `gbp.json`.
- `MaxChanges`, `MaxClears`, `MaxOps`: the initial states are any in which
  builds are there or not, published or not, so a few operations
  reach what many would. One machine is enough for `Refresh`, as statistics of
  machines are collected alike and meet only in sums; `MachinePage` and `Queries`
  do not depend on it.
- `MayBeginJob`, `MayBeginCheck` (`Checks`): after a crash, checks and jobs do
  not overlap, as the properties say nothing of checks that do; and no check
  begins after one that a removal raced.
- In the other modules operations start without limit. `Administration` is
  bounded by its keys: each is issued once. `Requests` uses the symmetry of web
  processes and of keys: no definition or property tells them apart.

### What the violated runs show

- `CrashCopy` (`storage.py:112`, `utils/fs.py:60`). `copytree()` creates the
  directory before its files. If the process dies in the copy of the last
  content, all directories exist, the next `pull` extracts nothing, and the row
  is completed over a damaged tree. `CrashPull` is the counterpart: without a
  previous build the trees are renamed into place and this cannot happen.
- `LatePublish` (`worker/tasks.py:46`). Once the row is completed, the `publish`
  mutation publishes the build by itself. If the pull then fails on `gbp.json` or
  in a `postpull` handler, its cleanup deletes the published build and leaves the
  links dangling. `Tagging` has all earlier faults and holds.
- `NoteErased` (`build_publisher.py:193`). `note=None` is saved like any note.
- `MachinePage` (`views/context.py:159`). Statistics list a machine as soon as it
  has a record, also while its first build is being pulled. Its page then fails
  with the assertion that it has a latest build.

### Fairness

- `Publisher`: weak fairness of `Step(p)` for each process: a job that has begun
  is scheduled, and no call blocks for ever (Jenkins requests and RQ jobs have
  timeouts). Nothing obliges a process to begin a job or to crash. `JobsEnd`
  needs it, and `ImplementsLifecycle`, whose abstract fairness of `Settle` it
  implies.
- `Statistics`: weak fairness of `StepChange(p)` (an operation that has begun
  goes on, and emits its event) and of `Update(p)` (task workers work off the
  queue). Readers and `Clear` have none. `PublicationShown` needs it.
- `Checks`, `Resolution` and `Administration` are safety only: they have no
  background work that somebody waits for.

## 4. Proofs

TLAPS checks these theorems for every value of the constants that satisfies the
assumptions of the modules: any numbers of builds, processes, tags, contents,
keys, names, path lengths and crashes.

**Types.** `ConsistencyProofs`: `TypeCorrect == Spec => []TypeOK`.

**Consistency.** The consistency properties do not hold of every deployment: two
workers that pull the same build undo each other's work, and a crash leaves what
it leaves. `ConsistencyProofs` proves them under `Orderly`: no process has died;
no two jobs work on the same build at the same time (jobs that only tag or
publish a build that is there do not count); and the `publish` mutation, which
does not look twice, finds the build it has looked at still there.

- `OrderlyInvariant == Spec /\ []Orderly => []Inv`
- `OrderlyCompletedIsWhole`, `OrderlySettledAtRest`,
  `OrderlyCompletedIsImmutable`: the properties of the run `Serial`
- `SeparateIsOrderly == Separate => (Spec => []Orderly)`. `WritersApart` is a
  deployment in which nobody dies and the processes that pull, edit or delete do
  so for different builds (one worker with one thread, say), while the others
  only tag and publish; it is `Separate` if nobody publishes a build that
  another process writes.

The properties are not inductive: that trees are complete when `Complete` runs
depends on where `pull` has been before. `Inv` adds, for every step, the shape
that the build has while a job is at that step (`Shape`): in the copy loop the
trees before `item` are complete and those after it absent, the row is not
completed and neither is the copy the job holds; in the delete loop the row is
gone and so are the trees before `item`; and so on. Each action takes a shape to
the shape of the next step, or a settled build. Because only one job works on a
build, the steps of others leave its shape alone (lemma `Frame`); a job that
begins finds its build settled (`BeginFrame`); a job that only tags touches
neither trees nor rows (`TagFrame`). TLC checks `Inv` in `Serial`, whose processes
satisfy `Separate`. One consequence of `Shape`: in orderly behaviours `rmtree()`
in `copy_path()` is never needed.

**Refinement.** `OrderlyFollowsLifecycle` of the same module, that is
`Spec /\ []Orderly => FollowsLifecycle`. `Inv` gives the stage of a build at each
step of the job that works on it; a step changes row and trees of that build
only, so each action is a step of `BuildLifecycle` for this build or leaves its
stage alone.

**Tags and publication.** `PublicationProofs`:

- `TagsKeptApartSettle == Spec /\ []TagsApart => []TagsSettle`: as long as nobody
  dies and no two processes are at the links of the same tag, these agree
  whenever nobody is at them, whatever fails. `TagInv` says how far the links
  have got at each step: those before `item` are set, those after it are as they
  were, all alike (`LinkShape`); `TagsInvariant` is that it always holds.
- `OwnTagsSettle`: so it is in a deployment in which no tag is up to two
  processes (`OwnTags`). The invariant is `RequestInv`: a job sets and removes
  only the tags that its request, `publish()` or the delete command gave it.
- `KeptPublishedIsComplete == Spec /\ []Orderly /\ []PublishedIsKept =>
  []PublishedIsComplete`: `PublishedIsKept` says that no completed build is deleted
  while a link of `""` names it or will name it, and `PublicationInv` is that
  what these links name, or are being set to, is completed
  (`PublicationInvariant`); that it is complete then comes from `Inv`.
- `NeverWithdrawnIsComplete`: `NeverWithdraws` is a deployment with one writer
  for a build which deletes nothing on request and can always write
  `gbp.json`. It need not be `Separate`: a web process may publish what the worker
  pulls. It is orderly all the same, as the only builds that go are those
  whose pull has failed (`OnlyFailuresAreDeleted`), and the publish mutation, which
  has found its build pulled, is not about one of these. `LatePublish` shows why
  `gbp.json` must be left out.

- `RequestsAdvance == Spec => NoStepBack`, without any further assumption: a
  process may die, fail and be raced at any step. It rests on `RequestInv`,
  which ties the tag steps to the operations that come to them (`pull_build` goes
  back to its loop over tags, the others end), and on `EntersOnce`: a job that is
  about to enter `publish()` has not entered it before, so that the pull inside of
  `publish()` is the second one at most.

The instance of `Tagging` satisfies `OwnTags` and `NeverWithdraws`; that of
`Serial` satisfies `Separate`.

**Crashes.** `CrashProofs` drops the assumption that nobody dies:

- `CrashesLeaveCompletedWhole == Spec /\ []OneStorer /\ NothingCutShort =>
  []CompletedIsWhole`, after any number of crashes. `OneStorer`: one process at a
  time pulls or deletes a build, and nobody edits the record of a build that is
  being deleted. `NothingCutShort`: no process dies, or fails without a cleanup,
  in `copytree()`, and none dies in a deletion.
- `StoresApartCompletedIsWhole`: so it is in a deployment whose processes use
  different builds or only set and remove tags.

Nothing cleans up after a crash, so the invariant has to say what is left: the
last tree is there only if all of them are, and complete (`InOrder`). This is
what makes `extract_artifact()` right to skip a build all of whose trees exist,
and it holds because the trees are renamed into place in order, a pull that finds
one missing replaces them all from the first on, and the last one is absent until
then. `CrashInv` (`CrashInvariant`) adds the shape of the trees at each step of
the process that stores them (`Storing`), and what its copy of the record is worth
(`Holding`). The exceptions are needed: `CrashCopy` is a `copytree()` that is cut
short, and a deletion goes through the trees in the same order, so that the
last ones are there without the first ones; a pull after it could die in the
loop over the contents with all five there, one of them damaged.

**Checks.** `ChecksProofs`, for `CheckSpec`, that is `Publisher` with the check
command. A step of the check changes nothing of `Publisher` until a build is
deleted during the check (`raced`), which is what lets `Inv` and `TagInv`
be carried over. `LeavesInvariant` and `NoErrorsInvariant` are the inductive ones.

- `ChecksAreHarmless`, under `[]Orderly`: `mkdir()` is only reached for a build
  that the check has seen completed, which still is (`ListsHold`), and by `Inv`
  it has its aux directory. `SeparateChecksAreHarmless`, under `Separate`, where
  being orderly has to be proved only up to the race.
- `PullsRaiseNoAlarm`, under `[]Orderly` and `[]TagsApart`: `FindsNothing` says
  what a check has in hand at each of its steps: paths found missing are those of
  builds in progress, the links of every tag have led to one target, and so on.
  `SeparateChecksRaiseNoAlarm`, under `Separate` and `OwnTags`.
- `OneCrashIsNoticed == CheckSpec /\ []OneJob => [](crashes <= 1 =>
  CrashesAreNoticed)`. `OneJob`: of two jobs for the same build, one only tags it.
  Which step the crash cut off does not matter. `StoresApartCrashIsNoticed`: so it
  is in the deployments of the previous paragraph; the instance of `CheckCommand`
  is one.

Wholeness is proved apart from the rest, by `TornInv`: until a check is raced, a
completed build has its trees and nobody fetches it (`StoredInv`), and a tree
that is not whole is being copied or removed by somebody, or is that of a build
in `torn` (`DamageInv`). It is inductive (`TornInvNext`) because a process that
lives goes on to remove what it has damaged: `copy_path()` ends `rmtree()` before
it copies, and the cleanup of `pull_build` removes a tree whose copy has failed.

For what is missing it is not enough to know what the check has seen
(`Seen`, for a check that no job has interrupted): that the directories of a build
exist, that its record does and that its `gbp.json` is valid must together mean
that the build is complete. Trees and records alone do not, because a pull that dies just
before the record is completed leaves all of them; it is `gbp.json` that tells,
as it is written last. So `NoticedInv` (`NoticedInvariant`) says that a `gbp.json` is
valid only while the record of its build is completed, with three exceptions
(`ValidJson`): the deletion that has still to remove it, the row that a deletion
which was cut short has removed, and the pull after that, which completes the
build or cleans up. It is the last exception that a second crash turns into a
state nobody notices, hence `crashes <= 1`. `Known` is what is known of rows and
trees at each step of a job, whether processes die or not. TLC checked
`NoticedInv` on the instance of `CheckCommand` before it was proved.

**Statistics.** `StatisticsProofs`: `FreshWithOneWorker`, that is
`Spec => []FreshAtRest` for one task worker, and any number of changers and
readers. `FreshInv` says that unless another job is going to come (`Quiet`), the
groups of pieces that the worker has collected so far show the builds as they are
(`FreshSoFar`), and without a worker at it the cache does (`FreshInvariant`). It is
inductive because
a change makes it not `Quiet` until its event has been worked off, and the job
that does so collects from the beginning. Flags that no event announces are
invisible in `Shown` (lemma `KeepHidden`).

`PagesWithOneWorker`, that is `Spec => []PagesAtRest` under the same condition,
needs no further invariant: pages of statistics that show what a fresh collection
shows are there and add up (`DashboardServes`, `MachineServes`), since nothing in
them but the lookup that `TornByKeep` excuses depends on keep flags. That the
numbers of latest, published and unpublished builds add up (`NumbersAddUp`) is
a matter of bijections: a machine has one latest build at most, and a build one
machine. `StatisticsAssumption` asks for finitely many builds.

With two workers TLC finds `FreshAtRest` violated: the older of two collections
is stored last.

**Saves, names and pages.** `PagesProofs`, from `DatabasesAssumption`,
`ResolutionAssumption` and `PagesAssumption`, for any history of one client:

- `ResolutionIsSafe == Spec => []ResolutionInv`. `TablesOK`: rows fit together,
  and a completed build is in storage; `SavingOK`: the tables that the statements of a
  `save()` have written so far have what is being saved; `PullsOK`: what a pull
  holds is a record of a build that is not completed; `StoredOK`: without
  crashes, what is in storage has a row, and the reverse but for pulls;
  `LinksOK`: a machine's tags name builds of that machine.
- `MemoryIsSafe == Spec => []MemoryInv`, which adds `MemoryOK`: the dicts hold what
  the four tables hold together, but for the record that is being saved, and
  under their own machines and numbers.
- `BackendsAnswerAlike`: `BackendsAgree`, crashes included. From `MemoryOK` the
  sets that the two backends sort are the same; that the lists are rests on
  `OrderingProofs`: a finite set has a sorted sequence (`OrderExists`, by
  induction over the size of the set), a strict total order allows one only
  (`OneOrder`), and what `Select` keeps of it is sorted as well (`AtIs`). The
  completed builds of a machine are sorted by their built times in Django and by
  their numbers in memory; if these put them in the same order (`Chronological`),
  both orders are total, and the reverse of the one list is the other. `BuiltAt`
  may be any function: without `Chronological` the theorem claims no order.
- `QueriesAgree`: `QueriesFit`. The latest build of a machine, which one query
  takes from the head of a list and the other from the table, was started at the
  same time in both, because the list has the completed builds in descending
  order of `built`. Any artifacts may be without a package index.
- `CompletedHasBuilt`, `SavesAll`: `BuiltWhenCompleted` and `SavedAsGiven`, crashes
  included.
- `TagsResolve`: `ResolvesAsDocumented`, crashes included, whatever Jenkins' clock
  says. `AdjacentIs` says that `next()` and `previous()` of a completed build return
  one of the nearest time, and `WalkIsNth`, by induction over the number of
  steps, that `n` of them lead to the nth time. The library's induction theorems take an operator as
  parameter; these proofs use `AllNumbers` of `OrderingProofs`, induction for sets of numbers, which
  comes from the well-foundedness of `<`. By the same lemma `Walk` and
  `ResolveTag` meet the equations that define them (`WalkIs`, `ResolvedIs`).
- `PagesAreThere`, `TagsAreServed`: `RedirectsArrive` and `ServesTaggedBuild`. The
  lemma is `ResolvedFits`: whatever a name of any length with any offsets
  resolves to has a row, if what is in storage has.

**Keys and Jenkins.** `AdministrationProofs`, from `ApiKeysAssumption`,
`JenkinsAssumption` and `AdministrationAssumption`:

- `RevokedStayOut`, `OnlyIssuedGetIn`. A key `Belongs` to a name if its row has
  it or a process that will save it has it in hand. `KeysInv` says that what
  belongs to a name was issued, that a key belongs to one name only
  (`OneName`), that what is being deleted belongs to the name it is deleted
  from (`DeletesItsOwn`), and that a revoked key belongs to nobody unless it
  is excused (`RevokedAreGone`). `OneName` is what makes it inductive: otherwise
  deleting a row could leave the key under another name.
- `KeysCanBeListed`: without crashes, a row that has no key is about to get one
  (`RowsAreFilled`), so there is none when all is quiet.
- `FoldersAreThere`, `FailuresReported`: `RequestOK` says, for a request that
  nobody has interfered with, that the folders passed so far are folders, and
  that what its latest HEAD found still holds.

**Only model-checked.** Liveness is out of the prover's reach: `JobsEnd`,
`PublicationShown` and the fair part of `ImplementsLifecycle`. Of the first,
`NoStepBack` is proved, of the last `FollowsLifecycle`; what is left to TLC is
that no step of a job is ever disabled for good, which is about `ENABLED`. Every
other property of the passing runs is stated by a theorem. What the violated
runs show are counterexamples, and need no proof.

## 5. Limits

`CrashesAreNoticed` has no counterpart for several crashes, and `CompletedIsWhole`
none for deletions that are cut short: the code does not guarantee one. Trees
that a killed `rmtree()` or `copytree()` has damaged are taken for trees by
`Storage.pulled()`, by `extract_artifact()` and by the checks. Errors that
`rmtree()` ignores are left out, so what is proved of deletions holds where
files can be removed. In `Statistics` the job that a pull or a deletion runs in
may fail, but `update_stats_cache` does not: that a failing one leaves statistics
stale is shown only by the mutant `TakeJob_Fails`. `Refresh`
has one machine; its theorems are for any number.

### Not modelled

- **Command line** (`cli/`, but for the commands above): it parses arguments,
  calls what is modelled and prints the result.
- **Plugins, settings, dispatcher registration**: loaded once, before anything
  else happens, and not changed.
- **How Celery and RQ keep their jobs**: code of others. That a job is taken
  off the queue once, and may fail, is modelled.
- **Charts, colours, template tags, templates**: presentation, without state.
- **Sub-caches and timeouts of `cache.py`**: nothing in the repository uses
  them; the one value it caches has no timeout.
- **Migrations**: generated. They run while GBP does not.
- **Test kit** (`gbp_testkit/`): fixtures and factories for tests.
