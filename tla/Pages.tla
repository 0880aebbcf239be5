------------------------------- MODULE Pages -------------------------------
(***************************************************************************)
(* What users see of builds and tags: the queries of the GraphQL API       *)
(* (graphql/queries.py, build.py, machine_summary.py), and the pages that  *)
(* take a machine, a tag or a build in their URL (django views).           *)
(***************************************************************************)
EXTENDS Resolution

CONSTANTS PackagesIn, \* PackagesIn[b]: what the package index of b lists, or Nil: a
                      \* pull completes also when the artifact has no index
          Failure     \* an exception that nothing handles

\* The builds whose artifact has a package index
Indexed == {b \in Builds : PackagesIn[b] # Nil}

\* What was removed and what was added between two lists of packages
Changes(old, new) ==
    {[item |-> x, status |-> "REMOVED"] : x \in old \ new}
        \cup {[item |-> x, status |-> "ADDED"] : x \in new \ old}

\* None, and exceptions, are no lists of packages, nor of machines, and no page
\* of a package.
ASSUME PagesAssumption ==
    /\ DOMAIN PackagesIn = Builds /\ NotFound \notin RecordSet
    /\ \A b, c \in Indexed, x \in {Nil, NotFound, Failure} :
            PackagesIn[b] # x /\ Changes(PackagesIn[b], PackagesIn[c]) # x
    /\ \A b \in Indexed : \A x \in PackagesIn[b] : <<b, x>> # NotFound
    /\ Nil # NotFound /\ Failure \notin {Nil, NotFound}
    /\ {} \notin {Nil, NotFound, Failure}
    /\ \A m \in Machines : {m} # Nil

(***************************************************************************)
(* GraphQL                                                                 *)
(***************************************************************************)

\* Query.builds
CompletedBuilds(m) == Select(DjangoForMachine(m), LAMBDA r : r.completed)

\* Query.working
Working ==
    UNION {{r \in ToSet(DjangoForMachine(m)) : ~r.completed} :
                m \in ToSet(DjangoListMachines)}

\* Query.machines, BuildPublisher.machines()
MachinesNamed(names) ==
    Select(DjangoListMachines, LAMBDA m : names = Nil \/ m \in names)

\* Mutant: the first build, completed or not.
LatestBuild_Any(m) == FirstOf(DjangoForMachine(m))

\* MachineSummary.latestBuild: MachineInfo.latest_build
LatestBuild(m) == FirstOf(CompletedBuilds(m))

\* MachineSummary.publishedBuild: MachineInfo.published_build, of which there
\* is at most one
PublishedBuild(m) ==
    LET published == {r \in RowsOf(m) : IsPublished(r.build)} IN
    IF published = {} THEN Nil ELSE CHOOSE r \in published : TRUE

\* MachineSummary.tagInfo, and TagInfo.build of each
TagInfo(m) ==
    {[tag |-> name, build |-> ResolveTag(m, name)] :
        name \in UNION {Tags(r.build) : r \in ToSet(DjangoForMachine(m))}}

\* The fields of Build that storage and records have to agree about.
BuildFields(b) ==
    [completed |-> Record(b).completed, built |-> Record(b).built,
     keep |-> Record(b).keep, logs |-> Record(b).logs,
     notes |-> Record(b).note, published |-> IsPublished(b),
     pulled |-> Pulled(b), tags |-> Tags(b)]

\* BuildPublisher.get_packages(): from the index; Nil is LookupError.
GetPackages(b) == IF b \in stored THEN PackagesIn[b] ELSE Nil

\* Build.packages
PackagesOf(b) == IF Pulled(b) THEN GetPackages(b) ELSE Nil

\* Build.packageDetail handles no LookupError.
PackageDetail(b) == IF GetPackages(b) = Nil THEN Failure ELSE GetPackages(b)

\* BuildPublisher.diff_binpkgs(); Nil is LookupError.
DiffBinpkgs(left, right) ==
    IF left = right THEN {}
    ELSE IF Nil \in {GetPackages(left), GetPackages(right)} THEN Nil
    ELSE Changes(GetPackages(left), GetPackages(right))

\* Query.diff: both builds must have records.
Diff(left, right) ==
    IF ~(DjangoExists(left) /\ DjangoExists(right)) THEN NotFound
    ELSE IF DiffBinpkgs(left, right) = Nil THEN Failure ELSE DiffBinpkgs(left, right)

(***************************************************************************)
(* Pages                                                                   *)
(***************************************************************************)

\* get_build_record_or_404()
BuildRecordOr404(b) == IF DjangoExists(b) THEN DjangoGet(b) ELSE NotFound

\* Mutant: the published build is whatever the link names.
ParseTag_AnyLink(m, name) ==
    IF name = Published
    THEN IF links[m][name] = Nil THEN NotFound
         ELSE [build |-> links[m][name], dirname |-> name]
    ELSE LET record == ResolveTag(m, name) IN
         IF record \in {Nil, Invalid} THEN NotFound
         ELSE [build |-> record.build, dirname |-> name]

\* parse_tag_or_raise_404(): the build, and the tag as the name of a link
ParseTag(m, name) ==
    IF name = Published
    THEN IF PublishedBuild(m) = Nil THEN NotFound
         ELSE [build |-> PublishedBuild(m).build, dirname |-> name]
    ELSE LET record == ResolveTag(m, name) IN
         IF record \in {Nil, Invalid} THEN NotFound
         ELSE [build |-> record.build, dirname |-> name]

\* builds/@tag, builds/@tag/logs.txt and builds/@tag/logs redirect to the
\* pages of the build; what the user gets there.
FollowTag(m, name) ==
    LET parsed == ParseTag(m, name) IN
    IF parsed = NotFound THEN NotFound ELSE BuildRecordOr404(parsed.build)

\* BuildView: the page of a build, without its packages.
BuildView(record) ==
    [build |-> record, published |-> IsPublished(record.build),
     tags |-> Tags(record.build)]

\* The page that Package.url leads to, which redirects to the package's file.
Binpkg(b, package) ==
    IF GetPackages(b) = Nil \/ package \notin GetPackages(b) THEN NotFound
    ELSE <<b, package>>

\* repos.conf: Storage.repos() raises FileNotFoundError for a build that is
\* not in storage, which nothing handles.
ReposConf(m, name) ==
    LET parsed == ParseTag(m, name) IN
    IF parsed = NotFound THEN NotFound
    ELSE IF parsed.build \in stored THEN parsed.build ELSE Failure

\* binrepos.conf: the link that it tells machines to download from.
BinreposConf(m, name) ==
    LET parsed == ParseTag(m, name) IN
    IF parsed = NotFound THEN NotFound ELSE <<parsed.dirname>>

(***************************************************************************)
(* Properties                                                              *)
(***************************************************************************)

\* No operation is under way, and none was interrupted.
Undisturbed == pc = "idle" /\ crashes = 0

\* The tags that untag() and the pages take for tags.
Ordinary == {name \in TagNames : ~IsOffset(name)}

\* A page that a tag leads to is there, as whatever resolves has a record;
\* and it is that of a build which the page says has the tag.
RedirectsArrive ==
    Undisturbed => \A m \in Machines, name \in TagNames \cup {<<"@">>} :
        ParseTag(m, name) # NotFound =>
            /\ FollowTag(m, name) # NotFound
            /\ name \in Ordinary =>
                LET page == BuildView(FollowTag(m, name)) IN
                IF name = Published THEN page.published ELSE name \in page.tags

\* The configuration that machines are given for a tag names a link to the
\* tag's build, and the build is there: links that dangle are not offered.
\* Only of a build that is published, then deleted, and pulled again, a row
\* without trees makes a published build too early.
ServesTaggedBuild ==
    crashes = 0 => \A m \in Machines, name \in Ordinary :
        LET parsed == ParseTag(m, name) IN
        parsed # NotFound /\ copies[parsed.build] = Nil =>
            /\ ReposConf(m, name) = parsed.build
            /\ links[m][BinreposConf(m, name)[1]] = parsed.build

\* When the build was started, if there is one
BuiltOf(record) == IF record = Nil THEN {} ELSE {record.built}

\* The queries fit together: a build with a record is listed once, as working
\* or as built; the latest build heads the list of its machine, which is the
\* order of Django's other query, or was started when that one was; the tags
\* that a machine lists for completed builds resolve to them; a completed build
\* has been pulled; and the packages of completed builds can be listed, looked up
\* and compared exactly if there is an index of them.  Without one the list is
\* None, but the details, and a comparison with another build, end in an
\* exception that nothing handles.
QueriesFit ==
    Undisturbed =>
        /\ \A b \in Builds : DjangoExists(b) =>
            /\ MachineOf[b] \in ToSet(MachinesNamed({MachineOf[b]}))
            /\ BuildRecordOr404(b) \in Working
                    <=> BuildRecordOr404(b) \notin ToSet(CompletedBuilds(MachineOf[b]))
            /\ BuildFields(b).completed =>
                /\ BuildFields(b).pulled
                /\ PackagesOf(b) = Nil <=> b \notin Indexed
                /\ PackageDetail(b) = IF b \in Indexed THEN PackagesOf(b) ELSE Failure
                /\ b \in Indexed => \A x \in PackagesOf(b) : Binpkg(b, x) # NotFound
                /\ \A r \in ToSet(CompletedBuilds(MachineOf[b])) :
                    /\ Diff(b, r.build) # NotFound
                    /\ Diff(b, r.build) = Failure
                            <=> b # r.build /\ ~({b, r.build} \subseteq Indexed)
        /\ \A m \in Machines :
            /\ BuiltOf(LatestBuild(m)) = BuiltOf(DjangoLatest(m))
            /\ \A info \in TagInfo(m) : info.tag \in Ordinary =>
                LET b == links[m][info.tag] IN
                Record(b).completed => info.build # Nil /\ info.build.build = b
=============================================================================
