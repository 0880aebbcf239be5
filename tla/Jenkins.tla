------------------------------ MODULE Jenkins ------------------------------
(***************************************************************************)
(* The client of Jenkins (jenkins/__init__.py), as far as it changes what  *)
(* is on Jenkins, one HTTP request at a time: folders, jobs, plugins and   *)
(* scheduled builds.  Downloads are in Publisher.                          *)
(*                                                                         *)
(* What Jenkins does with a request is modelled from how the client uses   *)
(* it: an item has a name that is free, within a folder that exists.       *)
(***************************************************************************)
EXTENDS Naturals, Sequences, FiniteSets, Functions

CONSTANTS ProjectRoot,  \* the project path of JENKINS_BASE_URL
          Machines,     \* names of machines to create
          Repos,        \* names of ebuild repos to create
          Parameters    \* the build parameters of a machine's job

ASSUME JenkinsAssumption == ProjectRoot \in Seq(STRING)

\* ProjectPath: a sequence of names; <<>> is the root of Jenkins.
Root == <<>>
Parent(path) == SubSeq(path, 1, Len(path) - 1)

MachinePath(name) == Append(ProjectRoot, name)
ReposFolder == Append(ProjectRoot, "repos")
RepoPath(name) == Append(ReposFolder, name)

Prefixes(path) == {SubSeq(path, 1, i) : i \in 1..Len(path)}

Paths == Prefixes(ReposFolder) \cup {MachinePath(name) : name \in Machines}
            \cup {RepoPath(name) : name \in Repos}

VARIABLE items        \* a function from the paths on Jenkins to what is there

\* An item: a folder (xml.FOLDER), or a job with the parameters it takes
\* (xml.build_machine(), xml.build_repo()).
FolderItem == [kind |-> "folder", parameters |-> {}]
MachineJob == [kind |-> "job", parameters |-> Parameters]
RepoJob == [kind |-> "job", parameters |-> {}]

JenkinsInit == items = <<>>

(***************************************************************************)
(* Requests                                                                *)
(***************************************************************************)

\* HEAD of the project's URL: project_exists(); the root is always there.
ProjectExists(path) == path = Root \/ path \in DOMAIN items

\* GET config.xml: is_folder(); what is not there is no folder.
IsFolder(path) ==
    path = Root \/ (path \in DOMAIN items /\ items[path].kind = "folder")

\* Only jobs can be built.
IsJob(path) == path \in DOMAIN items /\ items[path].kind = "job"

\* POST createItem: 404 without the parent folder, 400 if the name is taken.
CreateStatus(path) ==
    IF ~IsFolder(Parent(path)) THEN "404"
    ELSE IF ProjectExists(path) THEN "400" ELSE "200"

CreateItem(path, item) ==
    items' = [x \in DOMAIN items \cup {path} |->
                IF x = path THEN item ELSE items[x]]

\* Somebody deletes an item on Jenkins, with all that is in it.
RemoveItem(path) ==
    items' = Restrict(items,
        {x \in DOMAIN items : Len(x) < Len(path) \/ SubSeq(x, 1, Len(path)) # path})

(***************************************************************************)
(* make_folder(path, parents=True, exist_ok=True): the folders to make, in *)
(* order.  The root is never made.                                         *)
(***************************************************************************)
FoldersTo(path) == [i \in 1..Len(path) |-> SubSeq(path, 1, i)]

\* build_params_list() refuses parameters that the job does not have.
ParametersFit(path, params) == params \subseteq items[path].parameters
=============================================================================
