--------------------------- MODULE Administration ---------------------------
(***************************************************************************)
(* Requests that change Jenkins (createMachine, createRepo and             *)
(* scheduleBuild in graphql/mutations.py), each after the check of its API *)
(* key, by web processes that run at the same time; the administrator who  *)
(* creates and deletes keys meanwhile with "gbp apikey", one command after *)
(* the other; and somebody who deletes items on Jenkins.                   *)
(***************************************************************************)
EXTENDS ApiKeys, Jenkins

CONSTANTS Web,          \* web processes
          ApiKeyEnable, \* the setting API_KEY_ENABLE
          Asked,        \* sets of parameters that scheduleBuild is called with
          HttpFaults,   \* whether HTTP requests to Jenkins may fail
          MaxCrashes    \* bound on the number of crashes

ASSUME AdministrationAssumption ==
    /\ ApiKeyEnable \in BOOLEAN /\ HttpFaults \in BOOLEAN
    /\ MaxCrashes \in Nat /\ "admin" \notin Web /\ Nil \notin Web

Procs == Web \cup {"admin"}

VARIABLES
    pc,         \* pc[p]: the step that process p takes next
    local,      \* local[p]: its arguments and local variables
    answer,     \* the answer that the latest step has given, or Nil
    disturbed,  \* web processes during whose request items changed (history)
    crashes     \* the number of crashes so far

vars == <<apiKeys, items, pc, local, answer, disturbed, crashes>>

(***************************************************************************)
(* Control flow                                                            *)
(***************************************************************************)
Continue(p, next, value) ==
    /\ pc' = [pc EXCEPT ![p] = next]
    /\ local' = [local EXCEPT ![p] = value]
    /\ answer' = Nil

Goto(p, next) == Continue(p, next, local[p])

\* "ok"; "error": an Error in the result, or an exit code; "unauthorized";
\* "exception": any other; "failed": Jenkins did not answer; "killed".
Answer(p, value) ==
    /\ pc' = [pc EXCEPT ![p] = "idle"]
    /\ local' = [local EXCEPT ![p] = Nil]
    /\ answer' = value

UnchangedKeys == UNCHANGED apiKeys
UnchangedJenkins ==
    /\ UNCHANGED items
    /\ disturbed' = {q \in disturbed : pc'[q] # "idle"}

\* Process p, or somebody on Jenkins, changes the items there.
Disturb(p) == disturbed' =
    {q \in Web : pc'[q] # "idle" /\ (q \in disturbed \/ (q # p /\ pc[q] # "idle"))}

(***************************************************************************)
(* A request: its API key                                                  *)
(***************************************************************************)
Requests ==
    [op : {"createMachine"}, target : Machines, params : {{}}]
        \cup [op : {"createRepo"}, target : Repos, params : {{}}]
        \cup [op : {"scheduleBuild"}, target : Machines, params : Asked]

\* The path that make_folder() is called with.
FolderOf(op) == IF op = "createRepo" THEN ReposFolder ELSE ProjectRoot

PathOf(j) == IF j.op = "createRepo" THEN RepoPath(j.target) ELSE MachinePath(j.target)

\* The resolver's first step, and what make_folder() has to do.
Resolving(request) ==
    [op |-> request.op, target |-> request.target, params |-> request.params,
     folder |-> 1]

Resolver(j) ==
    IF j.op = "scheduleBuild" THEN "get parameters"
    ELSE IF FolderOf(j.op) = Root THEN "install plugin" ELSE "head folder"

\* The resolver has no use for the key.
Resolve(p) == LET j == local[p] IN Continue(p, Resolver(j.request), Resolving(j.request))

BeginRequest(p, request, name, key) ==
    /\ pc[p] = "idle"
    /\ IF ApiKeyEnable
       THEN /\ pc' = [pc EXCEPT ![p] = "get key"]
            /\ local' = [local EXCEPT ![p] =
                [request |-> request, name |-> LowerName[name], key |-> key,
                 late |-> key \in revoked]]
       ELSE /\ pc' = [pc EXCEPT ![p] = Resolver(request)]
            /\ local' = [local EXCEPT ![p] = Resolving(request)]
    /\ answer' = Nil
    /\ UnchangedKeys /\ UnchangedJenkins /\ UNCHANGED crashes

\* Mutant: the key is not compared.
GetApiKey_AnyKey(p) ==
    LET j == local[p] IN
    /\ pc[p] = "get key"
    /\ IF Readable(j.name) THEN Goto(p, "get_or_create") ELSE Answer(p, "unauthorized")
    /\ UnchangedKeys /\ UnchangedJenkins /\ UNCHANGED crashes

\* require_apikey(): api_keys.get(), and the comparison
GetApiKey(p) ==
    LET j == local[p] IN
    /\ pc[p] = "get key"
    /\ IF Matches(j.name, j.key) THEN Goto(p, "get_or_create")
       ELSE Answer(p, IF KeyExists(j.name) /\ ~Readable(j.name)
                      THEN "exception" ELSE "unauthorized")
    /\ UnchangedKeys /\ UnchangedJenkins /\ UNCHANGED crashes

\* api_keys.save(replace(api_key, last_used=now)), in two statements.  It may
\* be the admin's "apikey create" as well: save_api_key().
SaveApiKeyGet(p) ==
    /\ pc[p] = "get_or_create"
    /\ GetOrCreate(local[p].name)
    /\ Goto(p, "save key")
    /\ UNCHANGED <<issued, revoked, excused, crashes>> /\ UnchangedJenkins

\* Mutant: the command stops before the row is filled in.
SaveApiKey_Not(p) ==
    /\ pc[p] = "save key"
    /\ UNCHANGED keys
    /\ IF p \in Web THEN Resolve(p) ELSE Answer(p, "ok")
    /\ UNCHANGED <<issued, revoked, excused, crashes>> /\ UnchangedJenkins

SaveApiKey(p) ==
    /\ pc[p] = "save key"
    /\ SaveKey(local[p].name, local[p].key, p \in Web)
    /\ IF p \in Web THEN Resolve(p) ELSE Answer(p, "ok")
    /\ UNCHANGED <<issued, revoked, excused, crashes>> /\ UnchangedJenkins

(***************************************************************************)
(* A request: make_folder(), for each folder on the way                    *)
(***************************************************************************)
FolderPath(j) == FoldersTo(FolderOf(j.op))[j.folder]

\* The next folder, or the item itself.
NextFolder(p) ==
    LET j == local[p] IN
    IF j.folder < Len(FolderOf(j.op))
    THEN Continue(p, "head folder", [j EXCEPT !.folder = @ + 1])
    ELSE Goto(p, IF j.op = "createMachine" THEN "install plugin" ELSE "head item")

\* Mutant: parents are not made.
HeadFolder_NoParents(p) ==
    /\ pc[p] = "head folder"
    /\ Continue(p, IF ProjectExists(FolderOf(local[p].op)) THEN "is_folder" ELSE "post folder",
                [local[p] EXCEPT !.folder = Len(FolderOf(local[p].op))])
    /\ UnchangedKeys /\ UnchangedJenkins /\ UNCHANGED crashes

\* create_item(): project_exists()
HeadFolder(p) ==
    /\ pc[p] = "head folder"
    /\ Goto(p, IF ProjectExists(FolderPath(local[p])) THEN "is_folder" ELSE "post folder")
    /\ UnchangedKeys /\ UnchangedJenkins /\ UNCHANGED crashes

\* Mutant: whatever is there is taken for a folder.
CheckFolder_Any(p) ==
    /\ pc[p] = "is_folder"
    /\ NextFolder(p)
    /\ UnchangedKeys /\ UnchangedJenkins /\ UNCHANGED crashes

\* FileExistsError: maybe_raise_folderexists()
CheckFolder(p) ==
    /\ pc[p] = "is_folder"
    /\ IF IsFolder(FolderPath(local[p])) THEN NextFolder(p) ELSE Answer(p, "exception")
    /\ UnchangedKeys /\ UnchangedJenkins /\ UNCHANGED crashes

\* create_item(): POST.  No status but 200 is expected of a folder.
PostFolder(p) ==
    LET path == FolderPath(local[p]) IN
    /\ pc[p] = "post folder"
    /\ IF CreateStatus(path) = "200"
       THEN NextFolder(p) /\ CreateItem(path, FolderItem) /\ Disturb(p)
       ELSE Answer(p, "exception") /\ UnchangedJenkins
    /\ UnchangedKeys /\ UNCHANGED crashes

(***************************************************************************)
(* A request: the item                                                     *)
(***************************************************************************)
InstallPlugin(p) ==
    /\ pc[p] = "install plugin"
    /\ Goto(p, "head item")
    /\ UnchangedKeys /\ UnchangedJenkins /\ UNCHANGED crashes

\* FileExistsError is an Error in the result.
HeadItem(p) ==
    /\ pc[p] = "head item"
    /\ IF ProjectExists(PathOf(local[p])) THEN Answer(p, "error") ELSE Goto(p, "post item")
    /\ UnchangedKeys /\ UnchangedJenkins /\ UNCHANGED crashes

\* FileNotFoundError (404) is an Error in the result, 400 is an exception.
PostItem(p) ==
    LET j == local[p]
        status == CreateStatus(PathOf(j)) IN
    /\ pc[p] = "post item"
    /\ IF status = "200"
       THEN /\ CreateItem(PathOf(j), IF j.op = "createRepo" THEN RepoJob ELSE MachineJob)
            /\ Answer(p, "ok")
            /\ Disturb(p)
       ELSE /\ Answer(p, IF status = "404" THEN "error" ELSE "exception")
            /\ UnchangedJenkins
    /\ UnchangedKeys /\ UNCHANGED crashes

\* get_job_parameters(), build_params_list()
GetParameters(p) ==
    LET path == PathOf(local[p]) IN
    /\ pc[p] = "get parameters"
    /\ IF ProjectExists(path) /\ ParametersFit(path, local[p].params)
       THEN Goto(p, "schedule") ELSE Answer(p, "exception")
    /\ UnchangedKeys /\ UnchangedJenkins /\ UNCHANGED crashes

\* POST to the job; what Jenkins does with it is not followed.
Schedule(p) ==
    /\ pc[p] = "schedule"
    /\ Answer(p, IF IsJob(PathOf(local[p])) THEN "ok" ELSE "exception")
    /\ UnchangedKeys /\ UnchangedJenkins /\ UNCHANGED crashes

HttpSteps == {"head folder", "is_folder", "post folder", "install plugin",
              "head item", "post item", "get parameters", "schedule"}

\* A request to Jenkins fails, or times out; it may have been carried out.
HttpFails(p) ==
    LET j == local[p]
        path == IF pc[p] = "post folder" THEN FolderPath(j) ELSE PathOf(j)
        item == IF pc[p] = "post folder" THEN FolderItem
                ELSE IF j.op = "createRepo" THEN RepoJob ELSE MachineJob IN
    /\ HttpFaults
    /\ pc[p] \in HttpSteps
    /\ Answer(p, "failed")
    /\ \/ UnchangedJenkins
       \/ /\ pc[p] \in {"post folder", "post item"}
          /\ CreateStatus(path) = "200"
          /\ CreateItem(path, item) /\ Disturb(p)
    /\ UnchangedKeys /\ UNCHANGED crashes

(***************************************************************************)
(* gbp apikey                                                              *)
(***************************************************************************)

\* "create": for the name "root" a key is printed, and not stored.
CreateAction(name) ==
    /\ pc["admin"] = "idle"
    /\ name # RootKeyName
    /\ \E key \in Keys \ issued :
         /\ Continue("admin", "list keys", [name |-> LowerName[name], key |-> key])
         /\ issued' = issued \cup {key}
    /\ UNCHANGED <<keys, revoked, excused, crashes>> /\ UnchangedJenkins

\* "if name in [key.name for key in api_keys.list()]", and validate_identifier()
ListKeys ==
    LET name == local["admin"].name IN
    /\ pc["admin"] = "list keys"
    /\ IF ~ListWorks THEN Answer("admin", "exception")
       ELSE IF KeyExists(name) \/ name \in BadNames THEN Answer("admin", "error")
       ELSE Goto("admin", "get_or_create")
    /\ UnchangedKeys /\ UnchangedJenkins /\ UNCHANGED crashes

\* "delete": get_model()
DeleteAction(name) ==
    /\ pc["admin"] = "idle"
    /\ KeyExists(LowerName[name])
    /\ Continue("admin", "delete key",
                [name |-> LowerName[name], key |-> keys[LowerName[name]].key])
    /\ UnchangedKeys /\ UnchangedJenkins /\ UNCHANGED crashes

\* Mutant: the row stays.
DeleteApiKey_Not ==
    /\ pc["admin"] = "delete key"
    /\ UNCHANGED keys
    /\ revoked' = revoked \cup ({local["admin"].key} \cap Keys)
    /\ UNCHANGED excused
    /\ Answer("admin", "ok")
    /\ UNCHANGED <<issued, crashes>> /\ UnchangedJenkins

\* The requests that have read the key and are about to save it again.
Saving(name) == {p \in Web : pc[p] \in {"get_or_create", "save key"}
                                /\ local[p].name = name}

DeleteApiKey ==
    LET name == local["admin"].name IN
    /\ pc["admin"] = "delete key"
    /\ DeleteKey(name)
    /\ revoked' = revoked \cup ({local["admin"].key} \cap Keys)
    /\ excused' = excused \cup {local[p].key : p \in Saving(name)}
    /\ Answer("admin", "ok")
    /\ UNCHANGED <<issued, crashes>> /\ UnchangedJenkins

(***************************************************************************)
(* Others                                                                  *)
(***************************************************************************)

\* A web process or command is killed.
Crash(p) ==
    /\ pc[p] # "idle" /\ crashes < MaxCrashes
    /\ crashes' = crashes + 1
    /\ Answer(p, "killed")
    /\ UnchangedKeys /\ UnchangedJenkins

DeleteOnJenkins(path) ==
    /\ path \in DOMAIN items
    /\ RemoveItem(path)
    /\ answer' = Nil
    /\ UNCHANGED <<apiKeys, pc, local, crashes>>
    /\ Disturb(Nil)

(***************************************************************************)
(* Specification                                                           *)
(***************************************************************************)
Init ==
    /\ ApiKeysInit /\ JenkinsInit
    /\ pc = [p \in Procs |-> "idle"]
    /\ local = [p \in Procs |-> Nil]
    /\ answer = Nil
    /\ disturbed = {} /\ crashes = 0

Step(p) ==
    \/ GetApiKey(p)
    \/ SaveApiKeyGet(p)
    \/ SaveApiKey(p)
    \/ HeadFolder(p)
    \/ CheckFolder(p)
    \/ PostFolder(p)
    \/ InstallPlugin(p)
    \/ HeadItem(p)
    \/ PostItem(p)
    \/ GetParameters(p)
    \/ Schedule(p)
    \/ HttpFails(p)

AdminStep == ListKeys \/ DeleteApiKey \/ SaveApiKeyGet("admin") \/ SaveApiKey("admin")

Next ==
    \/ \E p \in Web, request \in Requests, name \in Names, key \in Keys :
            BeginRequest(p, request, name, key)
    \/ \E p \in Web : Step(p)
    \/ \E name \in Names : CreateAction(name) \/ DeleteAction(name)
    \/ AdminStep
    \/ \E p \in Procs : Crash(p)
    \/ \E path \in Paths : DeleteOnJenkins(path)

Spec == Init /\ [][Next]_vars

(***************************************************************************)
(* Properties                                                              *)
(***************************************************************************)
\* The steps of a request whose key has been accepted.
Accepted == {"get_or_create", "save key"}

\* A key that "gbp apikey delete" has deleted opens the API no more: requests
\* that begin later are refused, unless another request was using the key
\* just then, and so wrote it back.
RevokedKeysStayOut ==
    \A p \in Web : pc[p] \in Accepted /\ local[p].late => local[p].key \in excused

\* A request is only let in with a key that the command has issued.
OnlyIssuedKeys ==
    \A p \in Web : pc[p] \in Accepted => local[p].key \in issued

\* Between two requests or commands every row has its key, so that the keys
\* can be listed, and new ones created: the empty key of get_or_create() is
\* only left behind by a crash.
KeysAreListed == (\A p \in Procs : pc[p] = "idle") /\ crashes = 0 => ListWorks

\* When a request gets to the item itself, the folders on the way to it are
\* there, and are folders, if nobody else has changed anything on Jenkins.
FoldersAreMade ==
    \A p \in Web \ disturbed :
        pc[p] \in {"install plugin", "head item", "post item"} =>
            \A path \in Prefixes(FolderOf(local[p].op)) : IsFolder(path)

\* What a request to create something, with which nobody on Jenkins and no
\* other request interferes, reports as an exception and not as an Error, is
\* only that something on the way is no folder, as long as Jenkins answers.
FailuresAreReported ==
    [][\A p \in Web \ disturbed :
            /\ pc[p] \in HttpSteps /\ local[p].op # "scheduleBuild"
            /\ pc'[p] = "idle" /\ answer' = "exception"
            => \E path \in Prefixes(FolderOf(local[p].op)) :
                    ProjectExists(path) /\ ~IsFolder(path)]_vars
=============================================================================
