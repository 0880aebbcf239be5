----------------------------- MODULE Resolution -----------------------------
(***************************************************************************)
(* What users name builds by, and what they see of them: tags and          *)
(* relative names (BuildPublisher.resolve_tag), the queries of the GraphQL *)
(* API (graphql/queries.py, build.py) and the pages that lead from a tag   *)
(* to a build (django views), over the databases and the build storage.    *)
(*                                                                         *)
(* One client works at a time, so a query sees storage between two         *)
(* operations; what processes do to each other is in Publisher.  The five  *)
(* content types go together: "stored" are the builds whose trees all      *)
(* exist.  What is left is the unfinished pull, the save and the delete    *)
(* that a crash interrupts, and links that outlive their builds.           *)
(***************************************************************************)
EXTENDS Databases

CONSTANTS TagNames,   \* the tags that users set: sequences of tokens
          Bases,      \* those of which users ask for a build before or after
          Offsets,    \* how far
          Notes,      \* the texts that users write as notes
          Invalid,    \* an InvalidIdentifier exception
          NotFound,   \* an Http404 exception
          MaxOps,     \* bound on the number of operations
          MaxCrashes  \* bound on the number of crashes

(***************************************************************************)
(* A tag name is a sequence of tokens: words, the signs "+", "-" and "@",  *)
(* and numbers.  <<>> is the tag of the published build.                   *)
(***************************************************************************)
Published == <<>>
Signs == {"+", "-"}
ValueOf == [digits \in {"0", "1", "2"} |->
                CASE digits = "0" -> 0 [] digits = "1" -> 1 [] digits = "2" -> 2]
Digits == DOMAIN ValueOf

\* TAGGED_PLUS_OR_MINUS_N.match(tag)
IsOffset(name) ==
    /\ Len(name) >= 2
    /\ name[Len(name)] \in Digits
    /\ name[Len(name) - 1] \in Signs

\* utils.validate_identifier(), as far as signs go; <<>> is never validated.
IsValid(name) == name[1] # "-" /\ ToSet(name) \cap {"+", "@"} = {}

ASSUME ResolutionAssumption ==
    /\ TagNames \subseteq Seq(STRING)
    /\ Published \in TagNames /\ <<"@">> \notin TagNames
    /\ Bases \subseteq TagNames
    /\ \A name \in Bases : ~IsOffset(name) /\ (name = Published \/ IsValid(name))
    /\ Offsets \subseteq Digits /\ Notes \subseteq Texts
    /\ Invalid \notin Builds /\ Invalid \notin RecordSet
    /\ MaxOps \in Nat /\ MaxCrashes \in Nat

VARIABLES
    stored,    \* the builds in storage (Storage.pulled)
    links,     \* links[m][name]: the build that the tag's links name
    copies,    \* copies[b]: the record that an unfinished pull of b holds
    pc,        \* the client's next step
    saving,    \* the record that it saves, or the build that it deletes
    clock,     \* the number of pulls so far, which is the time of the next
    ops,       \* the number of operations so far
    crashes    \* the number of crashes so far

client == <<pc, saving, clock, ops>>
vars == <<databases, stored, links, copies, client, crashes>>

(***************************************************************************)
(* BuildPublisher                                                          *)
(***************************************************************************)

\* BuildPublisher.record()
Record(b) == IF DjangoExists(b) THEN DjangoGet(b) ELSE BuildRecord(b)

Pulled(b) == b \in stored /\ Record(b).completed

\* Storage.published(): also of a link that dangles.
IsPublished(b) == links[MachineOf[b]][Published] = b

\* Storage.get_tags() without the empty one
Tags(b) == {name \in TagNames \ {Published} : links[MachineOf[b]][name] = b}

\* Storage.resolve_tag(); Nil is FileNotFoundError.
StorageResolveTag(m, name) ==
    IF name # Published /\ ~IsValid(name) THEN Invalid
    ELSE IF name \in TagNames /\ links[m][name] \in stored THEN links[m][name]
    ELSE Nil

\* records.next or records.previous
Adjacent(record, sign) ==
    IF sign = "+" THEN DjangoNext(record) ELSE DjangoPrevious(record)

\* "for _ in range(n)": the record before, or after, that one, and so on.
Walk(record, sign, n) ==
    LET reached[i \in 0..n] ==
            IF i = 0 THEN record
            ELSE IF reached[i - 1] = Nil THEN Nil
            ELSE Adjacent(reached[i - 1], sign)
    IN  reached[n]

\* What a name without an offset stands for
Named(m, name) ==
    IF name = <<"@">> THEN DjangoLatest(m)
    ELSE LET b == StorageResolveTag(m, name) IN
         IF b \in {Nil, Invalid} THEN b ELSE Record(b)

\* Mutant: the offset is one too large.
ResolveTag_OffByOne(m, name) ==
    LET resolved[i \in 0..Len(name)] ==
            LET prefix == SubSeq(name, 1, i) IN
            IF ~IsOffset(prefix) THEN Named(m, prefix)
            ELSE LET record == resolved[i - 2] IN
                 IF record \in {Nil, Invalid} THEN record
                 ELSE Walk(record, prefix[i - 1], ValueOf[prefix[i]] + 1)
    IN  resolved[Len(name)]

\* The recursion is over what is left of the name when its offsets are cut
\* off: resolved[i] is what its first i tokens resolve to.
ResolveTag(m, name) ==
    LET resolved[i \in 0..Len(name)] ==
            LET prefix == SubSeq(name, 1, i) IN
            IF ~IsOffset(prefix) THEN Named(m, prefix)
            ELSE LET record == resolved[i - 2] IN
                 IF record \in {Nil, Invalid} THEN record
                 ELSE Walk(record, prefix[i - 1], ValueOf[prefix[i]])
    IN  resolved[Len(name)]

(***************************************************************************)
(* Operations                                                              *)
(***************************************************************************)
Begin(next, value) ==
    /\ pc = "idle" /\ ops < MaxOps
    /\ ops' = ops + 1
    /\ pc' = next
    /\ saving' = value

\* RecordDB.save(record)
BeginSave(record) == Begin("model", record)

\* BuildPublisher.pull(): save(submitted, note)
StartPull(b, text) ==
    LET record == [Record(b) EXCEPT
                     !.submitted = IF @ = Nil THEN clock ELSE @, !.note = text] IN
    /\ copies[b] = Nil /\ ~Pulled(b)
    /\ BeginSave(record)
    /\ copies' = [copies EXCEPT ![b] = record]
    /\ clock' = clock + 1
    /\ UNCHANGED <<databases, stored, links, crashes>>

\* The artifact is extracted: an operation that no query sees half-way.
Extract(b) ==
    /\ pc = "idle" /\ copies[b] # Nil
    /\ b \notin stored
    /\ stored' = stored \cup {b}
    /\ UNCHANGED <<databases, links, copies, client, crashes>>

\* _update_build_metadata(): save(logs, completed, built)
CompletePull(b) ==
    /\ copies[b] # Nil /\ b \in stored
    /\ BeginSave([copies[b] EXCEPT
                     !.logs = LogOf[b], !.completed = TRUE, !.built = BuiltAt[b]])
    /\ copies' = [copies EXCEPT ![b] = Nil]
    /\ UNCHANGED <<databases, stored, links, clock, crashes>>

\* createNote, keepBuild, releaseBuild
EditRecord(b) ==
    /\ DjangoExists(b)
    /\ \/ \E text \in Notes \cup {Nil} : BeginSave([DjangoGet(b) EXCEPT !.note = text])
       \/ \E flag \in BOOLEAN : BeginSave([DjangoGet(b) EXCEPT !.keep = flag])
    /\ UNCHANGED <<databases, stored, links, copies, clock, crashes>>

\* RecordDB.save(), statement after statement
SaveStep(step, next) ==
    /\ pc = step
    /\ pc' = next
    /\ UNCHANGED <<memory, stored, links, copies, saving, clock, ops, crashes>>

SaveRow == SaveStep("model", "kept") /\ SaveModel(saving)
SaveKept == SaveStep("kept", "logs") /\ UpdateKept(saving)
SaveLogs == SaveStep("logs", "note") /\ UpdateLogs(saving)

SaveNote ==
    /\ pc = "note"
    /\ pc' = "idle" /\ saving' = Nil
    /\ UpdateNote(saving)
    /\ MemorySave(saving)
    /\ UNCHANGED <<stored, links, copies, clock, ops, crashes>>

\* BuildPublisher.publish() of a pulled build, and tag()
Tag(b, name) ==
    /\ pc = "idle" /\ ops < MaxOps
    /\ IF name = Published THEN Pulled(b) ELSE b \in stored /\ IsValid(name)
    /\ links' = [links EXCEPT ![MachineOf[b]][name] = b]
    /\ ops' = ops + 1
    /\ UNCHANGED <<databases, stored, copies, pc, saving, clock, crashes>>

\* BuildPublisher.untag(): only if the name resolves, to whatever build.
Untag(m, name) ==
    /\ pc = "idle" /\ ops < MaxOps
    /\ ResolveTag(m, name) \notin {Nil, Invalid}
    /\ links' = [links EXCEPT ![m][name] = Nil]
    /\ ops' = ops + 1
    /\ UNCHANGED <<databases, stored, copies, pc, saving, clock, crashes>>

\* BuildPublisher.delete(): the row, then the trees.  The links stay.  The
\* build that is being pulled is deleted when its pull fails.
DeleteRecord(b) ==
    /\ DjangoExists(b)
    /\ Begin("trees", b)
    /\ copies' = [copies EXCEPT ![b] = Nil]
    /\ DjangoDelete(b)
    /\ MemoryDelete(b)
    /\ UNCHANGED <<stored, links, clock, crashes>>

\* Mutant: the trees stay.
DeleteTrees_Not ==
    /\ pc = "trees"
    /\ pc' = "idle" /\ saving' = Nil
    /\ UNCHANGED <<databases, stored, links, copies, clock, ops, crashes>>

DeleteTrees ==
    /\ pc = "trees"
    /\ pc' = "idle" /\ saving' = Nil
    /\ stored' = stored \ {saving}
    /\ UNCHANGED <<databases, links, copies, clock, ops, crashes>>

\* The client dies, and with it the pulls that it was at.  Memory does not
\* outlive it: the dicts are filled anew with what the tables hold.
Crash ==
    /\ crashes < MaxCrashes
    /\ crashes' = crashes + 1
    /\ pc' = "idle" /\ saving' = Nil
    /\ copies' = [b \in Builds |-> Nil]
    /\ memory' = [m \in {n \in Machines : RowsOf(n) # {}} |->
            [b \in {r.build : r \in RowsOf(m)} |-> ModelRecord(b)]]
    /\ UNCHANGED <<tables, stored, links, clock, ops>>

(***************************************************************************)
(* Specification                                                           *)
(***************************************************************************)

\* An installation in which some builds have been pulled, and each machine
\* has a published build or none, or one that has been deleted since.
Init ==
    /\ \E done \in SUBSET Builds :
            /\ DatabasesInit(done)
            /\ stored = done
            /\ links \in [Machines -> [TagNames -> Builds \cup {Nil}]]
    /\ \A m \in Machines, name \in TagNames :
            links[m][name] # Nil => name = Published /\ MachineOf[links[m][name]] = m
    /\ copies = [b \in Builds |-> Nil]
    /\ pc = "idle" /\ saving = Nil
    /\ clock = 1 /\ ops = 0 /\ crashes = 0

Operation(b) ==
    \/ \E text \in Notes \cup {Nil} : StartPull(b, text)
    \/ Extract(b)
    \/ CompletePull(b)
    \/ EditRecord(b)
    \/ \E name \in TagNames : Tag(b, name)
    \/ DeleteRecord(b)

Next ==
    \/ \E b \in Builds : Operation(b)
    \/ \E m \in Machines, name \in TagNames : Untag(m, name)
    \/ SaveRow
    \/ SaveKept
    \/ SaveLogs
    \/ SaveNote
    \/ DeleteTrees
    \/ Crash

Spec == Init /\ [][Next]_vars

(***************************************************************************)
(* Properties                                                              *)
(***************************************************************************)

\* A save that comes to its end leaves what was saved, whatever an earlier
\* one left behind in the four tables when it was interrupted.
SavedAsGiven ==
    [][\A b \in Builds : SaveNote /\ saving.build = b => DjangoGet(b)' = saving]_vars

\* "Timestamp when the build was completely pulled" and "timestamp when the
\* build started" come together in what this program writes: queries that order
\* by "built" miss no build that it completed, also when a save was interrupted.
\* Rows that were completed before there was a "built", which latest() still
\* has a case for, are in no initial state.
BuiltWhenCompleted ==
    \A b \in Builds : DjangoExists(b) => (model[b].completed <=> model[b].built # Nil)

CompletedOf(m) == Select(DjangoForMachine(m), LAMBDA r : r.completed)

\* The completed builds of a machine
Done(m) == {b \in Builds : MachineOf[b] = m /\ DjangoExists(b) /\ model[b].completed}

\* Jenkins' clock and Jenkins' numbers put these builds in the same order, and
\* no two were started at the same time.
Chronological(m) == \A b, c \in Done(m) : b < c => BuiltAt[b] < BuiltAt[c]

\* Whoever asks for the builds of m one after another gets the same ones.
SameOrder(m) ==
    /\ DjangoLatest(m) = MemoryLatest(m)
    /\ CompletedOf(m) = Select(MemoryForMachine(m), LAMBDA r : r.completed)
    /\ \A r \in RowsOf(m) : /\ DjangoPrevious(r) = MemoryPrevious(r)
                            /\ DjangoNext(r) = MemoryNext(r)

\* Between two operations both implementations of RecordDB hold the same, and
\* a search in memory finds what the tables' search finds but for texts with
\* capital letters; the order of what is found is not the same.  In the order
\* of a machine's builds they agree where clock and numbers do: one goes by
\* "built", the other by the number.  Memory also lists machines whose builds
\* are gone.
BackendsAgree ==
    pc \in {"idle", "trees"} =>
        /\ \A b \in Builds : /\ DjangoExists(b) <=> MemoryExists(b)
                             /\ DjangoGet(b) = MemoryGet(b)
        /\ \A m \in Machines :
            /\ DjangoCount(m) = MemoryCount(m)
            /\ Chronological(m) => SameOrder(m)
            /\ \A key \in Keys, field \in {"note", "logs"} :
                LET found == ToSet(DjangoSearch(m, field, key)) IN
                /\ ToSet(MemorySearch(m, field, key)) \subseteq found
                /\ \A r \in found \ ToSet(MemorySearch(m, field, key)) :
                        Lower[r[field]] # r[field]
        /\ DjangoListMachines =
                Select(MemoryListMachines, LAMBDA m : MemoryCount(m) > 0)

\* Of two times
Beyond(sign, s, t) == IF sign = "+" THEN s > t ELSE s < t

Ahead(sign, b) == {c \in Done(MachineOf[b]) : Beyond(sign, BuiltAt[c], BuiltAt[b])}

TimesOf(S) == {BuiltAt[c] : c \in S}

\* r is the record of a build that was started at the nth time after b, or
\* before b, at which one was that completed; Nil if there are fewer such times.
IsNth(r, b, sign, n) ==
    IF r = Nil THEN Cardinality(TimesOf(Ahead(sign, b))) < n
    ELSE /\ r.build \in Ahead(sign, b) \cup {b} /\ r = Record(r.build)
         /\ Cardinality(TimesOf({c \in Ahead(sign, b) :
                ~Beyond(sign, BuiltAt[c], BuiltAt[r.build])})) = n

\* What the docstring of resolve_tag() says: "@@" is the latest completed
\* build, a tag the build that its links name, and tag+n or tag-n the nth
\* build since or before a completed one; of builds that were started at the
\* same time one counts.
ResolvesAsDocumented ==
    \A m \in Machines :
        /\ LET latest == ResolveTag(m, <<"@">>) IN
           IF Done(m) = {} THEN latest = Nil
           ELSE /\ latest.build \in Done(m) /\ latest = Record(latest.build)
                /\ \A b \in Done(m) : BuiltAt[b] <= BuiltAt[latest.build]
        /\ \A name \in Bases :
            LET b == links[m][name] IN
            IF b \notin stored THEN ResolveTag(m, name) = Nil
            ELSE /\ ResolveTag(m, name) = Record(b)
                 /\ Record(b).completed => \A sign \in Signs, digits \in Offsets :
                        IsNth(ResolveTag(m, name \o <<sign, digits>>), b,
                              sign, ValueOf[digits])

(***************************************************************************)
(* Inductive invariant                                                     *)
(***************************************************************************)

\* Once completed, a build has its built time, and is in storage.  So it is in
\* the records that may be saved, and in the rows.
MayBeSaved(r) ==
    /\ r \in RecordSet /\ r.submitted # Nil
    /\ r.built = IF r.completed THEN BuiltAt[r.build] ELSE Nil
    /\ r.completed => r.build \in stored

TablesOK ==
    /\ model \in [Builds -> RowSet \cup {Nil}] /\ kept \subseteq Builds
    /\ logs \in [Builds -> Texts \cup {Nil}] /\ note \in [Builds -> Texts \cup {Nil}]
    /\ \A b \in Builds : DjangoExists(b) =>
            /\ model[b].built = IF model[b].completed THEN BuiltAt[b] ELSE Nil
            /\ model[b].completed => b \in stored

\* The tables that the statements of save() have written so far have what is
\* being saved.
SavingOK ==
    /\ pc \in {"idle", "model", "kept", "logs", "note", "trees"}
    /\ pc = "trees" => saving \in Builds /\ ~DjangoExists(saving)
    /\ pc \in {"model", "kept", "logs", "note"} => MayBeSaved(saving)
    /\ pc \in {"kept", "logs", "note"} =>
            model[saving.build] = [submitted |-> saving.submitted,
                                   completed |-> saving.completed,
                                   built |-> saving.built]
    /\ pc \in {"logs", "note"} => (saving.build \in kept <=> saving.keep)
    /\ pc = "note" => logs[saving.build] = saving.logs

\* A pull's copy of the record is not completed, and is not of a build that
\* has no row, or is about to have one.
PullsOK ==
    /\ clock \in Nat /\ copies = [b \in Builds |-> copies[b]]
    /\ \A b \in Builds : copies[b] # Nil =>
            /\ MayBeSaved(copies[b]) /\ copies[b].build = b /\ ~copies[b].completed
            /\ \/ DjangoExists(b)
               \/ pc = "model" /\ saving.build = b

LinksOK ==
    /\ links \in [Machines -> [TagNames -> Builds \cup {Nil}]]
    /\ \A m \in Machines, name \in TagNames :
            links[m][name] # Nil =>
                MachineOf[links[m][name]] = m /\ (name = Published \/ IsValid(name))

\* Without crashes, what is in storage has a row, and what has a row and is
\* not being pulled is in storage.
StoredOK ==
    /\ stored \subseteq Builds /\ crashes \in Nat
    /\ crashes = 0 =>
        /\ \A b \in stored : \/ DjangoExists(b)
                             \/ pc = "trees" /\ saving = b
        /\ \A b \in Builds \ stored : DjangoExists(b) => copies[b] # Nil
        /\ pc = "model" /\ copies[saving.build] = Nil => saving.build \in stored

ResolutionInv == TablesOK /\ SavingOK /\ PullsOK /\ LinksOK /\ StoredOK

\* But for the record that is being saved, memory holds what the tables hold.
MemoryOK ==
    /\ DOMAIN memory \subseteq {MachineOf[b] : b \in Builds}
    /\ \A m \in DOMAIN memory : \A b \in DOMAIN memory[m] : b \in Builds /\ MachineOf[b] = m
    /\ \A b \in Builds :
        \/ pc \notin {"idle", "trees"} /\ saving.build = b
        \/ /\ MemoryExists(b) <=> DjangoExists(b)
           /\ MemoryGet(b) = DjangoGet(b)

MemoryInv == ResolutionInv /\ MemoryOK
=============================================================================
