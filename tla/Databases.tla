----------------------------- MODULE Databases -----------------------------
(***************************************************************************)
(* The two implementations of the record database: tables of Django's ORM  *)
(* (records/django_orm.py, models.py) and dicts (records/memory.py).       *)
(*                                                                         *)
(* Both are written with the same records here, so that what they answer   *)
(* can be compared.  Django's save() is four statements, one per table,    *)
(* without a transaction; the dicts change in one step.                    *)
(*                                                                         *)
(* A build is known by its number (int(build_id)), which is what the dicts *)
(* sort by.  The tables sort by "built", the time stamp that Jenkins gave  *)
(* the build; nothing makes the time stamps follow the numbers.            *)
(***************************************************************************)
EXTENDS Ordering

CONSTANTS Machines,   \* machine names, by their alphabetical rank
          Builds,     \* the builds, by number
          MachineOf,  \* MachineOf[b]: the machine that b was built for
          BuiltAt,    \* BuiltAt[b]: when Jenkins says that it started b
          Texts,      \* the texts of notes and logs
          LogOf,      \* LogOf[b]: the text of Jenkins' log of b
          Keys,       \* what users search for
          Containing, \* <<text, key>>: the text contains the key
          Lower,      \* Lower[text]: the text, or the key, in lower case
          Nil         \* Python's None

\* The rows of the table of builds, and BuildRecords
RowSet == [submitted : Nat, completed : BOOLEAN, built : Nat \cup {Nil}]
RecordSet == [build : Builds, note : Texts \cup {Nil}, logs : Texts \cup {Nil},
              keep : BOOLEAN, submitted : Nat \cup {Nil}, completed : BOOLEAN,
              built : Nat \cup {Nil}]

ASSUME DatabasesAssumption ==
    /\ Machines \subseteq Nat /\ Builds \subseteq Nat /\ IsFiniteSet(Builds)
    /\ MachineOf \in [Builds -> Machines]
    /\ BuiltAt \in [Builds -> Nat] /\ LogOf \in [Builds -> Texts]
    /\ Nil \notin Nat /\ Nil \notin Texts /\ Nil \notin RowSet /\ Nil \notin RecordSet

\* A text in lower case contains what it contained in lower case.
ASSUME SearchAssumption ==
    \A text \in Texts, key \in Keys :
        <<text, Lower[key]>> \in Containing => <<Lower[text], Lower[key]>> \in Containing

VARIABLES
    model,    \* model[b]: b's row in the table of builds, or Nil
    kept,     \* the builds with a row in the table of kept builds
    logs,     \* logs[b]: the text of b's row in the table of logs, or Nil
    note,     \* note[b]: the text of b's row in the table of notes, or Nil
    memory    \* memory[m][b]: the dicts; not every m, nor every b, is a key

tables == <<model, kept, logs, note>>
databases == <<model, kept, logs, note, memory>>

\* BuildRecord; of "completed" only whether it is set.
BuildRecord(b) ==
    [build |-> b, note |-> Nil, logs |-> Nil, keep |-> FALSE,
     submitted |-> Nil, completed |-> FALSE, built |-> Nil]

NoRecords == <<>>   \* the empty dict

FirstOf(seq) == IF seq = <<>> THEN Nil ELSE Head(seq)
LastOf(seq) == IF seq = <<>> THEN Nil ELSE seq[Len(seq)]

(***************************************************************************)
(* Django: reading                                                         *)
(***************************************************************************)

\* BuildModel.record(): the row with those of the other tables.
ModelRecord(b) ==
    [build |-> b, note |-> note[b], logs |-> logs[b], keep |-> b \in kept,
     submitted |-> model[b].submitted, completed |-> model[b].completed,
     built |-> model[b].built]

DjangoExists(b) == model[b] # Nil

\* Nil stands for RecordNotFound.
DjangoGet(b) == IF DjangoExists(b) THEN ModelRecord(b) ELSE Nil

\* RELATED.filter(machine=m)
RowsOf(m) == {ModelRecord(b) : b \in {x \in Builds : DjangoExists(x) /\ MachineOf[x] = m}}

\* order_by(built.desc(nulls_last=True), "-submitted")
DjangoForMachine(m) ==
    LET before(r, s) ==
            \/ r.built # Nil /\ s.built = Nil
            \/ r.built # Nil /\ s.built # Nil /\ r.built > s.built
            \/ r.built = s.built /\ r.submitted > s.submitted
    IN  Sorted(RowsOf(m), before)

\* "query.order_by(...)[0]", and None instead of an IndexError
FirstBy(found, before(_, _)) ==
    IF found = {} THEN Nil
    ELSE CHOOSE r \in found : \A s \in found : ~before(s, r)

DjangoListMachines == Sorted({m \in Machines : RowsOf(m) # {}}, <)

\* Mutant: a build precedes itself.
DjangoPrevious_Self(record) ==
    LET before(r, s) == r.built > s.built
        found == {r \in RowsOf(MachineOf[record.build]) :
                    /\ r.completed /\ r.built # Nil
                    /\ record.built # Nil => r.built <= record.built}
    IN  FirstBy(found, before)

\* previous(), next() and latest() are only called with completed=True.
DjangoPrevious(record) ==
    LET before(r, s) == r.built > s.built
        found == {r \in RowsOf(MachineOf[record.build]) :
                    /\ r.completed /\ r.built # Nil
                    /\ record.built # Nil => r.built < record.built}
    IN  FirstBy(found, before)

DjangoNext(record) ==
    LET before(r, s) == r.built < s.built
        found == {r \in RowsOf(MachineOf[record.build]) :
                    /\ r.completed
                    /\ record.built # Nil =>
                            r.built # Nil /\ r.built > record.built}
    IN  FirstBy(found, before)

\* "backwards compat": the rows that were completed before there was a "built"
\* are in the order of build_id.
DjangoLatest(m) ==
    LET later(r, s) == r.built > s.built
        higher(r, s) == r.build > s.build
        found == {r \in RowsOf(m) : r.completed}
        timed == {r \in found : r.built # Nil}
    IN  IF timed # {} THEN FirstBy(timed, later) ELSE FirstBy(found, higher)

\* icontains, order_by("-submitted")
DjangoSearch(m, field, key) ==
    LET before(r, s) == r.submitted > s.submitted
        matches(r) == r[field] # Nil /\ <<Lower[r[field]], Lower[key]>> \in Containing
    IN  Sorted({r \in RowsOf(m) : matches(r)}, before)

DjangoCount(m) == Cardinality(RowsOf(m))

(***************************************************************************)
(* Django: writing                                                         *)
(***************************************************************************)

\* Mutant: "built" is not written.
SaveModel_NotBuilt(record) ==
    /\ model' = [model EXCEPT ![record.build] =
            [submitted |-> record.submitted, completed |-> record.completed,
             built |-> Nil]]
    /\ UNCHANGED <<kept, logs, note>>

\* model.save(): the row is new, or is the one that was there.
SaveModel(record) ==
    /\ model' = [model EXCEPT ![record.build] =
            [submitted |-> record.submitted, completed |-> record.completed,
             built |-> record.built]]
    /\ UNCHANGED <<kept, logs, note>>

\* KeptBuild.update()
UpdateKept(record) ==
    /\ kept' = IF record.keep THEN kept \cup {record.build} ELSE kept \ {record.build}
    /\ UNCHANGED <<model, logs, note>>

\* BuildLog.update()
UpdateLogs(record) ==
    /\ logs' = [logs EXCEPT ![record.build] = record.logs]
    /\ UNCHANGED <<model, kept, note>>

\* Mutant: a note is never taken away.
UpdateNote_Keeps(record) ==
    /\ note' = [note EXCEPT ![record.build] = IF record.note = Nil THEN @ ELSE record.note]
    /\ UNCHANGED <<model, kept, logs>>

\* BuildNote.update()
UpdateNote(record) ==
    /\ note' = [note EXCEPT ![record.build] = record.note]
    /\ UNCHANGED <<model, kept, logs>>

\* The row, and the rows of the other tables that refer to it (CASCADE).
DjangoDelete(b) ==
    /\ model' = [model EXCEPT ![b] = Nil]
    /\ kept' = kept \ {b}
    /\ logs' = [logs EXCEPT ![b] = Nil]
    /\ note' = [note EXCEPT ![b] = Nil]

(***************************************************************************)
(* Memory                                                                  *)
(***************************************************************************)
BuildsIn(m) == IF m \in DOMAIN memory THEN memory[m] ELSE NoRecords

MemoryExists(b) == b \in DOMAIN BuildsIn(MachineOf[b])

MemoryGet(b) == IF MemoryExists(b) THEN memory[MachineOf[b]][b] ELSE Nil

\* Sorted by record_key(), the number.
SortedRecords(records) ==
    LET before(r, s) == r.build < s.build IN Sorted(records, before)

MemoryRecords(m) == {BuildsIn(m)[b] : b \in DOMAIN BuildsIn(m)}

MemoryForMachine(m) == Reverse(SortedRecords(MemoryRecords(m)))

MemoryListMachines == Sorted(DOMAIN memory, <)

MemoryPrevious(record) ==
    LastOf(SortedRecords({r \in MemoryRecords(MachineOf[record.build]) :
        /\ r.completed /\ r.built # Nil
        /\ ~(record.built # Nil /\ r.built >= record.built)}))

MemoryNext(record) ==
    FirstOf(SortedRecords({r \in MemoryRecords(MachineOf[record.build]) :
        /\ r.build # record.build
        /\ r.completed /\ r.built # Nil
        /\ ~(record.built # Nil /\ r.built < record.built)}))

MemoryLatest(m) == LastOf(SortedRecords({r \in MemoryRecords(m) : r.completed}))

\* The key is put in lower case, the text is not.
MemorySearch(m, field, key) ==
    Select(MemoryForMachine(m),
        LAMBDA r : r[field] # Nil /\ <<r[field], Lower[key]>> \in Containing)

MemoryCount(m) == Cardinality(DOMAIN BuildsIn(m))

\* dict[key] = value
Put(dict, key, value) ==
    [k \in DOMAIN dict \cup {key} |-> IF k = key THEN value ELSE dict[k]]

MemorySave(record) ==
    LET m == MachineOf[record.build] IN
    memory' = Put(memory, m, Put(BuildsIn(m), record.build, record))

\* The machine's dict stays, though it may be empty.
MemoryDelete(b) ==
    LET m == MachineOf[b] IN
    memory' = IF m \in DOMAIN memory
              THEN [memory EXCEPT ![m] = Restrict(@, DOMAIN @ \ {b})]
              ELSE memory

(***************************************************************************)
(* Any state of the databases in which builds "done" were completed by     *)
(* this version of the program, and no other build has a record.  All have *)
(* been submitted at time 0.                                               *)
(***************************************************************************)
DoneRecord(b) ==
    [build |-> b, note |-> Nil, logs |-> LogOf[b], keep |-> FALSE,
     submitted |-> 0, completed |-> TRUE, built |-> BuiltAt[b]]

DatabasesInit(done) ==
    /\ model = [b \in Builds |->
            IF b \in done
            THEN [submitted |-> 0, completed |-> TRUE, built |-> BuiltAt[b]] ELSE Nil]
    /\ kept = {}
    /\ logs = [b \in Builds |-> IF b \in done THEN LogOf[b] ELSE Nil]
    /\ note = [b \in Builds |-> Nil]
    /\ memory = [m \in {MachineOf[b] : b \in done} |->
            [b \in {x \in done : MachineOf[x] = m} |-> DoneRecord(b)]]
=============================================================================
