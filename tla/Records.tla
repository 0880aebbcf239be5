------------------------------ MODULE Records ------------------------------
(***************************************************************************)
(* The build records (records/, django models): one row per build.  A row  *)
(* is always written as a whole from a copy that the writer holds          *)
(* (RecordDB.save(replace(record, **fields))), never field by field.       *)
(*                                                                         *)
(* Of a record's fields, "submitted" and "logs" are left out (no property  *)
(* is about them).  "built" is left out because every writer sets it       *)
(* together with "completed": built is not null exactly when completed is  *)
(* not null, and its value is the Jenkins time stamp BuiltAt of the build. *)
(***************************************************************************)
EXTENDS Types

CONSTANTS Notes,      \* the texts a user may write as a build's note
          BuiltAt     \* BuiltAt[b]: when Jenkins started build b

Record == [note : Notes \cup {Nil}, keep : BOOLEAN, completed : BOOLEAN]

ASSUME RecordsAssumption ==
    /\ BuiltAt \in [Builds -> Nat]
    /\ Nil \notin Notes \cup Record

VARIABLE records      \* records[b]: the row of build b, or Nil

EmptyRecord == [note |-> Nil, keep |-> FALSE, completed |-> FALSE]

RecordsTypeOK == records \in [Builds -> Record \cup {Nil}]

RecordsInit == records = [b \in Builds |-> Nil]

RecordExists(b) == records[b] # Nil

\* BuildPublisher.record(): the row, or an empty record that is not saved.
RecordOf(b) == IF RecordExists(b) THEN records[b] ELSE EmptyRecord

IsCompleted(row) == row # Nil /\ row.completed

Completed(b) == IsCompleted(records[b])

\* RecordDB.previous(record) finds something: the latest completed build,
\* or the latest one built before the record's build if that is built.
HasPrevious(b, record) ==
    \E other \in Builds :
        /\ Completed(other)
        /\ record.completed => BuiltAt[other] < BuiltAt[b]

SaveRecord(b, record) == records' = [records EXCEPT ![b] = record]

DeleteRecord(b) == records' = [records EXCEPT ![b] = Nil]
=============================================================================
