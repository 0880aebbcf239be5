------------------------------ MODULE ApiKeys ------------------------------
(***************************************************************************)
(* The table of API keys (ApiKeyDB in records/django_orm.py), and what the *)
(* "gbp apikey" command (cli/apikey.py) and the check of a request's key   *)
(* (graphql/utils.py) do to it, one database query at a time.              *)
(*                                                                         *)
(* A name is stored in lower case.  A row has the key and whether          *)
(* last_used is set; a row that has been created but not filled in yet has *)
(* an empty key, which cannot be decrypted.                                *)
(***************************************************************************)
EXTENDS FiniteSets

CONSTANTS Names,      \* the names that users type
          LowerName,  \* LowerName[name]: name.lower()
          BadNames,   \* names that validate_identifier() refuses
          Keys,       \* the keys that are generated, each only once
          Blank,      \* the empty key
          Nil         \* Python's None

RootKeyName == "root"

ASSUME ApiKeysAssumption ==
    /\ LowerName \in [Names -> Names]
    /\ Blank \notin Keys /\ Nil \notin Keys

Row == [key : Keys \cup {Blank}, used : BOOLEAN]

VARIABLES
    keys,      \* keys[name]: the row with that name, or Nil
    issued,    \* the keys printed or being saved (history)
    revoked,   \* the keys that "gbp apikey delete" has deleted (history)
    excused    \* those that a request was about to save then (history)

apiKeys == <<keys, issued, revoked, excused>>

ApiKeysTypeOK ==
    /\ keys \in [Names -> Row \cup {Nil}]
    /\ issued \subseteq Keys /\ revoked \subseteq Keys /\ excused \subseteq Keys

ApiKeysInit ==
    /\ keys = [name \in Names |-> Nil]
    /\ issued = {} /\ revoked = {} /\ excused = {}

(***************************************************************************)
(* Queries                                                                 *)
(***************************************************************************)
KeyExists(name) == keys[name] # Nil

\* A row whose key is empty raises InvalidToken when it is decrypted.
Readable(name) == KeyExists(name) /\ keys[name].key # Blank

\* ApiKeyDB.list() reads, and decrypts, all of them.
ListWorks == \A name \in Names : KeyExists(name) => Readable(name)

\* ApiKeyDB.get() finds that name with that key.
Matches(name, key) == Readable(name) /\ keys[name].key = key

(***************************************************************************)
(* Statements                                                              *)
(***************************************************************************)

\* ApiKeyDB.save(): get_or_create(name=...)
GetOrCreate(name) ==
    keys' = [keys EXCEPT ![name] =
        IF @ = Nil THEN [key |-> Blank, used |-> FALSE] ELSE @]

\* ApiKeyDB.save(): obj.save(), which inserts the row if it has gone.  If the
\* row was deleted and another one with its name created since get_or_create(),
\* the code raises IntegrityError, as rows are told apart by ids; here they are
\* not, and the other row is overwritten.
SaveKey(name, key, used) ==
    keys' = [keys EXCEPT ![name] = [key |-> key, used |-> used]]

\* ApiKeyDB.delete(): get_model(name).delete()
DeleteKey(name) == keys' = [keys EXCEPT ![name] = Nil]
=============================================================================
