----------------------------- MODULE PagesProofs -----------------------------
(***************************************************************************)
(* Proofs about names of builds, the tables of Django, and the pages that  *)
(* tags lead to.                                                           *)
(***************************************************************************)
EXTENDS Pages, OrderingProofs, SequenceTheorems

(***************************************************************************)
(* Queries of Django                                                       *)
(***************************************************************************)

\* The record of a build that has a row
LEMMA RecordIs ==
    ASSUME TablesOK, NEW b \in Builds, DjangoExists(b)
    PROVE  /\ Record(b) = ModelRecord(b) /\ DjangoGet(b) = ModelRecord(b)
           /\ Record(b).build = b /\ Record(b) \in RecordSet /\ Record(b) # Nil
           /\ Record(b).completed \in BOOLEAN
           /\ Record(b).built = IF Record(b).completed THEN BuiltAt[b] ELSE Nil
           /\ Record(b).completed => b \in stored
           /\ MayBeSaved(Record(b))
<1>1. Record(b) = ModelRecord(b) /\ DjangoGet(b) = ModelRecord(b)
  BY DEF Record, DjangoGet
<1>2. PICK row \in RowSet : row = model[b]
  BY DEF TablesOK, DjangoExists
<1>3. /\ row.submitted \in Nat /\ row.completed \in BOOLEAN
      /\ row.built \in Nat \cup {Nil}
  BY DEF RowSet
<1>4. \A e \in BOOLEAN :
        [build |-> b, note |-> note[b], logs |-> logs[b], keep |-> e,
         submitted |-> row.submitted, completed |-> row.completed,
         built |-> row.built] \in RecordSet
  BY <1>3 DEF TablesOK, RecordSet
<1>5. (b \in kept) \in BOOLEAN
  OBVIOUS
<1>6. ModelRecord(b) \in RecordSet
  BY <1>2, <1>4, <1>5, Zenon DEF ModelRecord
<1>7. /\ ModelRecord(b).build = b /\ ModelRecord(b).submitted = row.submitted
      /\ ModelRecord(b).completed = row.completed /\ ModelRecord(b).built = row.built
  BY <1>2 DEF ModelRecord
<1>8. /\ row.built = IF row.completed THEN BuiltAt[b] ELSE Nil
      /\ row.completed => b \in stored
  BY <1>2 DEF TablesOK
<1> QED
  BY <1>1, <1>3, <1>6, <1>7, <1>8, DatabasesAssumption DEF MayBeSaved

LEMMA RowsAre ==
    ASSUME TablesOK, NEW m
    PROVE  /\ \A r \in RowsOf(m) :
                /\ r.build \in Builds /\ DjangoExists(r.build)
                /\ MachineOf[r.build] = m /\ r = Record(r.build)
           /\ \A b \in Builds : DjangoExists(b) /\ MachineOf[b] = m =>
                Record(b) \in RowsOf(m)
<1>1. \A b \in Builds : DjangoExists(b) => Record(b) = ModelRecord(b) /\ Record(b).build = b
  BY RecordIs
<1> QED
  BY <1>1 DEF RowsOf

LEMMA DoneAre ==
    ASSUME TablesOK, NEW m
    PROVE  /\ Done(m) = {b \in Builds : /\ DjangoExists(b) /\ MachineOf[b] = m
                                        /\ Record(b).completed}
           /\ Done(m) \subseteq Nat /\ IsFiniteSet(Done(m))
<1>1. \A b \in Builds : DjangoExists(b) => Record(b).completed = model[b].completed
  <2>1. \A b \in Builds : DjangoExists(b) => Record(b) = ModelRecord(b)
    BY RecordIs
  <2>2. \A b : ModelRecord(b).completed = model[b].completed
    BY DEF ModelRecord
  <2> QED
    BY <2>1, <2>2
<1>2. Done(m) = {b \in Builds : /\ DjangoExists(b) /\ MachineOf[b] = m
                                /\ Record(b).completed}
  BY <1>1 DEF Done
<1>3. Done(m) \in SUBSET Builds
  BY <1>2
<1> QED
  BY <1>2, <1>3, FS_Subset, DatabasesAssumption

\* When some builds were started
LEMMA TimesAre ==
    ASSUME NEW S, S \subseteq Builds, IsFiniteSet(S)
    PROVE  /\ TimesOf(S) \subseteq Nat /\ IsFiniteSet(TimesOf(S))
           /\ \A c \in S : BuiltAt[c] \in TimesOf(S) /\ BuiltAt[c] \in Nat
<1> DEFINE f == [c \in S |-> BuiltAt[c]]
<1>1. \A c \in S : BuiltAt[c] \in Nat
  BY DatabasesAssumption
<1>2. f \in Surjection(S, TimesOf(S))
  BY DEF Surjection, TimesOf
<1> HIDE DEF f
<1>3. IsFiniteSet(TimesOf(S))
  BY <1>2, FS_Surjection
<1> QED
  BY <1>1, <1>3 DEF TimesOf

\* The builds that a query finds, and one that was started last
LEMMA LatestIs ==
    ASSUME TablesOK, NEW m
    PROVE  LET r == DjangoLatest(m) IN
           IF Done(m) = {} THEN r = Nil
           ELSE /\ r.build \in Done(m) /\ r = Record(r.build)
                /\ \A b \in Done(m) : BuiltAt[b] <= BuiltAt[r.build]
<1> DEFINE rows == {r \in RowsOf(m) : r.completed}
           found == {r \in rows : r.built # Nil}
           r == DjangoLatest(m)
<1>1. \A x \in rows : /\ x.build \in Done(m) /\ x.built = BuiltAt[x.build]
                      /\ x = Record(x.build) /\ x.built # Nil
  BY RowsAre, RecordIs, DoneAre, DatabasesAssumption
<1>2. \A b \in Done(m) : Record(b) \in found /\ Record(b).build = b
  BY RowsAre, RecordIs, DoneAre, DatabasesAssumption
<1>3. r = IF found = {} THEN Nil
          ELSE CHOOSE x \in found : \A y \in found : ~(y.built > x.built)
  <2>1. found = {} => rows = {}
    BY <1>1
  <2>2. r = IF found # {} THEN CHOOSE x \in found : \A y \in found : ~(y.built > x.built)
            ELSE IF rows = {} THEN Nil
            ELSE CHOOSE x \in rows : \A y \in rows : ~(y.build > x.build)
    BY DEF DjangoLatest, FirstBy
  <2> HIDE DEF r, rows
  <2> QED
    BY <2>1, <2>2
<1>4. \A x \in found : x \in rows
  OBVIOUS
<1> HIDE DEF found, rows, r
<1>5. Done(m) \subseteq Builds /\ IsFiniteSet(Done(m))
  BY DoneAre
<1>6. CASE Done(m) = {}
  BY <1>1, <1>3, <1>4, <1>6 DEF r
<1>7. CASE Done(m) # {}
  <2> DEFINE T == TimesOf(Done(m))
  <2>1. T \subseteq Nat /\ IsFiniteSet(T) /\ \A b \in Done(m) : BuiltAt[b] \in T
    BY <1>5, TimesAre
  <2>2. T # {} /\ \A t \in T : \E g \in Done(m) : t = BuiltAt[g]
    BY <1>7 DEF TimesOf
  <2> HIDE DEF T
  <2>3. PICK t \in T : \A u \in T : u <= t
    BY <2>1, <2>2, GreatestMember
  <2>4. PICK g \in Done(m) : t = BuiltAt[g]
    BY <2>2
  <2> DEFINE x == Record(g)
  <2>5. x \in found /\ \A y \in found : ~(y.built > x.built)
    <3>1. x \in found /\ x.built = t
      BY <1>1, <1>2, <1>4, <2>4
    <3> HIDE DEF x
    <3>2. ASSUME NEW y \in found PROVE ~(y.built > x.built)
      <4>1. y.build \in Done(m) /\ y.built = BuiltAt[y.build]
        BY <1>1, <1>4
      <4>2. y.built \in T /\ y.built \in Nat /\ t \in Nat
        BY <2>1, <4>1
      <4> QED
        BY <2>3, <3>1, <4>2
    <3> QED
      BY <3>1, <3>2
  <2> HIDE DEF x
  <2>6. r \in found /\ \A y \in found : ~(y.built > r.built)
    BY <1>3, <2>5
  <2>7. ASSUME NEW b \in Done(m) PROVE BuiltAt[b] <= BuiltAt[r.build]
    <3> DEFINE y == Record(b)
    <3>1. y \in found /\ y.built = BuiltAt[b]
      BY <1>1, <1>2, <1>4
    <3> HIDE DEF y
    <3>2. r.build \in Done(m) /\ r.built = BuiltAt[r.build]
      BY <1>1, <1>4, <2>6
    <3>3. BuiltAt[b] \in Nat /\ BuiltAt[r.build] \in Nat
      BY <2>1, <3>2
    <3> QED
      BY <2>6, <3>1, <3>2, <3>3
  <2> QED
    BY <1>1, <1>4, <1>7, <2>6, <2>7 DEF r
<1> QED
  BY <1>6, <1>7

\* The records that Walk reaches on its way
LEMMA WalkIs ==
    ASSUME NEW record, NEW sign, NEW n \in Nat
    PROVE  \E f : /\ f = [i \in 0..n |-> IF i = 0 THEN record
                                   ELSE IF f[i - 1] = Nil THEN Nil
                                   ELSE Adjacent(f[i - 1], sign)]
                  /\ Walk(record, sign, n) = f[n]
<1> DEFINE IsWalk(f, k) == f = [i \in 0..k |-> IF i = 0 THEN record
                                   ELSE IF f[i - 1] = Nil THEN Nil
                                   ELSE Adjacent(f[i - 1], sign)]
           T == {k \in Nat : \E f : IsWalk(f, k)}
<1>1. 0 \in T
  <2>1. IsWalk([i \in 0..0 |-> record], 0)
    OBVIOUS
  <2> QED
    BY <2>1
<1>2. ASSUME NEW k \in T PROVE k + 1 \in T
  <2>1. PICK f : IsWalk(f, k)
    BY <1>2
  <2> DEFINE g == [i \in 0..(k + 1) |-> IF i <= k THEN f[i]
                     ELSE IF f[k] = Nil THEN Nil ELSE Adjacent(f[k], sign)]
  <2>2. \A i \in 0..k : g[i] = f[i]
    OBVIOUS
  <2>3. ASSUME NEW i \in 0..(k+1) PROVE g[i] = IF i = 0 THEN record
                                   ELSE IF g[i - 1] = Nil THEN Nil
                                   ELSE Adjacent(g[i - 1], sign)
    <3>1. CASE i = 0
       BY <2>1, <3>1
    <3>2. CASE i \in 1..k
       <4>1. g[i] = f[i] /\ g[i-1] = f[i-1]
         BY <3>2, <2>2
       <4> QED
       BY <2>1, <3>2, <4>1
    <3>3. CASE i = k + 1
       <4>1. g[i-1] = f[k]
         BY <3>3, <2>2
       <4> QED
       BY <2>1, <3>3, <4>1
    <3> QED
      BY <3>1, <3>2, <3>3
  <2> HIDE DEF g
  <2>4. IsWalk(g, k + 1)
    BY <2>3 DEF g
  <2> QED
    BY <2>4
<1>3. n \in T
  <2>1. T = Nat
    <3> HIDE DEF IsWalk
    <3> QED
    BY <1>1, <1>2, AllNumbers
  <2> QED
    BY <2>1
<1>4. Walk(record, sign, n) = (CHOOSE f : IsWalk(f, n))[n]
  BY DEF Walk
<1> QED
  BY <1>3, <1>4

(***************************************************************************)
(* The inductive invariant                                                 *)
(***************************************************************************)

\* A record to be saved when a pull starts
LEMMA PullSubmits ==
    ASSUME TablesOK, clock \in Nat, NEW b \in Builds, ~Pulled(b),
           NEW text \in Notes \cup {Nil}
    PROVE  LET r == [Record(b) EXCEPT
                       !.submitted = IF @ = Nil THEN clock ELSE @, !.note = text] IN
           MayBeSaved(r) /\ r.build = b /\ ~r.completed /\ r # Nil
<1> DEFINE r == [Record(b) EXCEPT
                   !.submitted = IF @ = Nil THEN clock ELSE @, !.note = text]
<1>1. /\ Record(b) \in RecordSet /\ Record(b).build = b
      /\ Record(b).completed = FALSE /\ Record(b).built = Nil
  <2>1. CASE DjangoExists(b)
    BY <2>1, RecordIs DEF Pulled
  <2>2. CASE ~DjangoExists(b)
    BY <2>2 DEF Record, BuildRecord, RecordSet
  <2> QED
    BY <2>1, <2>2
<1>2. \A q \in RecordSet, time \in Nat :
        LET e == [q EXCEPT !.submitted = time, !.note = text] IN
        /\ e \in RecordSet /\ e.build = q.build /\ e.completed = q.completed
        /\ e.built = q.built /\ e.submitted = time
  BY ResolutionAssumption DEF RecordSet
<1> DEFINE time == IF Record(b).submitted = Nil THEN clock ELSE Record(b).submitted
<1>3. time \in Nat
  BY <1>1 DEF RecordSet
<1>4. r = [Record(b) EXCEPT !.submitted = time, !.note = text]
  OBVIOUS
<1> HIDE DEF time, r
<1>5. /\ r \in RecordSet /\ r.build = b /\ r.completed = FALSE
      /\ r.built = Nil /\ r.submitted # Nil
  <2> DEFINE q == Record(b)
             e == [q EXCEPT !.submitted = time, !.note = text]
  <2>1. q \in RecordSet /\ time \in Nat
    BY <1>1, <1>3
  <2> HIDE DEF q
  <2>2. /\ e \in RecordSet /\ e.build = q.build /\ e.completed = q.completed
        /\ e.built = q.built /\ e.submitted = time
    BY <1>2, <2>1, Zenon
  <2>3. r = e
    BY <1>4 DEF q
  <2> HIDE DEF e
  <2> QED
    BY <1>1, <1>3, <2>2, <2>3, DatabasesAssumption DEF q
<1>6. MayBeSaved(r) /\ r.build = b /\ ~r.completed /\ r # Nil
  BY <1>5, DatabasesAssumption DEF MayBeSaved
<1> QED
  BY <1>6 DEF r, time

\* The record to be saved when the artifact has been extracted
LEMMA PullCompletes ==
    ASSUME NEW q, MayBeSaved(q), q.build \in stored, NEW text \in Texts,
           NEW time \in Nat, time = BuiltAt[q.build]
    PROVE  LET r == [q EXCEPT !.logs = text, !.completed = TRUE, !.built = time] IN
           MayBeSaved(r) /\ r.build = q.build
<1> DEFINE r == [q EXCEPT !.logs = text, !.completed = TRUE, !.built = time]
<1>1. q \in RecordSet /\ q.submitted # Nil
  BY DEF MayBeSaved
<1>2. /\ r \in RecordSet /\ r.build = q.build /\ r.completed = TRUE
      /\ r.built = time /\ r.submitted = q.submitted
  BY <1>1 DEF RecordSet
<1> HIDE DEF r
<1>3. MayBeSaved(r) /\ r.build = q.build
  BY <1>1, <1>2 DEF MayBeSaved
<1> QED
  BY <1>3 DEF r

\* A record whose note or keep flag is edited
LEMMA EditsFit ==
    ASSUME NEW q, MayBeSaved(q)
    PROVE  /\ \A text \in Notes \cup {Nil} :
                LET r == [q EXCEPT !.note = text] IN MayBeSaved(r) /\ r.build = q.build
           /\ \A flag \in BOOLEAN :
                LET r == [q EXCEPT !.keep = flag] IN MayBeSaved(r) /\ r.build = q.build
<1>1. q \in RecordSet
  BY DEF MayBeSaved
<1>2. ASSUME NEW text \in Notes \cup {Nil}
      PROVE  LET r == [q EXCEPT !.note = text] IN MayBeSaved(r) /\ r.build = q.build
  <2> DEFINE r == [q EXCEPT !.note = text]
  <2>1. /\ r \in RecordSet /\ r.build = q.build /\ r.completed = q.completed
        /\ r.built = q.built /\ r.submitted = q.submitted
    BY <1>1, ResolutionAssumption DEF RecordSet
  <2> HIDE DEF r
  <2>2. MayBeSaved(r) /\ r.build = q.build
    BY <2>1 DEF MayBeSaved
  <2> QED
    BY <2>2 DEF r
<1>3. ASSUME NEW flag \in BOOLEAN
      PROVE  LET r == [q EXCEPT !.keep = flag] IN MayBeSaved(r) /\ r.build = q.build
  <2> DEFINE r == [q EXCEPT !.keep = flag]
  <2>1. /\ r \in RecordSet /\ r.build = q.build /\ r.completed = q.completed
        /\ r.built = q.built /\ r.submitted = q.submitted
    BY <1>1 DEF RecordSet
  <2> HIDE DEF r
  <2>2. MayBeSaved(r) /\ r.build = q.build
    BY <2>1 DEF MayBeSaved
  <2> QED
    BY <2>2 DEF r
<1> QED
  BY <1>2, <1>3

LEMMA InvInit == Init => ResolutionInv
<1> SUFFICES ASSUME Init PROVE ResolutionInv
  OBVIOUS
<1>1. PICK done \in SUBSET Builds :
        /\ DatabasesInit(done) /\ stored = done
        /\ links \in [Machines -> [TagNames -> Builds \cup {Nil}]]
  BY DEF Init
<1>2. TablesOK
  <2>1. \A b \in Builds : model[b] =
            IF b \in done THEN [submitted |-> 0, completed |-> TRUE, built |-> BuiltAt[b]]
            ELSE Nil
    BY <1>1 DEF DatabasesInit
  <2>2. \A b \in Builds : [submitted |-> 0, completed |-> TRUE, built |-> BuiltAt[b]] \in RowSet
    BY DatabasesAssumption DEF RowSet
  <2>3. model \in [Builds -> RowSet \cup {Nil}]
    BY <1>1, <2>2 DEF DatabasesInit
  <2>4. \A b \in Builds : DjangoExists(b) =>
            /\ model[b].built = IF model[b].completed THEN BuiltAt[b] ELSE Nil
            /\ model[b].completed => b \in stored
    <3>1. SUFFICES ASSUME NEW b \in Builds, model[b] # Nil
                   PROVE  /\ model[b].built = IF model[b].completed THEN BuiltAt[b] ELSE Nil
                          /\ model[b].completed => b \in stored
      BY DEF DjangoExists
    <3>2. b \in done /\ model[b] = [submitted |-> 0, completed |-> TRUE, built |-> BuiltAt[b]]
      BY <2>1, <3>1
    <3>3. model[b].built = BuiltAt[b] /\ model[b].completed = TRUE
      BY <3>2
    <3> QED
      BY <1>1, <3>2, <3>3
  <2> QED
    BY <1>1, <2>3, <2>4, DatabasesAssumption DEF DatabasesInit, TablesOK
<1>3. SavingOK
  BY DEF Init, SavingOK
<1>4. PullsOK
  BY DEF Init, PullsOK
<1>5. LinksOK
  BY <1>1 DEF Init, LinksOK
<1>6. StoredOK
  <2>1. \A b \in Builds : DjangoExists(b) <=> b \in done
    <3>1. \A b \in Builds : [submitted |-> 0, completed |-> TRUE, built |-> BuiltAt[b]] \in RowSet
      BY DatabasesAssumption DEF RowSet
    <3> QED
      BY <1>1, <3>1, DatabasesAssumption DEF DatabasesInit, DjangoExists
  <2> QED
    BY <1>1, <2>1 DEF Init, StoredOK
<1> QED
  BY <1>2, <1>3, <1>4, <1>5, <1>6 DEF ResolutionInv

\* Records that may be saved are still so after any step but the one that
\* deletes trees; of the build whose trees it deletes no table has a row.
LEMMA InvStep == ResolutionInv /\ [Next]_vars => ResolutionInv'
<1> SUFFICES ASSUME ResolutionInv, [Next]_vars PROVE ResolutionInv'
  OBVIOUS
<1> USE DEF ResolutionInv
<1>1. ASSUME NEW b \in Builds, NEW text \in Notes \cup {Nil}, StartPull(b, text)
      PROVE  ResolutionInv'
  <2> DEFINE r == [Record(b) EXCEPT
                     !.submitted = IF @ = Nil THEN clock ELSE @, !.note = text]
  <2>1. MayBeSaved(r) /\ r.build = b /\ ~r.completed /\ r # Nil
    <3>1. TablesOK /\ clock \in Nat /\ ~Pulled(b)
      BY <1>1 DEF StartPull, PullsOK
    <3>2. MayBeSaved(r) /\ r.build = b /\ ~r.completed /\ r # Nil
      BY <3>1, PullSubmits, Zenon
    <3> QED
      BY <3>2
  <2>2. /\ pc = "idle" /\ copies[b] = Nil /\ pc' = "model" /\ saving' = r
        /\ copies' = [copies EXCEPT ![b] = r] /\ clock' = clock + 1
        /\ UNCHANGED <<model, kept, logs, note, stored, links, crashes>>
    BY <1>1 DEF StartPull, BeginSave, Begin, databases
  <2> HIDE DEF r
  <2>3. TablesOK'
    BY <2>2 DEF TablesOK, DjangoExists
  <2>4. SavingOK'
    BY <2>1, <2>2 DEF SavingOK, MayBeSaved
  <2>5. PullsOK'
    BY <2>1, <2>2 DEF PullsOK, MayBeSaved, DjangoExists
  <2>6. LinksOK'
    BY <2>2 DEF LinksOK
  <2>7. StoredOK'
    BY <2>1, <2>2 DEF StoredOK, DjangoExists, PullsOK
  <2> QED
    BY <2>3, <2>4, <2>5, <2>6, <2>7
<1>2. ASSUME NEW b \in Builds, Extract(b)
      PROVE  ResolutionInv'
  <2>1. /\ pc = "idle" /\ copies[b] # Nil /\ stored' = stored \cup {b}
        /\ UNCHANGED <<model, kept, logs, note, links, copies, pc, saving, clock, crashes>>
    BY <1>2 DEF Extract, databases, client
  <2>2. TablesOK'
    BY <2>1 DEF TablesOK, DjangoExists
  <2>3. SavingOK'
    BY <2>1 DEF SavingOK, MayBeSaved
  <2>4. PullsOK'
    BY <2>1 DEF PullsOK, MayBeSaved, DjangoExists
  <2>5. LinksOK'
    BY <2>1 DEF LinksOK
  <2>6. StoredOK'
    BY <2>1 DEF StoredOK, DjangoExists, PullsOK
  <2> QED
    BY <2>2, <2>3, <2>4, <2>5, <2>6
<1>3. ASSUME NEW b \in Builds, CompletePull(b)
      PROVE  ResolutionInv'
  <2> DEFINE r == [copies[b] EXCEPT
                     !.logs = LogOf[b], !.completed = TRUE, !.built = BuiltAt[b]]
  <2>1. MayBeSaved(r) /\ r.build = b
    <3>1. MayBeSaved(copies[b]) /\ copies[b].build = b /\ b \in stored
      BY <1>3 DEF CompletePull, PullsOK
    <3>2. LogOf[b] \in Texts /\ BuiltAt[b] \in Nat
      BY DatabasesAssumption
    <3> QED
      BY <3>1, <3>2, PullCompletes
  <2>2. /\ pc = "idle" /\ b \in stored /\ pc' = "model" /\ saving' = r
        /\ copies' = [copies EXCEPT ![b] = Nil]
        /\ UNCHANGED <<model, kept, logs, note, stored, links, clock, crashes>>
    BY <1>3 DEF CompletePull, BeginSave, Begin, databases
  <2> HIDE DEF r
  <2>3. TablesOK'
    BY <2>2 DEF TablesOK, DjangoExists
  <2>4. SavingOK'
    BY <2>1, <2>2 DEF SavingOK, MayBeSaved
  <2>5. PullsOK'
    BY <2>2 DEF PullsOK, MayBeSaved, DjangoExists
  <2>6. LinksOK'
    BY <2>2 DEF LinksOK
  <2>7. StoredOK'
    BY <2>1, <2>2 DEF StoredOK, DjangoExists, PullsOK
  <2> QED
    BY <2>3, <2>4, <2>5, <2>6, <2>7
<1>4. ASSUME NEW b \in Builds, EditRecord(b)
      PROVE  ResolutionInv'
  <2>1. MayBeSaved(saving') /\ saving'.build = b
    <3>1. MayBeSaved(DjangoGet(b)) /\ DjangoGet(b).build = b
      BY <1>4, RecordIs DEF EditRecord
    <3>2. \/ \E text \in Notes \cup {Nil} : saving' = [DjangoGet(b) EXCEPT !.note = text]
          \/ \E flag \in BOOLEAN : saving' = [DjangoGet(b) EXCEPT !.keep = flag]
      BY <1>4 DEF EditRecord, BeginSave, Begin
    <3> QED
      BY <3>1, <3>2, EditsFit
  <2>2. /\ pc = "idle" /\ DjangoExists(b) /\ pc' = "model"
        /\ UNCHANGED <<model, kept, logs, note, stored, links, copies, clock, crashes>>
    BY <1>4 DEF EditRecord, BeginSave, Begin, databases
  <2>3. TablesOK'
    BY <2>2 DEF TablesOK, DjangoExists
  <2>4. SavingOK'
    BY <2>1, <2>2 DEF SavingOK, MayBeSaved
  <2>5. PullsOK'
    BY <2>2 DEF PullsOK, MayBeSaved, DjangoExists
  <2>6. LinksOK'
    BY <2>2 DEF LinksOK
  <2>7. StoredOK'
    BY <2>1, <2>2 DEF StoredOK, DjangoExists, PullsOK
  <2> QED
    BY <2>3, <2>4, <2>5, <2>6, <2>7
<1>5. ASSUME NEW b \in Builds, NEW name \in TagNames, Tag(b, name)
      PROVE  ResolutionInv'
  <2>1. /\ links' = [links EXCEPT ![MachineOf[b]][name] = b]
        /\ UNCHANGED <<model, kept, logs, note, stored, copies, pc, saving, clock, crashes>>
    BY <1>5 DEF Tag, databases
  <2>2. TablesOK' /\ PullsOK'
    BY <2>1 DEF TablesOK, PullsOK, MayBeSaved, DjangoExists
  <2>3. SavingOK' /\ StoredOK'
    BY <2>1 DEF SavingOK, StoredOK, MayBeSaved, DjangoExists
  <2>4. MachineOf[b] \in Machines /\ (name = Published \/ IsValid(name))
    BY <1>5, DatabasesAssumption DEF Tag
  <2>5. /\ links \in [Machines -> [TagNames -> Builds \cup {Nil}]]
        /\ links' \in [Machines -> [TagNames -> Builds \cup {Nil}]]
    BY <2>1, <2>4 DEF LinksOK
  <2>6. ASSUME NEW m \in Machines, NEW n \in TagNames, links'[m][n] # Nil
        PROVE  MachineOf[links'[m][n]] = m /\ (n = Published \/ IsValid(n))
    <3>1. CASE m = MachineOf[b] /\ n = name
      <4>1. links'[m][n] = b
        BY <2>1, <2>5, <3>1
      <4> QED
        BY <2>4, <3>1, <4>1
    <3>2. CASE ~(m = MachineOf[b] /\ n = name)
      <4>1. links'[m][n] = links[m][n]
        BY <2>1, <2>5, <3>2
      <4> QED
        BY <2>6, <4>1 DEF LinksOK
    <3> QED
      BY <3>1, <3>2
  <2>7. LinksOK'
    BY <2>5, <2>6 DEF LinksOK
  <2> QED
    BY <2>2, <2>3, <2>7
<1>6. ASSUME NEW b \in Builds, DeleteRecord(b)
      PROVE  ResolutionInv'
  <2>1. /\ pc = "idle" /\ pc' = "trees" /\ saving' = b
        /\ copies' = [copies EXCEPT ![b] = Nil]
        /\ model' = [model EXCEPT ![b] = Nil] /\ kept' = kept \ {b}
        /\ logs' = [logs EXCEPT ![b] = Nil] /\ note' = [note EXCEPT ![b] = Nil]
        /\ UNCHANGED <<stored, links, clock, crashes>>
    BY <1>6 DEF DeleteRecord, Begin, DjangoDelete
  <2>2. TablesOK'
    BY <2>1 DEF TablesOK, DjangoExists
  <2>3. SavingOK'
    BY <2>1 DEF SavingOK, DjangoExists, TablesOK
  <2>4. PullsOK'
    BY <2>1 DEF PullsOK, MayBeSaved, DjangoExists, TablesOK
  <2>5. LinksOK'
    BY <2>1 DEF LinksOK
  <2>6. StoredOK'
    BY <2>1 DEF StoredOK, DjangoExists, PullsOK, TablesOK
  <2> QED
    BY <2>2, <2>3, <2>4, <2>5, <2>6
<1>7. ASSUME NEW m \in Machines, NEW name \in TagNames, Untag(m, name)
      PROVE  ResolutionInv'
  <2>1. /\ links' = [links EXCEPT ![m][name] = Nil]
        /\ UNCHANGED <<model, kept, logs, note, stored, copies, pc, saving, clock, crashes>>
    BY <1>7 DEF Untag, databases
  <2>2. TablesOK' /\ PullsOK'
    BY <2>1 DEF TablesOK, PullsOK, MayBeSaved, DjangoExists
  <2>3. SavingOK' /\ StoredOK'
    BY <2>1 DEF SavingOK, StoredOK, MayBeSaved, DjangoExists
  <2>4. LinksOK'
    BY <2>1, DatabasesAssumption DEF LinksOK
  <2> QED
    BY <2>2, <2>3, <2>4
<1>8. ASSUME SaveRow PROVE ResolutionInv'
  <2> DEFINE row == [submitted |-> saving.submitted, completed |-> saving.completed,
                     built |-> saving.built]
             b == saving.build
  <2>1. /\ pc = "model" /\ pc' = "kept" /\ model' = [model EXCEPT ![b] = row]
        /\ UNCHANGED <<kept, logs, note, stored, links, copies, saving, clock, crashes>>
    BY <1>8 DEF SaveRow, SaveStep, SaveModel
  <2>2. MayBeSaved(saving) /\ saving \in RecordSet
    BY <2>1 DEF SavingOK, MayBeSaved
  <2>3. b \in Builds /\ row \in RowSet
    BY <2>2, DatabasesAssumption DEF MayBeSaved, RecordSet, RowSet
  <2>4. /\ row.built = IF row.completed THEN BuiltAt[b] ELSE Nil
        /\ row.completed => b \in stored
    BY <2>2 DEF MayBeSaved
  <2>5. row # Nil
    BY <2>3, DatabasesAssumption
  <2>6. SavingOK'
    BY <2>1, <2>2, <2>3 DEF SavingOK, MayBeSaved, TablesOK
  <2> HIDE DEF row
  <2>7. TablesOK'
    BY <2>1, <2>3, <2>4 DEF TablesOK, DjangoExists
  <2>8. PullsOK'
    BY <2>1, <2>3, <2>5 DEF PullsOK, MayBeSaved, DjangoExists, TablesOK
  <2>9. LinksOK'
    BY <2>1 DEF LinksOK
  <2>10. StoredOK'
    BY <2>1, <2>3, <2>5 DEF StoredOK, DjangoExists, TablesOK
  <2> QED
    BY <2>6, <2>7, <2>8, <2>9, <2>10
<1>9. ASSUME SaveKept PROVE ResolutionInv'
  <2>1. /\ pc = "kept" /\ pc' = "logs"
        /\ kept' = IF saving.keep THEN kept \cup {saving.build} ELSE kept \ {saving.build}
        /\ UNCHANGED <<model, logs, note, stored, links, copies, saving, clock, crashes>>
    BY <1>9 DEF SaveKept, SaveStep, UpdateKept
  <2>2. saving.build \in Builds
    BY <2>1 DEF SavingOK, MayBeSaved, RecordSet
  <2>3. TablesOK' /\ PullsOK'
    BY <2>1, <2>2 DEF TablesOK, PullsOK, MayBeSaved, DjangoExists
  <2>4. SavingOK' /\ StoredOK'
    BY <2>1 DEF SavingOK, StoredOK, MayBeSaved, DjangoExists
  <2>5. LinksOK'
    BY <2>1 DEF LinksOK
  <2> QED
    BY <2>3, <2>4, <2>5
<1>10. ASSUME SaveLogs PROVE ResolutionInv'
  <2>1. /\ pc = "logs" /\ pc' = "note"
        /\ logs' = [logs EXCEPT ![saving.build] = saving.logs]
        /\ UNCHANGED <<model, kept, note, stored, links, copies, saving, clock, crashes>>
    BY <1>10 DEF SaveLogs, SaveStep, UpdateLogs
  <2>2. saving.build \in Builds /\ saving.logs \in Texts \cup {Nil}
    BY <2>1 DEF SavingOK, MayBeSaved, RecordSet
  <2>3. TablesOK' /\ PullsOK'
    BY <2>1, <2>2 DEF TablesOK, PullsOK, MayBeSaved, DjangoExists
  <2>4. SavingOK' /\ StoredOK'
    BY <2>1, <2>2 DEF SavingOK, StoredOK, MayBeSaved, DjangoExists, TablesOK
  <2>5. LinksOK'
    BY <2>1 DEF LinksOK
  <2> QED
    BY <2>3, <2>4, <2>5
<1>11. ASSUME SaveNote PROVE ResolutionInv'
  <2>1. /\ pc = "note" /\ pc' = "idle" /\ saving' = Nil
        /\ note' = [note EXCEPT ![saving.build] = saving.note]
        /\ UNCHANGED <<model, kept, logs, stored, links, copies, clock, crashes>>
    BY <1>11 DEF SaveNote, UpdateNote
  <2>2. saving.build \in Builds /\ saving.note \in Texts \cup {Nil}
    BY <2>1 DEF SavingOK, MayBeSaved, RecordSet
  <2>3. TablesOK' /\ PullsOK'
    BY <2>1, <2>2 DEF TablesOK, PullsOK, MayBeSaved, DjangoExists
  <2>4. SavingOK' /\ StoredOK'
    BY <2>1 DEF SavingOK, StoredOK, DjangoExists
  <2>5. LinksOK'
    BY <2>1 DEF LinksOK
  <2> QED
    BY <2>3, <2>4, <2>5
<1>12. ASSUME DeleteTrees PROVE ResolutionInv'
  <2>1. /\ pc = "trees" /\ pc' = "idle" /\ saving' = Nil /\ stored' = stored \ {saving}
        /\ UNCHANGED <<model, kept, logs, note, links, copies, clock, crashes>>
    BY <1>12 DEF DeleteTrees, databases
  <2>2. ~DjangoExists(saving)
    BY <2>1 DEF SavingOK
  <2>3. TablesOK'
    BY <2>1, <2>2 DEF TablesOK, DjangoExists
  <2>4. PullsOK'
    BY <2>1 DEF PullsOK, MayBeSaved, DjangoExists
  <2>5. SavingOK' /\ StoredOK'
    BY <2>1, <2>2 DEF SavingOK, StoredOK, DjangoExists
  <2>6. LinksOK'
    BY <2>1 DEF LinksOK
  <2> QED
    BY <2>3, <2>4, <2>5, <2>6
<1>13. ASSUME Crash PROVE ResolutionInv'
  <2>1. /\ pc' = "idle" /\ saving' = Nil /\ copies' = [b \in Builds |-> Nil]
        /\ crashes' = crashes + 1
        /\ UNCHANGED <<model, kept, logs, note, stored, links, clock>>
    BY <1>13 DEF Crash, tables
  <2>2. TablesOK' /\ PullsOK'
    BY <2>1 DEF TablesOK, PullsOK, DjangoExists
  <2>3. SavingOK' /\ LinksOK'
    BY <2>1 DEF SavingOK, LinksOK
  <2>4. StoredOK'
    BY <2>1 DEF StoredOK
  <2> QED
    BY <2>2, <2>3, <2>4
<1>14. CASE UNCHANGED vars
  <2>1. UNCHANGED <<model, kept, logs, note, stored, links, copies, pc, saving, clock, crashes>>
    BY <1>14 DEF vars, databases, client
  <2>2. TablesOK' /\ PullsOK'
    BY <2>1 DEF TablesOK, PullsOK, MayBeSaved, DjangoExists
  <2>3. SavingOK' /\ StoredOK' /\ LinksOK'
    BY <2>1 DEF SavingOK, StoredOK, LinksOK, MayBeSaved, DjangoExists
  <2> QED
    BY <2>2, <2>3
<1> QED
  BY <1>1, <1>2, <1>3, <1>4, <1>5, <1>6, <1>7, <1>8, <1>9, <1>10, <1>11, <1>12, <1>13,
     <1>14 DEF Next, Operation

\* Of the numbers beyond another one, one is the nearest.
LEMMA NearestMember ==
    ASSUME NEW T, T \subseteq Nat, IsFiniteSet(T), T # {}, NEW sign
    PROVE  \E x \in T : \A y \in T : ~Beyond(sign, x, y)
<1>1. \A x \in T : x \in Nat
  OBVIOUS
<1>2. CASE sign = "+"
  <2>1. PICK x \in T : \A y \in T : x <= y
    BY SmallestMember
  <2> QED
    BY <1>1, <1>2, <2>1 DEF Beyond
<1>3. CASE sign # "+"
  <2>1. PICK x \in T : \A y \in T : y <= x
    BY GreatestMember
  <2> QED
    BY <1>1, <1>3, <2>1 DEF Beyond
<1> QED
  BY <1>2, <1>3

LEMMA AheadAre ==
    ASSUME TablesOK, NEW b \in Builds, NEW sign
    PROVE  /\ Ahead(sign, b) \subseteq Done(MachineOf[b])
           /\ Ahead(sign, b) \subseteq Builds /\ IsFiniteSet(Ahead(sign, b))
           /\ \A c \in Ahead(sign, b) : BuiltAt[c] \in Nat
<1>1. Ahead(sign, b) \in SUBSET Done(MachineOf[b])
  BY DEF Ahead
<1> QED
  BY <1>1, DoneAre, FS_Subset, DatabasesAssumption

\* Next and previous of a record are those of a completed build of the
\* machine, or are missing; those of a completed build are its neighbours.
LEMMA AdjacentIs ==
    ASSUME TablesOK, NEW b \in Builds, DjangoExists(b), NEW sign \in Signs
    PROVE  LET r == Adjacent(Record(b), sign) IN
           /\ r # Nil => r.build \in Done(MachineOf[b]) /\ r = Record(r.build)
           /\ Record(b).completed =>
                IF Ahead(sign, b) = {} THEN r = Nil
                ELSE /\ r # Nil /\ r.build \in Ahead(sign, b)
                     /\ \A c \in Ahead(sign, b) :
                            ~Beyond(sign, BuiltAt[r.build], BuiltAt[c])
<1> DEFINE R == Record(b)
           m == MachineOf[b]
           found == {r \in RowsOf(m) : /\ r.completed /\ r.built # Nil
                                       /\ R.built # Nil => Beyond(sign, r.built, R.built)}
           before(x, y) == Beyond(sign, y.built, x.built)
           r == Adjacent(R, sign)
<1>1. R.build = b /\ R.built = IF R.completed THEN BuiltAt[b] ELSE Nil
  BY RecordIs
<1>2. BuiltAt[b] \in Nat /\ BuiltAt[b] # Nil
  BY DatabasesAssumption
<1>3. \A x \in found : /\ x.build \in Done(m) /\ x.built = BuiltAt[x.build] /\ x = Record(x.build)
                       /\ x # Nil /\ BuiltAt[x.build] \in Nat
                       /\ R.completed => x.build \in Ahead(sign, b)
  <2> SUFFICES ASSUME NEW x \in found
               PROVE  /\ x.build \in Done(m) /\ x.built = BuiltAt[x.build] /\ x = Record(x.build)
                      /\ x # Nil /\ BuiltAt[x.build] \in Nat
                      /\ R.completed => x.build \in Ahead(sign, b)
    OBVIOUS
  <2>1. /\ x.build \in Builds /\ DjangoExists(x.build) /\ MachineOf[x.build] = m
        /\ x = Record(x.build) /\ x.completed
    BY RowsAre
  <2>2. x # Nil /\ x.built = BuiltAt[x.build]
    BY <2>1, RecordIs
  <2>3. x.build \in Done(m) /\ BuiltAt[x.build] \in Nat
    BY <2>1, DoneAre, DatabasesAssumption
  <2>4. R.completed => Beyond(sign, BuiltAt[x.build], BuiltAt[b])
    BY <1>1, <1>2, <2>2
  <2> QED
    BY <2>1, <2>2, <2>3, <2>4 DEF Ahead
<1>4. \A c \in Done(m) : /\ Record(c).build = c /\ Record(c).built = BuiltAt[c]
                         /\ Record(c) \in RowsOf(m) /\ Record(c).completed
                         /\ Record(c).built # Nil
  BY DoneAre, RowsAre, RecordIs, DatabasesAssumption
<1>5. R.completed => \A c \in Ahead(sign, b) : Record(c) \in found
  BY <1>1, <1>4 DEF Ahead
<1>6. r = IF found = {} THEN Nil
          ELSE CHOOSE x \in found : \A y \in found : ~Beyond(sign, x.built, y.built)
  <2>0. MachineOf[R.build] = m
    BY <1>1
  <2>1. CASE sign = "+"
    <3>1. found = {x \in RowsOf(m) : /\ x.completed
                                     /\ R.built # Nil => x.built # Nil /\ x.built > R.built}
      <4>1. ASSUME NEW x \in RowsOf(m), x.completed PROVE x.built # Nil
        <5>1. x.build \in Builds /\ DjangoExists(x.build) /\ x = Record(x.build)
          BY RowsAre
        <5>2. Record(x.build).completed => Record(x.build).built = BuiltAt[x.build]
          BY <5>1, RecordIs
        <5>3. BuiltAt[x.build] # Nil
          BY <5>1, DatabasesAssumption
        <5> QED
          BY <4>1, <5>1, <5>2, <5>3
      <4> QED
        BY <2>1, <4>1 DEF Beyond
    <3> HIDE DEF found, R, m
    <3>2. DjangoNext(R) = IF found = {} THEN Nil
            ELSE CHOOSE x \in found : \A y \in found : ~(y.built < x.built)
      BY <2>0, <3>1 DEF DjangoNext, FirstBy
    <3> QED
      BY <2>1, <3>2 DEF Adjacent, Beyond
  <2>2. CASE sign = "-"
    <3>1. found = {x \in RowsOf(m) : /\ x.completed /\ x.built # Nil
                                     /\ R.built # Nil => x.built < R.built}
      BY <2>2 DEF Beyond
    <3> HIDE DEF found, R, m
    <3>2. DjangoPrevious(R) = IF found = {} THEN Nil
            ELSE CHOOSE x \in found : \A y \in found : ~(y.built > x.built)
      BY <2>0, <3>1 DEF DjangoPrevious, FirstBy
    <3> QED
      BY <2>2, <3>2 DEF Adjacent, Beyond
  <2> QED
    BY <2>1, <2>2 DEF Signs
<1> HIDE DEF found, r, R, m
<1>7. found # {} => r \in found /\ \A y \in found : ~Beyond(sign, r.built, y.built)
  <2>1. SUFFICES ASSUME found # {}
                 PROVE  \E x \in found : \A y \in found : ~Beyond(sign, x.built, y.built)
    BY <1>6
  <2> DEFINE S == {x.build : x \in found}
             T == TimesOf(S)
  <2>2. S # {} /\ S \in SUBSET Done(m) /\ T # {}
    BY <1>3, <2>1 DEF TimesOf
  <2>3. S \subseteq Builds /\ IsFiniteSet(S)
    BY <2>2, DoneAre, FS_Subset
  <2>4. T \subseteq Nat /\ IsFiniteSet(T)
    <3> HIDE DEF S
    <3> QED
      BY <2>3, TimesAre
  <2>5. PICK t \in T : \A y \in T : ~Beyond(sign, t, y)
    <3> HIDE DEF T
    <3> QED
      BY <2>2, <2>4, NearestMember
  <2>6. PICK x \in found : t = BuiltAt[x.build]
    BY DEF TimesOf
  <2>7. \A y \in found : BuiltAt[y.build] \in T
    BY DEF TimesOf
  <2> HIDE DEF T
  <2> QED
    BY <1>3, <2>5, <2>6, <2>7
<1>8. r # Nil => r.build \in Done(m) /\ r = Record(r.build)
  BY <1>3, <1>6, <1>7
<1>9. ASSUME R.completed
      PROVE  IF Ahead(sign, b) = {} THEN r = Nil
             ELSE /\ r # Nil /\ r.build \in Ahead(sign, b)
                  /\ \A c \in Ahead(sign, b) :
                        ~Beyond(sign, BuiltAt[r.build], BuiltAt[c])
  <2>1. CASE Ahead(sign, b) = {}
    BY <1>3, <1>6, <1>9, <2>1
  <2>2. CASE Ahead(sign, b) # {}
    <3>1. found # {}
      BY <1>5, <1>9, <2>2
    <3>2. r # Nil /\ r.build \in Ahead(sign, b) /\ r.built = BuiltAt[r.build]
      BY <1>3, <1>7, <1>9, <3>1
    <3>3. ASSUME NEW c \in Ahead(sign, b) PROVE ~Beyond(sign, BuiltAt[r.build], BuiltAt[c])
      <4>1. Record(c) \in found /\ c \in Done(m)
        BY <1>5, <1>9 DEF Ahead, m
      <4>2. Record(c).built = BuiltAt[c]
        BY <1>4, <4>1
      <4> QED
        BY <1>7, <3>1, <3>2, <4>1, <4>2
    <3> QED
      BY <2>2, <3>2, <3>3
  <2> QED
    BY <2>1, <2>2
<1> QED
  BY <1>8, <1>9 DEF r, R, m

\* A record that a query may return
IsRecord(r) == r.build \in Builds /\ DjangoExists(r.build) /\ r = Record(r.build)

\* From a build that has a row, Walk reaches builds that have one.
LEMMA WalkFits ==
    ASSUME TablesOK, NEW record, IsRecord(record), NEW sign \in Signs, NEW n \in Nat
    PROVE  LET r == Walk(record, sign, n) IN r # Nil => IsRecord(r)
<1>1. PICK f : /\ f = [i \in 0..n |-> IF i = 0 THEN record
                                      ELSE IF f[i - 1] = Nil THEN Nil
                                      ELSE Adjacent(f[i - 1], sign)]
               /\ Walk(record, sign, n) = f[n]
  BY WalkIs
<1> DEFINE fits(i) == i <= n => (f[i] # Nil => IsRecord(f[i]))
           T == {i \in Nat : fits(i)}
<1>2. 0 \in T
  BY <1>1
<1>3. ASSUME NEW i \in T PROVE i + 1 \in T
  <2> SUFFICES ASSUME i + 1 <= n, f[i + 1] # Nil PROVE IsRecord(f[i + 1])
    OBVIOUS
  <2>1. f[i + 1] = IF f[i] = Nil THEN Nil ELSE Adjacent(f[i], sign)
    BY <1>1
  <2>2. f[i] # Nil /\ IsRecord(f[i]) /\ f[i + 1] = Adjacent(f[i], sign)
    BY <2>1
  <2> DEFINE b == f[i].build
             r == Adjacent(f[i], sign)
  <2>3. b \in Builds /\ DjangoExists(b) /\ f[i] = Record(b)
    BY <2>2 DEF IsRecord
  <2> HIDE DEF b
  <2>4. r # Nil => r.build \in Done(MachineOf[b]) /\ r = Record(r.build)
    BY <2>3, AdjacentIs
  <2> HIDE DEF r
  <2>5. r # Nil => IsRecord(r)
    BY <2>4, DoneAre DEF IsRecord
  <2> QED
    BY <2>2, <2>5 DEF r
<1>4. T = Nat
  <2> HIDE DEF fits
  <2> QED
    BY <1>2, <1>3, AllNumbers
<1>5. fits(n)
  <2> HIDE DEF fits
  <2> QED
    BY <1>4
<1> QED
  BY <1>1, <1>5

\* One more step from a build of the nth time ahead is to one of the next time.
LEMMA StepIsNth ==
    ASSUME TablesOK, NEW b \in Builds, DjangoExists(b), Record(b).completed,
           NEW sign \in Signs, NEW n \in Nat, NEW r, IsNth(r, b, sign, n)
    PROVE  IsNth(IF r = Nil THEN Nil ELSE Adjacent(r, sign), b, sign, n + 1)
<1> DEFINE A == Ahead(sign, b)
           c == r.build
           s == Adjacent(r, sign)
           upto(x) == {y \in A : ~Beyond(sign, BuiltAt[y], BuiltAt[x])}
<1>1. /\ A \subseteq Builds /\ IsFiniteSet(A) /\ A \subseteq Done(MachineOf[b])
      /\ \A y \in A : BuiltAt[y] \in Nat
  BY AheadAre
<1>2. IsFiniteSet(TimesOf(A)) /\ Cardinality(TimesOf(A)) \in Nat
  <2> HIDE DEF A
  <2> QED
    BY <1>1, TimesAre, FS_CardinalityType
<1>3. CASE r = Nil
  BY <1>2, <1>3 DEF IsNth
<1>4. CASE r # Nil
  <2>1. c \in A \cup {b} /\ r = Record(c) /\ Cardinality(TimesOf(upto(c))) = n
    BY <1>4 DEF IsNth
  <2>2. BuiltAt[b] \in Nat /\ b \in Done(MachineOf[b])
    BY DoneAre, DatabasesAssumption
  <2>3. /\ c \in Builds /\ DjangoExists(c) /\ Record(c).completed
        /\ MachineOf[c] = MachineOf[b] /\ BuiltAt[c] \in Nat
    BY <1>1, <2>1, <2>2, DoneAre, DatabasesAssumption
  <2> HIDE DEF c
  <2>4. IF Ahead(sign, c) = {} THEN s = Nil
        ELSE /\ s # Nil /\ s.build \in Ahead(sign, c)
             /\ \A d \in Ahead(sign, c) : ~Beyond(sign, BuiltAt[s.build], BuiltAt[d])
    BY <2>1, <2>3, AdjacentIs
  <2>5. s # Nil => s.build \in Done(MachineOf[c]) /\ s = Record(s.build)
    BY <2>1, <2>3, AdjacentIs
  <2>6. Ahead(sign, c) = {d \in Done(MachineOf[b]) : Beyond(sign, BuiltAt[d], BuiltAt[c])}
    BY <2>3 DEF Ahead
  <2>7. \A d \in Done(MachineOf[b]) : BuiltAt[d] \in Nat
    BY DoneAre, DatabasesAssumption
  <2>8. Ahead(sign, c) = {d \in A : Beyond(sign, BuiltAt[d], BuiltAt[c])}
    <3>1. A = {d \in Done(MachineOf[b]) : Beyond(sign, BuiltAt[d], BuiltAt[b])}
      BY DEF Ahead
    <3>2. c = b \/ Beyond(sign, BuiltAt[c], BuiltAt[b])
      BY <2>1, <3>1
    <3>3. \A d \in Done(MachineOf[b]) :
            Beyond(sign, BuiltAt[d], BuiltAt[c]) => Beyond(sign, BuiltAt[d], BuiltAt[b])
      BY <2>2, <2>3, <2>7, <3>2 DEF Beyond
    <3> HIDE DEF A
    <3> QED
      BY <2>6, <3>1, <3>3
  <2> HIDE DEF s, A
  <2>9. CASE Ahead(sign, c) = {}
    <3>1. upto(c) = A
      BY <2>8, <2>9
    <3> HIDE DEF upto
    <3>2. s = Nil /\ Cardinality(TimesOf(A)) < n + 1
      BY <2>1, <2>4, <2>9, <3>1
    <3> QED
      BY <1>4, <3>2 DEF IsNth, s, A
  <2>10. CASE Ahead(sign, c) # {}
    <3> DEFINE d == s.build
    <3>1. s # Nil /\ d \in A /\ Beyond(sign, BuiltAt[d], BuiltAt[c]) /\ s = Record(d)
      BY <2>4, <2>5, <2>8, <2>10
    <3>2. \A y \in A : Beyond(sign, BuiltAt[y], BuiltAt[c])
                            => ~Beyond(sign, BuiltAt[d], BuiltAt[y])
      BY <2>4, <2>8, <2>10
    <3> HIDE DEF d
    <3>3. \A y \in A : ~Beyond(sign, BuiltAt[y], BuiltAt[d])
                <=> ~Beyond(sign, BuiltAt[y], BuiltAt[c]) \/ BuiltAt[y] = BuiltAt[d]
      BY <1>1, <2>3, <3>1, <3>2 DEF Beyond
    <3>4. /\ TimesOf(upto(d)) = TimesOf(upto(c)) \cup {BuiltAt[d]}
          /\ BuiltAt[d] \notin TimesOf(upto(c))
      <4>1. \A x : x \in TimesOf(upto(d)) <=> \E y \in A :
                        x = BuiltAt[y] /\ ~Beyond(sign, BuiltAt[y], BuiltAt[d])
        BY DEF TimesOf
      <4>2. \A x : x \in TimesOf(upto(c)) <=> \E y \in A :
                        x = BuiltAt[y] /\ ~Beyond(sign, BuiltAt[y], BuiltAt[c])
        BY DEF TimesOf
      <4> HIDE DEF upto
      <4> QED
        BY <3>1, <3>3, <4>1, <4>2
    <3>5. IsFiniteSet(TimesOf(upto(c)))
      <4>1. upto(c) \in SUBSET A
        OBVIOUS
      <4> HIDE DEF upto
      <4>2. upto(c) \subseteq Builds /\ IsFiniteSet(upto(c))
        BY <1>1, <4>1, FS_Subset DEF A
      <4> QED
        BY <4>2, TimesAre
    <3>6. Cardinality(TimesOf(upto(d))) = n + 1
      <4> HIDE DEF upto
      <4> QED
        BY <2>1, <3>4, <3>5, FS_AddElement
    <3> QED
      BY <1>4, <3>1, <3>6 DEF IsNth, s, A, d
  <2> QED
    BY <2>9, <2>10
<1> QED
  BY <1>3, <1>4

\* Walk counts the times at which builds were started since, or before, a
\* completed one.
LEMMA WalkIsNth ==
    ASSUME TablesOK, NEW b \in Builds, DjangoExists(b), Record(b).completed,
           NEW sign \in Signs, NEW n \in Nat
    PROVE  IsNth(Walk(Record(b), sign, n), b, sign, n)
<1>1. PICK f : /\ f = [i \in 0..n |-> IF i = 0 THEN Record(b)
                                      ELSE IF f[i - 1] = Nil THEN Nil
                                      ELSE Adjacent(f[i - 1], sign)]
               /\ Walk(Record(b), sign, n) = f[n]
  BY WalkIs
<1> DEFINE fits(i) == i <= n => IsNth(f[i], b, sign, i)
           T == {i \in Nat : fits(i)}
<1>2. 0 \in T
  <2>1. f[0] = Record(b)
    BY <1>1
  <2>2. Record(b) # Nil /\ Record(b).build = b
    BY RecordIs
  <2>3. {c \in Ahead(sign, b) : ~Beyond(sign, BuiltAt[c], BuiltAt[b])} = {}
    BY DEF Ahead
  <2>4. IsNth(Record(b), b, sign, 0)
    BY <2>2, <2>3, FS_EmptySet DEF IsNth, TimesOf
  <2> QED
    BY <2>1, <2>4
<1>3. ASSUME NEW i \in T PROVE i + 1 \in T
  <2> SUFFICES ASSUME i + 1 <= n PROVE IsNth(f[i + 1], b, sign, i + 1)
    OBVIOUS
  <2>1. f[i + 1] = IF f[i] = Nil THEN Nil ELSE Adjacent(f[i], sign)
    BY <1>1
  <2>2. i \in Nat /\ IsNth(f[i], b, sign, i)
    OBVIOUS
  <2> QED
    BY <2>1, <2>2, StepIsNth
<1>4. T = Nat
  <2> HIDE DEF fits
  <2> QED
    BY <1>2, <1>3, AllNumbers
<1>5. fits(n)
  <2> HIDE DEF fits
  <2> QED
    BY <1>4
<1> QED
  BY <1>1, <1>5

(***************************************************************************)
(* Names                                                                   *)
(***************************************************************************)

\* What names are made of
Tokens == STRING \cup Signs \cup Digits \cup {"@"}

\* What the first i tokens of a name resolve to, when f[j] is what the first
\* j do.
Resolved(f, m, name, i) ==
    LET prefix == SubSeq(name, 1, i) IN
    IF ~IsOffset(prefix) THEN Named(m, prefix)
    ELSE IF f[i - 2] \in {Nil, Invalid} THEN f[i - 2]
    ELSE Walk(f[i - 2], prefix[i - 1], ValueOf[prefix[i]])

Resolves(f, m, name, n) == f = [i \in 0..n |-> Resolved(f, m, name, i)]

LEMMA PrefixIs ==
    ASSUME NEW name \in Seq(Tokens), NEW i \in 0..Len(name)
    PROVE  /\ Len(SubSeq(name, 1, i)) = i
           /\ \A j \in 1..i : SubSeq(name, 1, i)[j] = name[j]
           /\ IsOffset(SubSeq(name, 1, i)) <=>
                i >= 2 /\ name[i] \in Digits /\ name[i - 1] \in Signs
<1> DEFINE prefix == SubSeq(name, 1, i)
<1>1. Len(name) \in Nat /\ \A j \in 1..Len(name) : name[j] \in Tokens
  BY ElementOfSeq, LenProperties
<1>2. i \in Nat /\ \A j \in 1..i : name[j] \in Tokens
  BY <1>1
<1>3. Len(prefix) = i /\ \A j \in 1..i : prefix[j] = name[j]
  BY <1>1, <1>2, SubSeqProperties
<1> HIDE DEF prefix
<1>4. IsOffset(prefix) <=> i >= 2 /\ name[i] \in Digits /\ name[i - 1] \in Signs
  BY <1>2, <1>3 DEF IsOffset
<1> QED
  BY <1>3, <1>4 DEF prefix

LEMMA ResolvedIs ==
    ASSUME NEW m, NEW name \in Seq(Tokens)
    PROVE  \E f : Resolves(f, m, name, Len(name)) /\ ResolveTag(m, name) = f[Len(name)]
<1> DEFINE n == Len(name)
           T == {k \in Nat : k <= n => \E f : Resolves(f, m, name, k)}
<1>1. n \in Nat
  BY LenProperties
<1>2. 0 \in T
  <2> DEFINE f == [i \in 0..0 |-> Named(m, SubSeq(name, 1, i))]
  <2>1. ~IsOffset(SubSeq(name, 1, 0))
    BY <1>1, PrefixIs
  <2>2. Resolves(f, m, name, 0)
    BY <2>1 DEF Resolves, Resolved
  <2> QED
    BY <2>2
<1>3. ASSUME NEW k \in T PROVE k + 1 \in T
  <2> SUFFICES ASSUME k + 1 <= n PROVE \E f : Resolves(f, m, name, k + 1)
    OBVIOUS
  <2>1. PICK f : Resolves(f, m, name, k)
    BY <1>1
  <2> DEFINE prefix(i) == SubSeq(name, 1, i)
             g == [i \in 0..(k + 1) |-> IF i <= k THEN f[i]
                     ELSE IF ~IsOffset(prefix(i)) THEN Named(m, prefix(i))
                     ELSE IF f[i - 2] \in {Nil, Invalid} THEN f[i - 2]
                     ELSE Walk(f[i - 2], prefix(i)[i - 1], ValueOf[prefix(i)[i]])]
  <2>2. \A i \in 0..(k + 1) : IsOffset(prefix(i)) => i >= 2
    BY <1>1, PrefixIs
  <2> HIDE DEF prefix
  <2>3. \A i \in 0..k : g[i] = f[i]
    OBVIOUS
  <2>4. ASSUME NEW i \in 0..(k + 1)
        PROVE  g[i] = IF ~IsOffset(prefix(i)) THEN Named(m, prefix(i))
                      ELSE IF g[i - 2] \in {Nil, Invalid} THEN g[i - 2]
                      ELSE Walk(g[i - 2], prefix(i)[i - 1], ValueOf[prefix(i)[i]])
    <3>1. IsOffset(prefix(i)) => g[i - 2] = f[i - 2]
      BY <2>2, <2>3
    <3>2. CASE i \in 0..k
      <4>1. f[i] = IF ~IsOffset(prefix(i)) THEN Named(m, prefix(i))
                   ELSE IF f[i - 2] \in {Nil, Invalid} THEN f[i - 2]
                   ELSE Walk(f[i - 2], prefix(i)[i - 1], ValueOf[prefix(i)[i]])
        BY <2>1, <3>2 DEF Resolves, Resolved, prefix
      <4> HIDE DEF g
      <4> QED
        BY <2>3, <3>1, <3>2, <4>1
    <3>3. CASE i = k + 1
      <4>1. g[i] = IF ~IsOffset(prefix(i)) THEN Named(m, prefix(i))
                   ELSE IF f[i - 2] \in {Nil, Invalid} THEN f[i - 2]
                   ELSE Walk(f[i - 2], prefix(i)[i - 1], ValueOf[prefix(i)[i]])
        BY <3>3
      <4> HIDE DEF g
      <4> QED
        BY <3>1, <4>1
    <3> QED
      BY <3>2, <3>3
  <2>5. g = [i \in 0..(k + 1) |-> g[i]]
    OBVIOUS
  <2> HIDE DEF g
  <2>6. Resolves(g, m, name, k + 1)
    BY <2>4, <2>5 DEF Resolves, Resolved, prefix
  <2> QED
    BY <2>6
<1>4. PICK h : Resolves(h, m, name, n)
  <2>1. T = Nat
    <3> HIDE DEF n
    <3> QED
      BY <1>2, <1>3, AllNumbers
  <2> QED
    BY <1>1, <2>1
<1>5. ResolveTag(m, name) = (CHOOSE f : Resolves(f, m, name, n))[n]
  BY DEF ResolveTag, Resolves, Resolved
<1> QED
  BY <1>4, <1>5

LEMMA ResolvedAt ==
    ASSUME NEW m, NEW name, NEW n \in Nat, NEW f, Resolves(f, m, name, n), NEW i \in 0..n
    PROVE  f[i] = Resolved(f, m, name, i)
BY DEF Resolves

LEMMA DigitsAre ==
    \A digits \in Digits : ValueOf[digits] \in Nat
<1>1. Digits = {"0", "1", "2"}
  BY DEF Digits, ValueOf
<1>2. ValueOf["0"] = 0 /\ ValueOf["1"] = 1 /\ ValueOf["2"] = 2
  BY DEF ValueOf
<1> QED
  BY <1>1, <1>2

\* A name without an offset
LEMMA PlainName ==
    ASSUME NEW m, NEW name \in Seq(Tokens), ~IsOffset(name)
    PROVE  ResolveTag(m, name) = Named(m, name)
<1>1. PICK f : Resolves(f, m, name, Len(name)) /\ ResolveTag(m, name) = f[Len(name)]
  BY ResolvedIs
<1>2. Len(name) \in Nat /\ SubSeq(name, 1, Len(name)) = name
  BY LenProperties, SubSeqFull
<1>3. f[Len(name)] = Named(m, name)
  <2>1. f[Len(name)] = Resolved(f, m, name, Len(name))
    BY <1>1, <1>2, ResolvedAt
  <2> QED
    BY <1>2, <2>1 DEF Resolved
<1> QED
  BY <1>1, <1>3

\* A name with an offset at its end, and no other
LEMMA OffsetName ==
    ASSUME NEW m, NEW name \in Seq(Tokens), ~IsOffset(name),
           NEW sign \in Signs, NEW digits \in Digits
    PROVE  ResolveTag(m, name \o <<sign, digits>>) =
                IF Named(m, name) \in {Nil, Invalid} THEN Named(m, name)
                ELSE Walk(Named(m, name), sign, ValueOf[digits])
<1> DEFINE long == name \o <<sign, digits>>
           k == Len(name)
<1>1. k \in Nat /\ SubSeq(name, 1, k) = name
  BY LenProperties, SubSeqFull
<1>2. <<sign, digits>> \in Seq(Tokens)
  <2>1. sign \in Tokens /\ digits \in Tokens
    BY DEF Tokens
  <2> QED
    BY <2>1
<1>3. long \in Seq(Tokens) /\ Len(long) = k + 2
  BY <1>2, ConcatProperties
<1>4. \A i \in 1..k + 2 : long[i] = IF i <= k THEN name[i] ELSE <<sign, digits>>[i - k]
  BY <1>2, ConcatProperties
<1>5. long[k + 1] = sign /\ long[k + 2] = digits
  BY <1>1, <1>4
<1> HIDE DEF long
<1>6. SubSeq(long, 1, k) = name
  <2>1. /\ Len(SubSeq(long, 1, k)) = k
        /\ \A j \in 1..k : SubSeq(long, 1, k)[j] = long[j]
    BY <1>1, <1>3, PrefixIs
  <2>2. \A j \in 1..k : long[j] \in Tokens
    BY <1>1, <1>3, ElementOfSeq
  <2>3. SubSeq(long, 1, k) \in Seq(Tokens)
    BY <1>1, <2>2, SubSeqProperties
  <2>4. \A j \in 1..k : long[j] = name[j]
    BY <1>1, <1>4
  <2> QED
    BY <2>1, <2>3, <2>4, SeqEqual
<1> DEFINE whole == SubSeq(long, 1, k + 2)
<1>7. IsOffset(whole) /\ whole[k + 1] = sign /\ whole[k + 2] = digits
  BY <1>1, <1>3, <1>5, PrefixIs
<1>8. PICK f : Resolves(f, m, long, k + 2) /\ ResolveTag(m, long) = f[k + 2]
  BY <1>3, ResolvedIs
<1>9. f[k] = Named(m, name)
  <2>1. k + 2 \in Nat /\ k \in 0..(k + 2)
    BY <1>1
  <2> QED
    <3>1. f[k] = Resolved(f, m, long, k)
      BY <1>8, <2>1, ResolvedAt
    <3> QED
      BY <1>6, <3>1 DEF Resolved
<1>10. f[k + 2] = IF f[k] \in {Nil, Invalid} THEN f[k]
                  ELSE Walk(f[k], whole[k + 1], ValueOf[whole[k + 2]])
  <2>1. /\ k + 2 \in Nat /\ k + 2 \in 0..(k + 2)
        /\ (k + 2) - 2 = k /\ (k + 2) - 1 = k + 1
    BY <1>1
  <2>2. f[k + 2] = Resolved(f, m, long, k + 2)
    BY <1>8, <2>1, ResolvedAt
  <2> QED
    BY <1>7, <2>1, <2>2 DEF Resolved
<1> QED
  BY <1>7, <1>8, <1>9, <1>10 DEF long

\* What storage finds for a name
LEMMA NamedIs ==
    ASSUME TablesOK, LinksOK, stored \subseteq Builds, NEW m \in Machines, NEW name \in TagNames
    PROVE  LET r == Named(m, name) IN
           /\ r \notin {Nil, Invalid} =>
                links[m][name] \in stored /\ r = Record(links[m][name])
           /\ name = Published \/ IsValid(name) =>
                IF links[m][name] \in stored THEN r = Record(links[m][name]) ELSE r = Nil
<1>1. name # <<"@">>
  BY ResolutionAssumption
<1>2. \A b \in stored : b # Nil /\ b # Invalid
  BY DatabasesAssumption, ResolutionAssumption
<1> DEFINE b == links[m][name]
           found == StorageResolveTag(m, name)
<1>3. found = IF name # Published /\ ~IsValid(name) THEN Invalid
              ELSE IF b \in stored THEN b ELSE Nil
  BY DEF StorageResolveTag
<1>4. Named(m, name) = IF found \in {Nil, Invalid} THEN found ELSE Record(found)
  BY <1>1 DEF Named
<1> HIDE DEF b, found
<1>5. b \in stored => Record(b) = Record(links[m][name])
  BY DEF b
<1> QED
  BY <1>2, <1>3, <1>4, <1>5 DEF b

\* Whatever resolves has a row, where what is in storage has one.
LEMMA ResolvedFits ==
    ASSUME TablesOK, LinksOK, stored \subseteq Builds, \A b \in stored : DjangoExists(b),
           NEW m \in Machines, NEW name \in Seq(Tokens)
    PROVE  LET r == ResolveTag(m, name) IN r \notin {Nil, Invalid} => IsRecord(r)
<1> DEFINE good(r) == r \notin {Nil, Invalid} => IsRecord(r)
<1>1. PICK f : Resolves(f, m, name, Len(name)) /\ ResolveTag(m, name) = f[Len(name)]
  BY ResolvedIs
<1>2. Len(name) \in Nat
  BY LenProperties
<1>3. \A prefix : good(Named(m, prefix))
  <2> SUFFICES ASSUME NEW prefix, Named(m, prefix) \notin {Nil, Invalid}
               PROVE  IsRecord(Named(m, prefix))
    OBVIOUS
  <2>1. CASE prefix = <<"@">>
    <3> DEFINE r == DjangoLatest(m)
    <3>1. Named(m, prefix) = r
      BY <2>1 DEF Named
    <3>2. r # Nil => r.build \in Done(m) /\ r = Record(r.build)
      BY LatestIs
    <3> HIDE DEF r
    <3> QED
      BY <3>1, <3>2, DoneAre DEF IsRecord
  <2>2. CASE prefix # <<"@">>
    <3> DEFINE b == StorageResolveTag(m, prefix)
    <3>1. b \in stored /\ Named(m, prefix) = Record(b)
      BY <2>2 DEF Named, StorageResolveTag
    <3> HIDE DEF b
    <3>2. b \in Builds /\ DjangoExists(b)
      BY <3>1
    <3>3. Record(b).build = b
      BY <3>2, RecordIs
    <3> QED
      BY <3>1, <3>2, <3>3 DEF IsRecord
  <2> QED
    BY <2>1, <2>2
<1> DEFINE fits(k) == \A i \in 0..k : i <= Len(name) => good(f[i])
           T == {k \in Nat : fits(k)}
<1> HIDE DEF good
<1>4. 0 \in T
  <2>1. ~IsOffset(SubSeq(name, 1, 0))
    BY <1>2, PrefixIs
  <2>2. f[0] = Named(m, SubSeq(name, 1, 0))
    BY <1>1, <1>2, <2>1, ResolvedAt DEF Resolved
  <2> QED
    BY <1>3, <2>2
<1>5. ASSUME NEW k \in T PROVE k + 1 \in T
  <2> DEFINE i == k + 1
             prefix == SubSeq(name, 1, i)
  <2> SUFFICES ASSUME i <= Len(name) PROVE good(f[i])
    BY <1>2
  <2>1. f[i] = IF ~IsOffset(prefix) THEN Named(m, prefix)
               ELSE IF f[i - 2] \in {Nil, Invalid} THEN f[i - 2]
               ELSE Walk(f[i - 2], prefix[i - 1], ValueOf[prefix[i]])
    <3>1. i \in 0..Len(name)
      BY <1>2
    <3>2. f[i] = Resolved(f, m, name, i)
      BY <1>1, <1>2, <3>1, ResolvedAt
    <3> QED
      BY <3>2 DEF Resolved
  <2>2. CASE ~IsOffset(prefix)
    BY <1>3, <2>1, <2>2
  <2>3. CASE IsOffset(prefix)
    <3>1. /\ i >= 2 /\ prefix[i] \in Digits /\ prefix[i - 1] \in Signs
      BY <1>2, <2>3, PrefixIs
    <3>2. ValueOf[prefix[i]] \in Nat
      BY <3>1, DigitsAre
    <3>3. good(f[i - 2])
      BY <1>2, <3>1
    <3> DEFINE sign == prefix[i - 1]
               n == ValueOf[prefix[i]]
               r == f[i - 2]
    <3>4. sign \in Signs /\ n \in Nat
      BY <3>1, <3>2
    <3>5. f[i] = IF r \in {Nil, Invalid} THEN r ELSE Walk(r, sign, n)
      BY <2>1, <2>3
    <3>6. good(r)
      BY <3>3
    <3> HIDE DEF sign, n, r
    <3>7. r \notin {Nil, Invalid} => (Walk(r, sign, n) # Nil => IsRecord(Walk(r, sign, n)))
      BY <3>4, <3>6, WalkFits DEF good
    <3> QED
      BY <3>5, <3>7 DEF good
  <2> QED
    BY <2>2, <2>3
<1>6. fits(Len(name))
  <2>1. T = Nat
    <3> HIDE DEF fits
    <3> QED
      BY <1>4, <1>5, AllNumbers
  <2> QED
    BY <1>2, <2>1
<1>7. good(f[Len(name)])
  BY <1>2, <1>6
<1> QED
  BY <1>1, <1>7 DEF good

LEMMA NamesAre ==
    /\ TagNames \subseteq Seq(Tokens)
    /\ <<"@">> \in Seq(Tokens) /\ ~IsOffset(<<"@">>)
<1>1. \A name \in Seq(STRING) : name \in Seq(Tokens)
  <2>1. STRING \subseteq Tokens
    BY DEF Tokens
  <2> QED
    BY <2>1, SeqMonotonic
<1>2. "@" \in Tokens
  BY DEF Tokens
<1> QED
  BY <1>1, <1>2, ResolutionAssumption DEF IsOffset

(***************************************************************************)
(* Memory                                                                  *)
(***************************************************************************)

\* When save() returns, the four tables together hold what it was given.
LEMMA SaveNoteGives ==
    ASSUME ResolutionInv, SaveNote, NEW b \in Builds, saving.build = b
    PROVE  DjangoGet(b)' = saving
<1>1. /\ pc = "note" /\ note' = [note EXCEPT ![b] = saving.note]
      /\ UNCHANGED <<model, kept, logs>>
  BY DEF SaveNote, UpdateNote
<1>2. /\ MayBeSaved(saving) /\ (b \in kept <=> saving.keep) /\ logs[b] = saving.logs
      /\ model[b] = [submitted |-> saving.submitted, completed |-> saving.completed,
                     built |-> saving.built]
      /\ note \in [Builds -> Texts \cup {Nil}] /\ model[b] \in RowSet \cup {Nil}
  BY <1>1 DEF ResolutionInv, SavingOK, TablesOK
<1>3. /\ saving \in RecordSet /\ saving.submitted # Nil
      /\ saving.keep \in BOOLEAN /\ saving.completed \in BOOLEAN
  BY <1>2 DEF MayBeSaved, RecordSet
<1>4. model[b] # Nil
  <2>1. [submitted |-> saving.submitted, completed |-> saving.completed,
         built |-> saving.built] \in RowSet
    BY <1>3 DEF RecordSet, RowSet
  <2> QED
    BY <1>2, <2>1, DatabasesAssumption
<1>5. DjangoExists(b)' /\ DjangoGet(b)' = ModelRecord(b)'
  BY <1>1, <1>4 DEF DjangoExists, DjangoGet
<1>6. /\ note'[b] = saving.note /\ logs'[b] = saving.logs
      /\ model'[b].submitted = saving.submitted
      /\ model'[b].completed = saving.completed
      /\ model'[b].built = saving.built
  BY <1>1, <1>2
<1>7. (b \in kept') = saving.keep
  BY <1>1, <1>2, <1>3
<1>8. ModelRecord(b)' =
          [build |-> b, note |-> saving.note, logs |-> saving.logs, keep |-> saving.keep,
           submitted |-> saving.submitted, completed |-> saving.completed,
           built |-> saving.built]
  <2>1. ModelRecord(b)' =
          [build |-> b, note |-> note'[b], logs |-> logs'[b], keep |-> b \in kept',
           submitted |-> model'[b].submitted, completed |-> model'[b].completed,
           built |-> model'[b].built]
    BY DEF ModelRecord
  <2> QED
    BY <1>6, <1>7, <2>1, Zenon
<1>9. \A r \in RecordSet :
          r = [build |-> r.build, note |-> r.note, logs |-> r.logs, keep |-> r.keep,
               submitted |-> r.submitted, completed |-> r.completed, built |-> r.built]
  BY DEF RecordSet
<1> QED
  BY <1>1, <1>3, <1>5, <1>8, <1>9, Zenon

\* Nothing that concerns c has changed in the tables.
LEMMA SameGet ==
    ASSUME NEW c, model'[c] = model[c], logs'[c] = logs[c], note'[c] = note[c],
           c \in kept' <=> c \in kept
    PROVE  DjangoGet(c)' = DjangoGet(c) /\ (DjangoExists(c)' <=> DjangoExists(c))
<1>1. DjangoExists(c)' <=> DjangoExists(c)
  BY DEF DjangoExists
<1>2. (c \in kept') = (c \in kept)
  OBVIOUS
<1>3. /\ ModelRecord(c) =
            [build |-> c, note |-> note[c], logs |-> logs[c], keep |-> c \in kept,
             submitted |-> model[c].submitted, completed |-> model[c].completed,
             built |-> model[c].built]
      /\ ModelRecord(c)' =
            [build |-> c, note |-> note'[c], logs |-> logs'[c], keep |-> c \in kept',
             submitted |-> model'[c].submitted, completed |-> model'[c].completed,
             built |-> model'[c].built]
  BY DEF ModelRecord
<1>4. ModelRecord(c)' = ModelRecord(c)
  BY <1>2, <1>3, Zenon
<1> QED
  BY <1>1, <1>4 DEF DjangoGet

\* The keys of the dicts
Keyed == /\ DOMAIN memory \subseteq {MachineOf[b] : b \in Builds}
         /\ \A m \in DOMAIN memory : \A b \in DOMAIN memory[m] :
                b \in Builds /\ MachineOf[b] = m

LEMMA MemorySaveIs ==
    ASSUME Keyed, NEW r, r.build \in Builds, MemorySave(r)
    PROVE  /\ Keyed' /\ MemoryExists(r.build)' /\ MemoryGet(r.build)' = r
           /\ \A c \in Builds : c # r.build =>
                /\ MemoryExists(c)' <=> MemoryExists(c)
                /\ MemoryGet(c)' = MemoryGet(c)
<1> DEFINE b == r.build
           m == MachineOf[b]
           dict == BuildsIn(m)
           new == [k \in DOMAIN dict \cup {b} |-> IF k = b THEN r ELSE dict[k]]
<1>1. memory' = [k \in DOMAIN memory \cup {m} |-> IF k = m THEN new ELSE memory[k]]
  BY DEF MemorySave, Put
<1>2. m \in {MachineOf[c] : c \in Builds}
  OBVIOUS
<1>3. dict = IF m \in DOMAIN memory THEN memory[m] ELSE <<>>
  BY DEF BuildsIn, NoRecords
<1>4. \A c \in DOMAIN dict : c \in Builds /\ MachineOf[c] = m
  BY <1>3 DEF Keyed
<1> HIDE DEF dict, m
<1>5. DOMAIN memory' = DOMAIN memory \cup {m} /\ memory'[m] = new
  BY <1>1
<1>6. \A k \in DOMAIN memory : k # m => memory'[k] = memory[k]
  BY <1>1
<1>7. DOMAIN new = DOMAIN dict \cup {b} /\ new[b] = r
      /\ \A c \in DOMAIN dict : c # b => new[c] = dict[c]
  OBVIOUS
<1> HIDE DEF new
<1>8. Keyed'
  <2>1. \A k \in DOMAIN memory' : \A c \in DOMAIN memory'[k] : c \in Builds /\ MachineOf[c] = k
    <3> SUFFICES ASSUME NEW k \in DOMAIN memory', NEW c \in DOMAIN memory'[k]
                 PROVE  c \in Builds /\ MachineOf[c] = k
      OBVIOUS
    <3>1. CASE k = m
      BY <1>4, <1>5, <1>7, <3>1 DEF m
    <3>2. CASE k # m
      BY <1>5, <1>6, <3>2 DEF Keyed
    <3> QED
      BY <3>1, <3>2
  <2> QED
    BY <1>2, <1>5, <2>1 DEF Keyed
<1>9. BuildsIn(m)' = new
  BY <1>5 DEF BuildsIn
<1>10. MemoryExists(b)' /\ MemoryGet(b)' = r
  BY <1>5, <1>7, <1>9 DEF MemoryExists, MemoryGet, m
<1>11. ASSUME NEW c \in Builds, c # b
       PROVE  (MemoryExists(c)' <=> MemoryExists(c)) /\ MemoryGet(c)' = MemoryGet(c)
  <2>1. CASE MachineOf[c] = m
    <3>1. MemoryExists(c) <=> c \in DOMAIN dict
      BY <2>1 DEF MemoryExists, dict
    <3>2. MemoryExists(c)' <=> c \in DOMAIN new
      BY <1>9, <2>1 DEF MemoryExists
    <3>3. MemoryExists(c)' <=> MemoryExists(c)
      BY <1>7, <1>11, <3>1, <3>2
    <3>4. MemoryExists(c) => memory'[m][c] = memory[m][c]
      <4> SUFFICES ASSUME c \in DOMAIN dict PROVE memory'[m][c] = memory[m][c]
        BY <3>1
      <4>1. dict = memory[m]
        BY <1>3
      <4> QED
        BY <1>5, <1>7, <1>11, <4>1
    <3> QED
      BY <2>1, <3>3, <3>4 DEF MemoryGet
  <2>2. CASE MachineOf[c] # m
    BY <1>5, <1>6, <2>2 DEF MemoryExists, MemoryGet, BuildsIn, NoRecords
  <2> QED
    BY <2>1, <2>2
<1> QED
  BY <1>8, <1>10, <1>11

LEMMA MemoryDeleteIs ==
    ASSUME Keyed, NEW b \in Builds, MemoryDelete(b)
    PROVE  /\ Keyed' /\ ~MemoryExists(b)' /\ MemoryGet(b)' = Nil
           /\ \A c \in Builds : c # b =>
                /\ MemoryExists(c)' <=> MemoryExists(c)
                /\ MemoryGet(c)' = MemoryGet(c)
<1> DEFINE m == MachineOf[b]
           new == [k \in DOMAIN memory[m] \ {b} |-> memory[m][k]]
<1>1. CASE m \notin DOMAIN memory
  <2>1. memory' = memory
    BY <1>1 DEF MemoryDelete
  <2>2. ~MemoryExists(b)
    BY <1>1 DEF MemoryExists, BuildsIn, NoRecords
  <2> QED
    BY <2>1, <2>2 DEF Keyed, MemoryExists, MemoryGet, BuildsIn
<1>2. CASE m \in DOMAIN memory
  <2>1. memory' = [memory EXCEPT ![m] = new]
    BY <1>2 DEF MemoryDelete, Restrict
  <2>2. DOMAIN new = DOMAIN memory[m] \ {b} /\ \A c \in DOMAIN memory[m] : c # b => new[c] = memory[m][c]
    OBVIOUS
  <2> HIDE DEF new, m
  <2>3. DOMAIN memory' = DOMAIN memory /\ memory'[m] = new
        /\ \A k \in DOMAIN memory : k # m => memory'[k] = memory[k]
    BY <1>2, <2>1
  <2>4. Keyed'
    <3>1. \A k \in DOMAIN memory' : \A c \in DOMAIN memory'[k] : c \in Builds /\ MachineOf[c] = k
      <4> SUFFICES ASSUME NEW k \in DOMAIN memory, NEW c \in DOMAIN memory'[k]
                   PROVE  c \in Builds /\ MachineOf[c] = k
        BY <2>3
      <4>1. c \in DOMAIN memory[k]
        BY <2>2, <2>3
      <4> QED
        BY <4>1 DEF Keyed
    <3> QED
      BY <2>3, <3>1 DEF Keyed
  <2>5. ~MemoryExists(b)'
    BY <1>2, <2>2, <2>3 DEF MemoryExists, BuildsIn, m
  <2>6. ASSUME NEW c \in Builds, c # b
        PROVE  (MemoryExists(c)' <=> MemoryExists(c)) /\ MemoryGet(c)' = MemoryGet(c)
    <3>1. CASE MachineOf[c] = m
      <4>1. (MemoryExists(c) <=> c \in DOMAIN memory[m]) /\ (MemoryExists(c)' <=> c \in DOMAIN new)
        BY <1>2, <2>3, <3>1 DEF MemoryExists, BuildsIn
      <4>2. MemoryExists(c) => memory'[m][c] = memory[m][c]
        BY <2>2, <2>3, <2>6, <4>1
      <4> QED
        BY <2>2, <2>6, <3>1, <4>1, <4>2 DEF MemoryGet
    <3>2. CASE MachineOf[c] # m
      BY <2>3, <3>2 DEF MemoryExists, MemoryGet, BuildsIn, NoRecords
    <3> QED
      BY <3>1, <3>2
  <2> QED
    BY <2>4, <2>5, <2>6 DEF MemoryGet
<1> QED
  BY <1>1, <1>2

\* The dicts that a new process fills
LEMMA MemoryLoadIs ==
    ASSUME NEW dicts,
           dicts = [m \in {n \in Machines : RowsOf(n) # {}} |->
                        [b \in {r.build : r \in RowsOf(m)} |-> ModelRecord(b)]],
           memory' = dicts, UNCHANGED tables
    PROVE  /\ Keyed'
           /\ \A b \in Builds : /\ MemoryExists(b)' <=> DjangoExists(b)
                                /\ MemoryGet(b)' = DjangoGet(b)
<1>1. \A b : ModelRecord(b).build = b
  BY DEF ModelRecord
<1>2. \A m : {r.build : r \in RowsOf(m)} = {b \in Builds : DjangoExists(b) /\ MachineOf[b] = m}
  BY <1>1 DEF RowsOf
<1>3. \A m : RowsOf(m) # {} <=> \E b \in Builds : DjangoExists(b) /\ MachineOf[b] = m
  BY DEF RowsOf
<1>4. DOMAIN memory' = {n \in Machines : RowsOf(n) # {}}
  OBVIOUS
<1>5. \A m \in DOMAIN memory' :
        /\ DOMAIN memory'[m] = {b \in Builds : DjangoExists(b) /\ MachineOf[b] = m}
        /\ \A b \in DOMAIN memory'[m] : memory'[m][b] = ModelRecord(b)
  BY <1>2, <1>4
<1>6. Keyed'
  <2>1. DOMAIN memory' \subseteq {MachineOf[b] : b \in Builds}
    BY <1>3, <1>4
  <2>2. ASSUME NEW m \in DOMAIN memory', NEW b \in DOMAIN memory'[m]
        PROVE  b \in Builds /\ MachineOf[b] = m
    <3>1. DOMAIN memory'[m] = {c \in Builds : DjangoExists(c) /\ MachineOf[c] = m}
      BY <1>5
    <3> QED
      BY <3>1
  <2> QED
    BY <2>1, <2>2 DEF Keyed
<1>7. ASSUME NEW b \in Builds
      PROVE  (MemoryExists(b)' <=> DjangoExists(b)) /\ MemoryGet(b)' = DjangoGet(b)
  <2> DEFINE m == MachineOf[b]
  <2>1. m \in Machines
    BY DatabasesAssumption
  <2>2. CASE DjangoExists(b)
    <3>1. m \in DOMAIN memory'
      BY <1>3, <1>4, <2>1, <2>2
    <3>2. b \in DOMAIN memory'[m] /\ memory'[m][b] = ModelRecord(b)
      BY <1>5, <2>2, <3>1
    <3> QED
      BY <2>2, <3>1, <3>2 DEF MemoryExists, MemoryGet, BuildsIn, DjangoGet
  <2>3. CASE ~DjangoExists(b)
    <3>1. m \in DOMAIN memory' => b \notin DOMAIN memory'[m]
      <4> SUFFICES ASSUME m \in DOMAIN memory' PROVE b \notin DOMAIN memory'[m]
        OBVIOUS
      <4>1. DOMAIN memory'[m] = {c \in Builds : DjangoExists(c) /\ MachineOf[c] = m}
        BY <1>5
      <4> QED
        BY <2>3, <4>1
    <3>2. ~MemoryExists(b)'
      BY <3>1 DEF MemoryExists, BuildsIn, NoRecords
    <3> QED
      BY <2>3, <3>2 DEF MemoryGet, DjangoGet
  <2> QED
    BY <2>2, <2>3
<1> QED
  BY <1>6, <1>7

LEMMA MemoryInit == Init => MemoryOK
<1> SUFFICES ASSUME Init PROVE MemoryOK
  OBVIOUS
<1>1. PICK done \in SUBSET Builds : DatabasesInit(done)
  BY DEF Init
<1>2. memory = [m \in {MachineOf[b] : b \in done} |->
                  [b \in {x \in done : MachineOf[x] = m} |-> DoneRecord(b)]]
  BY <1>1 DEF DatabasesInit
<1>3. /\ DOMAIN memory = {MachineOf[b] : b \in done}
      /\ \A m \in DOMAIN memory :
            /\ DOMAIN memory[m] = {x \in done : MachineOf[x] = m}
            /\ \A b \in DOMAIN memory[m] : memory[m][b] = DoneRecord(b)
  BY <1>2
<1>4. Keyed
  <2>1. DOMAIN memory \subseteq {MachineOf[b] : b \in Builds}
    BY <1>3
  <2>2. \A m \in DOMAIN memory : \A b \in DOMAIN memory[m] : b \in Builds /\ MachineOf[b] = m
    BY <1>3
  <2> QED
    BY <2>1, <2>2 DEF Keyed
<1>5. ASSUME NEW b \in Builds
      PROVE  (MemoryExists(b) <=> DjangoExists(b)) /\ MemoryGet(b) = DjangoGet(b)
  <2>1. [submitted |-> 0, completed |-> TRUE, built |-> BuiltAt[b]] # Nil
    <3>1. [submitted |-> 0, completed |-> TRUE, built |-> BuiltAt[b]] \in RowSet
      BY DatabasesAssumption DEF RowSet
    <3> QED
      BY <3>1, DatabasesAssumption
  <2>2. MemoryExists(b) <=> b \in done
    BY <1>3 DEF MemoryExists, BuildsIn, NoRecords
  <2>3. DjangoExists(b) <=> b \in done
    BY <1>1, <2>1 DEF DatabasesInit, DjangoExists
  <2>4. ASSUME b \in done PROVE MemoryGet(b) = DjangoGet(b)
    <3>1. MemoryGet(b) = DoneRecord(b)
      BY <1>3, <2>2, <2>4 DEF MemoryGet
    <3>2. DoneRecord(b) =
            [build |-> b, note |-> Nil, logs |-> LogOf[b], keep |-> FALSE,
             submitted |-> 0, completed |-> TRUE, built |-> BuiltAt[b]]
      BY DEF DoneRecord
    <3>3. DjangoGet(b) = ModelRecord(b)
      BY <2>3, <2>4 DEF DjangoGet
    <3>4. /\ model[b] = [submitted |-> 0, completed |-> TRUE, built |-> BuiltAt[b]]
          /\ logs[b] = LogOf[b] /\ note[b] = Nil /\ kept = {}
      BY <1>1, <2>4 DEF DatabasesInit
    <3>5. /\ model[b].submitted = 0 /\ model[b].completed = TRUE /\ model[b].built = BuiltAt[b]
          /\ (b \in kept) = FALSE
      BY <3>4
    <3>6. ModelRecord(b) =
            [build |-> b, note |-> note[b], logs |-> logs[b], keep |-> b \in kept,
             submitted |-> model[b].submitted, completed |-> model[b].completed,
             built |-> model[b].built]
      BY DEF ModelRecord
    <3>7. ModelRecord(b) =
            [build |-> b, note |-> Nil, logs |-> LogOf[b], keep |-> FALSE,
             submitted |-> 0, completed |-> TRUE, built |-> BuiltAt[b]]
      BY <3>4, <3>5, <3>6, Zenon
    <3> QED
      BY <3>1, <3>2, <3>3, <3>7
  <2> QED
    BY <2>2, <2>3, <2>4 DEF MemoryGet, DjangoGet
<1> QED
  BY <1>4, <1>5 DEF Keyed, MemoryOK

\* Only save() and delete() change the dicts, and both leave there what they
\* leave in the tables.
LEMMA MemoryStep == ResolutionInv /\ MemoryOK /\ [Next]_vars => MemoryOK'
<1> SUFFICES ASSUME ResolutionInv, MemoryOK, [Next]_vars PROVE MemoryOK'
  OBVIOUS
<1> DEFINE Agrees(b) == (MemoryExists(b) <=> DjangoExists(b)) /\ MemoryGet(b) = DjangoGet(b)
           Saving == pc \notin {"idle", "trees"}
<1>0. /\ Keyed /\ \A b \in Builds : (Saving /\ saving.build = b) \/ Agrees(b)
      /\ (Keyed' /\ (\A b \in Builds : (Saving' /\ saving'.build = b) \/ Agrees(b)') => MemoryOK')
  BY DEF MemoryOK, Keyed
<1>1. ASSUME UNCHANGED databases, Saving => Saving' /\ saving' = saving
      PROVE  MemoryOK'
  <2>1. Keyed' /\ \A b \in Builds : Agrees(b)' <=> Agrees(b)
    <3>1. \A b : DjangoGet(b)' = DjangoGet(b) /\ (DjangoExists(b)' <=> DjangoExists(b))
      BY <1>1, SameGet DEF databases
    <3> QED
      BY <1>0, <1>1, <3>1 DEF databases, Keyed, MemoryExists, MemoryGet, BuildsIn
  <2> HIDE DEF Agrees
  <2> QED
    BY <1>0, <1>1, <2>1
<1>2. ASSUME NEW step, NEW next, SaveStep(step, next), step \notin {"idle", "trees"},
             next \notin {"idle", "trees"}, saving.build \in Builds,
             \A b \in Builds \ {saving.build} :
                DjangoGet(b)' = DjangoGet(b) /\ (DjangoExists(b)' <=> DjangoExists(b))
      PROVE  MemoryOK'
  <2>1. memory' = memory /\ saving' = saving /\ Saving' /\ Saving
    BY <1>2 DEF SaveStep
  <2>2. Keyed' /\ \A b \in Builds \ {saving.build} : Agrees(b)' <=> Agrees(b)
    BY <1>0, <1>2, <2>1 DEF Keyed, MemoryExists, MemoryGet, BuildsIn
  <2> HIDE DEF Agrees
  <2> QED
    BY <1>0, <2>1, <2>2
<1>3. pc \in {"model", "kept", "logs", "note"} => saving.build \in Builds /\ saving \in RecordSet
  BY DEF ResolutionInv, SavingOK, MayBeSaved, RecordSet
<1>4. CASE SaveRow
  <2>1. /\ SaveStep("model", "kept") /\ pc = "model"
        /\ model' = [model EXCEPT ![saving.build] =
              [submitted |-> saving.submitted, completed |-> saving.completed,
               built |-> saving.built]]
        /\ UNCHANGED <<kept, logs, note>>
    BY <1>4 DEF SaveRow, SaveModel, SaveStep
  <2>2. model \in [Builds -> RowSet \cup {Nil}]
    BY DEF ResolutionInv, TablesOK
  <2>3. \A b \in Builds \ {saving.build} : model'[b] = model[b]
    BY <2>1, <2>2
  <2>4. \A b \in Builds \ {saving.build} :
            DjangoGet(b)' = DjangoGet(b) /\ (DjangoExists(b)' <=> DjangoExists(b))
    BY <2>1, <2>3, SameGet
  <2> QED
    BY <1>2, <1>3, <2>1, <2>4
<1>5. CASE SaveKept
  <2>1. /\ SaveStep("kept", "logs") /\ pc = "kept"
        /\ kept' = IF saving.keep THEN kept \cup {saving.build} ELSE kept \ {saving.build}
        /\ UNCHANGED <<model, logs, note>>
    BY <1>5 DEF SaveKept, UpdateKept, SaveStep
  <2>2. \A b \in Builds \ {saving.build} : b \in kept' <=> b \in kept
    BY <2>1
  <2>3. \A b \in Builds \ {saving.build} :
            DjangoGet(b)' = DjangoGet(b) /\ (DjangoExists(b)' <=> DjangoExists(b))
    BY <2>1, <2>2, SameGet
  <2> QED
    BY <1>2, <1>3, <2>1, <2>3
<1>6. CASE SaveLogs
  <2>1. /\ SaveStep("logs", "note") /\ pc = "logs"
        /\ logs' = [logs EXCEPT ![saving.build] = saving.logs]
        /\ UNCHANGED <<model, kept, note>>
    BY <1>6 DEF SaveLogs, UpdateLogs, SaveStep
  <2>2. logs \in [Builds -> Texts \cup {Nil}]
    BY DEF ResolutionInv, TablesOK
  <2>3. \A b \in Builds \ {saving.build} : logs'[b] = logs[b]
    BY <2>1, <2>2
  <2>4. \A b \in Builds \ {saving.build} :
            DjangoGet(b)' = DjangoGet(b) /\ (DjangoExists(b)' <=> DjangoExists(b))
    BY <2>1, <2>3, SameGet
  <2> QED
    BY <1>2, <1>3, <2>1, <2>4
<1>7. CASE SaveNote
  <2>0. PICK r, b : r = saving /\ b = r.build
    OBVIOUS
  <2>1. /\ pc = "note" /\ pc' = "idle" /\ MemorySave(r)
        /\ note' = [note EXCEPT ![b] = r.note]
        /\ UNCHANGED <<model, kept, logs>>
    BY <1>7, <2>0 DEF SaveNote, UpdateNote
  <2>2. b \in Builds /\ r \in RecordSet
    BY <1>3, <2>0, <2>1
  <2>3. /\ Keyed' /\ MemoryExists(b)' /\ MemoryGet(b)' = r
        /\ \A c \in Builds : c # b =>
                /\ MemoryExists(c)' <=> MemoryExists(c)
                /\ MemoryGet(c)' = MemoryGet(c)
    BY <1>0, <2>0, <2>1, <2>2, MemorySaveIs
  <2>4. DjangoGet(b)' = r
    BY <1>7, <2>0, <2>2, SaveNoteGives
  <2>5. DjangoExists(b)'
    BY <2>2, <2>4, DatabasesAssumption DEF DjangoGet
  <2>6. note \in [Builds -> Texts \cup {Nil}]
    BY DEF ResolutionInv, TablesOK
  <2>7. \A c \in Builds : c # b =>
            DjangoGet(c)' = DjangoGet(c) /\ (DjangoExists(c)' <=> DjangoExists(c))
    BY <2>1, <2>6, SameGet
  <2>8. \A c \in Builds : Agrees(c)'
    <3>1. Agrees(b)'
      BY <2>3, <2>4, <2>5
    <3>2. \A c \in Builds : c # b => Agrees(c)'
      BY <1>0, <2>0, <2>3, <2>7
    <3> QED
      BY <3>1, <3>2
  <2> HIDE DEF Agrees
  <2> QED
    BY <1>0, <2>3, <2>8
<1>8. ASSUME NEW b \in Builds, DeleteRecord(b)
      PROVE  MemoryOK'
  <2>1. /\ pc = "idle" /\ MemoryDelete(b)
        /\ model' = [model EXCEPT ![b] = Nil] /\ kept' = kept \ {b}
        /\ logs' = [logs EXCEPT ![b] = Nil] /\ note' = [note EXCEPT ![b] = Nil]
    BY <1>8 DEF DeleteRecord, Begin, DjangoDelete
  <2>2. /\ Keyed' /\ ~MemoryExists(b)' /\ MemoryGet(b)' = Nil
        /\ \A c \in Builds : c # b =>
                /\ MemoryExists(c)' <=> MemoryExists(c)
                /\ MemoryGet(c)' = MemoryGet(c)
    BY <1>0, <2>1, MemoryDeleteIs
  <2>3. /\ model \in [Builds -> RowSet \cup {Nil}] /\ logs \in [Builds -> Texts \cup {Nil}]
        /\ note \in [Builds -> Texts \cup {Nil}]
    BY DEF ResolutionInv, TablesOK
  <2>4. ~DjangoExists(b)' /\ DjangoGet(b)' = Nil
    BY <2>1, <2>3 DEF DjangoExists, DjangoGet
  <2>5. \A c \in Builds : c # b =>
            DjangoGet(c)' = DjangoGet(c) /\ (DjangoExists(c)' <=> DjangoExists(c))
    BY <2>1, <2>3, SameGet
  <2>6. \A c \in Builds : Agrees(c)'
    <3> SUFFICES ASSUME NEW c \in Builds PROVE Agrees(c)'
      OBVIOUS
    <3>1. CASE c = b
      BY <2>2, <2>4, <3>1
    <3>2. CASE c # b
      BY <1>0, <2>1, <2>2, <2>5, <3>2
    <3> QED
      BY <3>1, <3>2
  <2> HIDE DEF Agrees
  <2> QED
    BY <1>0, <2>2, <2>6
<1>9. CASE Crash
  <2>1. /\ UNCHANGED tables /\ pc' = "idle"
        /\ memory' = [m \in {n \in Machines : RowsOf(n) # {}} |->
                        [b \in {r.build : r \in RowsOf(m)} |-> ModelRecord(b)]]
    BY <1>9 DEF Crash
  <2>2. /\ Keyed'
        /\ \A b \in Builds : /\ MemoryExists(b)' <=> DjangoExists(b)
                             /\ MemoryGet(b)' = DjangoGet(b)
    BY <2>1, MemoryLoadIs
  <2>3. \A b \in Builds : DjangoGet(b)' = DjangoGet(b) /\ (DjangoExists(b)' <=> DjangoExists(b))
    BY <2>1, SameGet DEF tables
  <2>4. \A b \in Builds : Agrees(b)'
    BY <2>2, <2>3
  <2> HIDE DEF Agrees
  <2> QED
    BY <1>0, <2>2, <2>4
<1>10. CASE UNCHANGED vars
  BY <1>1, <1>10 DEF vars, client
<1>11. ASSUME \/ \E b \in Builds : \/ \E text \in Notes \cup {Nil} : StartPull(b, text)
                                   \/ Extract(b)
                                   \/ CompletePull(b)
                                   \/ EditRecord(b)
                                   \/ \E name \in TagNames : Tag(b, name)
              \/ \E m \in Machines, name \in TagNames : Untag(m, name)
              \/ DeleteTrees
       PROVE  MemoryOK'
  <2>1. UNCHANGED databases /\ (pc = "idle" \/ pc = "trees")
    BY <1>11 DEF StartPull, BeginSave, Begin, Extract, CompletePull, EditRecord, Tag, Untag,
                 DeleteTrees
  <2> QED
    BY <1>1, <2>1
<1> QED
  BY <1>4, <1>5, <1>6, <1>7, <1>8, <1>9, <1>10, <1>11 DEF Next, Operation

(***************************************************************************)
(* The queries of both databases                                           *)
(***************************************************************************)

\* The builds of a machine that have rows
BuildsOf(m) == {b \in Builds : DjangoExists(b) /\ MachineOf[b] = m}

LEMMA RowsAreFinite ==
    ASSUME TablesOK, NEW m
    PROVE  /\ IsFiniteSet(BuildsOf(m)) /\ IsFiniteSet(RowsOf(m))
           /\ Cardinality(RowsOf(m)) = Cardinality(BuildsOf(m))
           /\ RowsOf(m) = {} <=> BuildsOf(m) = {}
<1> DEFINE f == [b \in BuildsOf(m) |-> ModelRecord(b)]
<1>1. IsFiniteSet(BuildsOf(m))
  <2>1. BuildsOf(m) \subseteq Builds
    BY DEF BuildsOf
  <2> QED
    BY <2>1, FS_Subset, DatabasesAssumption
<1>2. RowsOf(m) = {ModelRecord(b) : b \in BuildsOf(m)}
  BY DEF RowsOf, BuildsOf
<1>3. \A b : ModelRecord(b).build = b
  BY DEF ModelRecord
<1>4. f \in Bijection(BuildsOf(m), RowsOf(m))
  <2>1. f \in [BuildsOf(m) -> RowsOf(m)]
    BY <1>2
  <2>2. \A r \in RowsOf(m) : \E b \in BuildsOf(m) : f[b] = r
    BY <1>2
  <2>3. \A b, c \in BuildsOf(m) : f[b] = f[c] => b = c
    BY <1>3
  <2> HIDE DEF f
  <2> QED
    BY <2>1, <2>2, <2>3 DEF Bijection, Injection, Surjection, IsInjective
<1>5. IsFiniteSet(RowsOf(m)) /\ Cardinality(RowsOf(m)) = Cardinality(BuildsOf(m))
  BY <1>1, <1>4, FS_Bijection DEF ExistsBijection
<1> QED
  BY <1>1, <1>2, <1>5

\* What rows have
LEMMA RowIs ==
    ASSUME TablesOK, NEW m, NEW r \in RowsOf(m)
    PROVE  /\ r.build \in Builds /\ r.build \in Nat /\ DjangoExists(r.build)
           /\ MachineOf[r.build] = m /\ r = Record(r.build) /\ r = DjangoGet(r.build)
           /\ r.completed \in BOOLEAN /\ r.submitted \in Nat
           /\ r.built = IF r.completed THEN BuiltAt[r.build] ELSE Nil
           /\ r.completed => r.built \in Nat
           /\ \A s \in RowsOf(m) : s.build = r.build => s = r
<1>1. /\ r.build \in Builds /\ DjangoExists(r.build)
      /\ MachineOf[r.build] = m /\ r = Record(r.build)
  BY RowsAre
<1>2. \A s \in RowsOf(m) : s = Record(s.build)
  BY RowsAre
<1>3. /\ r = DjangoGet(r.build) /\ r.completed \in BOOLEAN /\ r \in RecordSet /\ MayBeSaved(r)
      /\ r.built = IF r.completed THEN BuiltAt[r.build] ELSE Nil
  BY <1>1, RecordIs
<1>4. r.submitted \in Nat
  BY <1>3 DEF MayBeSaved, RecordSet
<1> QED
  BY <1>1, <1>2, <1>3, <1>4, DatabasesAssumption

\* There are no more machines of builds than builds.
LEMMA MachinesAreFinite == IsFiniteSet({MachineOf[b] : b \in Builds})
<1>1. IsFiniteSet(Builds)
  BY DatabasesAssumption
<1> QED
  BY <1>1, ImageIsFinite

LEMMA MemoryIsFinite ==
    ASSUME MemoryOK
    PROVE  DOMAIN memory \subseteq Machines /\ IsFiniteSet(DOMAIN memory)
<1>1. DOMAIN memory \subseteq {MachineOf[b] : b \in Builds}
  BY DEF MemoryOK
<1>2. IsFiniteSet({MachineOf[b] : b \in Builds})
  BY MachinesAreFinite
<1> QED
  BY <1>1, <1>2, FS_Subset, DatabasesAssumption

\* Between two operations the dict of a machine has its rows.
LEMMA MemoryHasRows ==
    ASSUME MemoryInv, pc \in {"idle", "trees"}, NEW m \in Machines
    PROVE  /\ DOMAIN BuildsIn(m) = BuildsOf(m)
           /\ MemoryRecords(m) = RowsOf(m)
           /\ RowsOf(m) # {} => m \in DOMAIN memory
<1>1. /\ DOMAIN memory \subseteq {MachineOf[b] : b \in Builds}
      /\ \A n \in DOMAIN memory : \A b \in DOMAIN memory[n] : b \in Builds /\ MachineOf[b] = n
      /\ \A b \in Builds : (MemoryExists(b) <=> DjangoExists(b)) /\ MemoryGet(b) = DjangoGet(b)
  BY DEF MemoryInv, MemoryOK
<1>2. BuildsIn(m) = IF m \in DOMAIN memory THEN memory[m] ELSE <<>>
  BY DEF BuildsIn, NoRecords
<1>3. \A b \in DOMAIN BuildsIn(m) :
        m \in DOMAIN memory /\ b \in Builds /\ MachineOf[b] = m /\ DjangoExists(b)
        /\ BuildsIn(m)[b] = DjangoGet(b)
  <2> SUFFICES ASSUME NEW b \in DOMAIN BuildsIn(m)
               PROVE  m \in DOMAIN memory /\ b \in Builds /\ MachineOf[b] = m
                      /\ DjangoExists(b) /\ BuildsIn(m)[b] = DjangoGet(b)
    OBVIOUS
  <2>1. m \in DOMAIN memory
    BY <1>2
  <2>2. b \in Builds /\ MachineOf[b] = m
    BY <1>1, <1>2, <2>1
  <2>3. MemoryExists(b)
    BY <2>2 DEF MemoryExists
  <2>4. MemoryGet(b) = BuildsIn(m)[b]
    BY <1>2, <2>1, <2>2, <2>3 DEF MemoryGet
  <2> QED
    BY <1>1, <2>1, <2>2, <2>3, <2>4
<1>4. \A b \in BuildsOf(m) : b \in DOMAIN BuildsIn(m)
  BY <1>1 DEF BuildsOf, MemoryExists
<1>5. DOMAIN BuildsIn(m) = BuildsOf(m)
  BY <1>3, <1>4 DEF BuildsOf
<1>6. MemoryRecords(m) = RowsOf(m)
  <2>1. MemoryRecords(m) = {BuildsIn(m)[b] : b \in BuildsOf(m)}
    BY <1>5 DEF MemoryRecords
  <2>2. \A b \in BuildsOf(m) : BuildsIn(m)[b] = ModelRecord(b)
    BY <1>3, <1>5 DEF BuildsOf, DjangoGet
  <2>3. RowsOf(m) = {ModelRecord(b) : b \in BuildsOf(m)}
    BY DEF RowsOf, BuildsOf
  <2> QED
    BY <2>1, <2>2, <2>3
<1>7. RowsOf(m) # {} => m \in DOMAIN memory
  BY <1>3, <1>4 DEF RowsOf, BuildsOf
<1> QED
  BY <1>5, <1>6, <1>7

\* Sorting by number
Earlier(S) == {p \in S \X S : p[1].build < p[2].build}
Later(S) == {p \in S \X S : p[1].build > p[2].build}

LEMMA ByNumber ==
    ASSUME NEW S, \A r, s \in S : r.build \in Nat /\ (r.build = s.build => r = s)
    PROVE  /\ StrictOrder(S, Earlier(S)) /\ Total(S, Earlier(S))
           /\ StrictOrder(S, Later(S)) /\ Total(S, Later(S))
<1>1. \A r, s \in S : /\ <<r, s>> \in Earlier(S) <=> r.build < s.build
                      /\ <<r, s>> \in Later(S) <=> r.build > s.build
  BY DEF Earlier, Later
<1> QED
  BY <1>1 DEF StrictOrder, Total

LEMMA SortedRecordsIs ==
    ASSUME NEW S, IsFiniteSet(S),
           \A r, s \in S : r.build \in Nat /\ (r.build = s.build => r = s)
    PROVE  InOrder(SortedRecords(S), S, Earlier(S))
<1> DEFINE n == Cardinality(S)
           fits(s) == \A i, j \in 1..n : i < j => s[i] # s[j] /\ ~(s[j].build < s[i].build)
<1>1. \A s \in [1..n -> S] : fits(s) <=> InOrder(s, S, Earlier(S))
  <2>1. \A r, s \in S : <<r, s>> \in Earlier(S) <=> r.build < s.build
    BY DEF Earlier
  <2> QED
    BY <2>1 DEF InOrder
<1>2. PICK t : InOrder(t, S, Earlier(S))
  BY ByNumber, OrderExists
<1>3. t \in [1..n -> S]
  BY <1>2 DEF InOrder
<1>4. SortedRecords(S) = CHOOSE s \in [1..n -> S] : fits(s)
  BY DEF SortedRecords, Sorted
<1> HIDE DEF fits, n
<1> QED
  BY <1>1, <1>2, <1>3, <1>4

\* What is first and what is last in a sequence in order
LEMMA EndsAre ==
    ASSUME NEW S, IsFiniteSet(S), NEW R, Total(S, R), NEW s, InOrder(s, S, R)
    PROVE  /\ S = {} => FirstOf(s) = Nil /\ LastOf(s) = Nil
           /\ S # {} =>
                /\ FirstOf(s) \in S /\ LastOf(s) \in S
                /\ \A x \in S : x # FirstOf(s) => <<FirstOf(s), x>> \in R
                /\ \A x \in S : x # LastOf(s) => <<x, LastOf(s)>> \in R
<1> DEFINE n == Cardinality(S)
<1>1. n \in Nat /\ (n = 0 <=> S = {})
  BY FS_CardinalityType, FS_EmptySet
<1>2. s \in [1..n -> S]
  BY DEF InOrder
<1>3. \A i, j \in 1..n : i < j => s[i] # s[j] /\ <<s[j], s[i]>> \notin R
  BY DEF InOrder
<1>4. \A x \in S : \E j \in 1..n : s[j] = x
  <2>1. \A i, j \in 1..n : i < j => s[i] # s[j]
    BY <1>3
  <2> QED
    BY <1>2, <2>1, ListsAll
<1> HIDE DEF n
<1>5. Len(s) = n /\ s \in Seq(S)
  BY <1>1, <1>2
<1>6. CASE S = {}
  <2>1. s = <<>>
    BY <1>1, <1>5, <1>6
  <2> QED
    BY <1>6, <2>1 DEF FirstOf, LastOf
<1>7. CASE S # {}
  <2>1. 1 \in 1..n /\ n \in 1..n /\ s # <<>>
    BY <1>1, <1>5, <1>7
  <2>2. FirstOf(s) = s[1] /\ LastOf(s) = s[n]
    BY <1>5, <2>1 DEF FirstOf, LastOf
  <2>3. \A x \in S : x # s[1] => <<s[1], x>> \in R
    <3> SUFFICES ASSUME NEW x \in S, x # s[1] PROVE <<s[1], x>> \in R
      OBVIOUS
    <3>1. PICK j \in 1..n : s[j] = x
      BY <1>4
    <3>2. 1 < j
      BY <1>1, <3>1
    <3> QED
      BY <1>2, <1>3, <2>1, <3>1, <3>2 DEF Total
  <2>4. \A x \in S : x # s[n] => <<x, s[n]>> \in R
    <3> SUFFICES ASSUME NEW x \in S, x # s[n] PROVE <<x, s[n]>> \in R
      OBVIOUS
    <3>1. PICK j \in 1..n : s[j] = x
      BY <1>4
    <3>2. j < n
      BY <1>1, <3>1
    <3> QED
      BY <1>2, <1>3, <2>1, <3>1, <3>2 DEF Total
  <2> QED
    BY <1>2, <1>7, <2>1, <2>2, <2>3, <2>4
<1> QED
  BY <1>6, <1>7

\* What is first in a sequence in an order in which members may tie
LEMMA FirstIs ==
    ASSUME NEW S, IsFiniteSet(S), NEW R, NEW s, InOrder(s, S, R)
    PROVE  /\ S = {} => FirstOf(s) = Nil
           /\ S # {} => /\ FirstOf(s) \in S
                        /\ \A x \in S : x # FirstOf(s) => <<x, FirstOf(s)>> \notin R
<1> DEFINE n == Cardinality(S)
<1>1. n \in Nat /\ (n = 0 <=> S = {})
  BY FS_CardinalityType, FS_EmptySet
<1>2. /\ s \in [1..n -> S]
      /\ \A i, j \in 1..n : i < j => s[i] # s[j] /\ <<s[j], s[i]>> \notin R
  BY DEF InOrder
<1>3. \A x \in S : \E j \in 1..n : s[j] = x
  <2>1. \A i, j \in 1..n : i < j => s[i] # s[j]
    BY <1>2
  <2> QED
    BY <1>2, <2>1, ListsAll
<1> HIDE DEF n
<1>4. Len(s) = n /\ s \in Seq(S)
  BY <1>1, <1>2
<1>5. CASE S = {}
  <2>1. s = <<>>
    BY <1>1, <1>4, <1>5
  <2> QED
    BY <1>5, <2>1 DEF FirstOf
<1>6. CASE S # {}
  <2>1. 1 \in 1..n /\ s # <<>>
    BY <1>1, <1>4, <1>6
  <2>2. FirstOf(s) = s[1]
    BY <1>4, <2>1 DEF FirstOf
  <2>3. ASSUME NEW x \in S, x # s[1] PROVE <<x, s[1]>> \notin R
    <3>1. PICK j \in 1..n : s[j] = x
      BY <1>3
    <3>2. 1 < j
      BY <1>1, <2>3, <3>1
    <3> QED
      BY <1>2, <2>1, <3>1, <3>2
  <2> QED
    BY <1>2, <1>6, <2>1, <2>2, <2>3
<1> QED
  BY <1>5, <1>6

\* Where the clock goes with the numbers, so do the rows.
LEMMA BuiltGrows ==
    ASSUME TablesOK, NEW m, Chronological(m),
           NEW r \in RowsOf(m), r.completed, NEW s \in RowsOf(m), s.completed
    PROVE  /\ r.built \in Nat /\ s.built \in Nat
           /\ r.build < s.build <=> r.built < s.built
           /\ r.build = s.build <=> r.built = s.built
<1>1. /\ r.build \in Nat /\ r.built = BuiltAt[r.build] /\ r.built \in Nat
      /\ s.build \in Nat /\ s.built = BuiltAt[s.build] /\ s.built \in Nat
  BY RowIs
<1>2. r.build \in Done(m) /\ s.build \in Done(m)
  BY RowIs, DoneAre
<1>3. /\ r.build < s.build => r.built < s.built
      /\ s.build < r.build => s.built < r.built
  BY <1>1, <1>2 DEF Chronological
<1> QED
  BY <1>1, <1>3

\* Of completed rows, the one that was built last, or first, is at an end of
\* the list in memory.
LEMMA LastBuiltIs ==
    ASSUME TablesOK, NEW m, Chronological(m), NEW S \in SUBSET RowsOf(m), \A r \in S : r.completed
    PROVE  /\ LastOf(SortedRecords(S)) =
                IF S = {} THEN Nil
                ELSE CHOOSE r \in S : \A s \in S : ~(s.built > r.built)
           /\ FirstOf(SortedRecords(S)) =
                IF S = {} THEN Nil
                ELSE CHOOSE r \in S : \A s \in S : ~(s.built < r.built)
<1>1. IsFiniteSet(S)
  BY RowsAreFinite, FS_Subset
<1>2. /\ \A r, s \in S : r.build \in Nat /\ (r.build = s.build => r = s)
      /\ \A r, s \in S : /\ r.built \in Nat /\ (r.build < s.build <=> r.built < s.built)
                         /\ r.build = s.build <=> r.built = s.built
  BY RowIs, BuiltGrows
<1> DEFINE last == LastOf(SortedRecords(S))
           first == FirstOf(SortedRecords(S))
<1>3. /\ S = {} => first = Nil /\ last = Nil
      /\ S # {} =>
            /\ first \in S /\ last \in S
            /\ \A x \in S : x # first => <<first, x>> \in Earlier(S)
            /\ \A x \in S : x # last => <<x, last>> \in Earlier(S)
  <2>1. InOrder(SortedRecords(S), S, Earlier(S)) /\ Total(S, Earlier(S))
    BY <1>1, <1>2, SortedRecordsIs, ByNumber
  <2> QED
    BY <1>1, <2>1, EndsAre
<1> HIDE DEF first, last
<1>4. ASSUME S # {}
      PROVE  /\ last = CHOOSE r \in S : \A s \in S : ~(s.built > r.built)
             /\ first = CHOOSE r \in S : \A s \in S : ~(s.built < r.built)
  <2>1. ASSUME NEW x \in S PROVE x.build <= last.build /\ first.build <= x.build
    <3>1. x.build \in Nat /\ last.build \in Nat /\ first.build \in Nat
      BY <1>2, <1>3, <1>4
    <3>2. /\ x # first => first.build < x.build
          /\ x # last => x.build < last.build
      BY <1>3, <1>4 DEF Earlier
    <3> QED
      BY <3>1, <3>2
  <2>2. /\ \A s \in S : ~(s.built > last.built)
        /\ \A s \in S : ~(s.built < first.built)
    <3> SUFFICES ASSUME NEW s \in S PROVE ~(s.built > last.built) /\ ~(s.built < first.built)
      OBVIOUS
    <3>1. last \in S /\ first \in S
      BY <1>3, <1>4
    <3>2. s.build <= last.build /\ first.build <= s.build
      BY <2>1
    <3>3. ~(last.build < s.build) /\ ~(s.build < first.build)
      BY <1>2, <3>1, <3>2
    <3> QED
      BY <1>2, <3>1, <3>3
  <2>3. /\ \A r \in S : (\A s \in S : ~(s.built > r.built)) => r = last
        /\ \A r \in S : (\A s \in S : ~(s.built < r.built)) => r = first
    <3>1. ASSUME NEW r \in S, \A s \in S : ~(s.built > r.built) PROVE r = last
      <4>1. ~(r.build < last.build) /\ r.build <= last.build
        BY <1>2, <1>3, <1>4, <2>1, <3>1
      <4> QED
        BY <1>2, <1>3, <1>4, <4>1
    <3>2. ASSUME NEW r \in S, \A s \in S : ~(s.built < r.built) PROVE r = first
      <4>1. ~(first.build < r.build) /\ first.build <= r.build
        BY <1>2, <1>3, <1>4, <2>1, <3>2
      <4> QED
        BY <1>2, <1>3, <1>4, <4>1
    <3> QED
      BY <3>1, <3>2
  <2> QED
    BY <1>3, <1>4, <2>2, <2>3
<1> QED
  BY <1>3, <1>4 DEF first, last

\* next(), previous() and latest() of both databases
LEMMA NeighboursAgree ==
    ASSUME MemoryInv, pc \in {"idle", "trees"}, NEW m \in Machines, Chronological(m)
    PROVE  /\ DjangoLatest(m) = MemoryLatest(m)
           /\ \A r \in RowsOf(m) : /\ DjangoPrevious(r) = MemoryPrevious(r)
                                   /\ DjangoNext(r) = MemoryNext(r)
<1> USE DEF MemoryInv, ResolutionInv
<1>1. MemoryRecords(m) = RowsOf(m)
  BY MemoryHasRows
<1>2. \A r \in RowsOf(m) : r.completed => r.built # Nil /\ r.built \in Nat
  BY RowIs, DatabasesAssumption
<1>3. DjangoLatest(m) = MemoryLatest(m)
  <2> DEFINE S == {r \in RowsOf(m) : r.completed}
  <2>1. S = {r \in RowsOf(m) : r.completed /\ r.built # Nil}
    BY <1>2
  <2>2. MemoryLatest(m) = LastOf(SortedRecords(S))
    BY <1>1 DEF MemoryLatest
  <2>3. S \in SUBSET RowsOf(m) /\ \A r \in S : r.completed
    OBVIOUS
  <2>4. DjangoLatest(m) = IF S = {} THEN Nil
                          ELSE CHOOSE r \in S : \A s \in S : ~(s.built > r.built)
    <3> DEFINE timed == {r \in S : r.built # Nil}
    <3>1. DjangoLatest(m) =
            IF timed # {}
            THEN CHOOSE r \in timed : \A s \in timed : ~(s.built > r.built)
            ELSE IF S = {} THEN Nil
            ELSE CHOOSE r \in S : \A s \in S : ~(s.build > r.build)
      BY DEF DjangoLatest, FirstBy
    <3>2. timed = S
      BY <1>2
    <3> HIDE DEF timed, S
    <3> QED
      BY <3>1, <3>2
  <2> HIDE DEF S
  <2> QED
    BY <2>2, <2>3, <2>4, LastBuiltIs
<1>4. ASSUME NEW r \in RowsOf(m)
      PROVE  DjangoPrevious(r) = MemoryPrevious(r)
  <2> DEFINE S == {x \in RowsOf(m) : x.completed /\ x.built # Nil
                                     /\ (r.built # Nil => x.built < r.built)}
             found == {x \in RowsOf(m) : x.completed /\ x.built # Nil
                                         /\ ~(r.built # Nil /\ x.built >= r.built)}
  <2>1. MachineOf[r.build] = m /\ r.built \in Nat \cup {Nil}
    BY RowIs
  <2>2. S = found
    <3>1. \A x \in RowsOf(m) : x.completed => x.built \in Nat
      BY <1>2
    <3> QED
      BY <2>1, <3>1
  <2>3. MemoryPrevious(r) = LastOf(SortedRecords(found))
    BY <1>1, <2>1 DEF MemoryPrevious
  <2>4. S \in SUBSET RowsOf(m) /\ \A x \in S : x.completed
    OBVIOUS
  <2>5. DjangoPrevious(r) = IF S = {} THEN Nil
                          ELSE CHOOSE x \in S : \A s \in S : ~(s.built > x.built)
    <3>1. S = {x \in RowsOf(MachineOf[r.build]) :
                    /\ x.completed /\ x.built # Nil
                    /\ r.built # Nil => x.built < r.built}
      BY <2>1
    <3> HIDE DEF S
    <3> QED
      BY <3>1 DEF DjangoPrevious, FirstBy
  <2> HIDE DEF S, found
  <2> QED
    BY <2>2, <2>3, <2>4, <2>5, LastBuiltIs
<1>5. ASSUME NEW r \in RowsOf(m)
      PROVE  DjangoNext(r) = MemoryNext(r)
  <2> DEFINE S == {x \in RowsOf(m) : x.completed
                                     /\ (r.built # Nil => x.built # Nil /\ x.built > r.built)}
             found == {x \in RowsOf(m) : x.build # r.build /\ x.completed /\ x.built # Nil
                                         /\ ~(r.built # Nil /\ x.built < r.built)}
  <2>1. /\ MachineOf[r.build] = m /\ r.build \in Nat /\ r.completed \in BOOLEAN
        /\ r.built = IF r.completed THEN BuiltAt[r.build] ELSE Nil
        /\ \A x \in RowsOf(m) : x.build = r.build => x = r
    BY RowIs
  <2>2. S = found
    <3> SUFFICES ASSUME NEW x \in RowsOf(m) PROVE x \in S <=> x \in found
      OBVIOUS
    <3>1. x.completed => x.built # Nil /\ x.built \in Nat
      BY <1>2
    <3>2. Nil \notin Nat
      BY DatabasesAssumption
    <3>3. CASE r.completed
      <4>1. r.built # Nil /\ r.built \in Nat
        BY <1>2, <3>3
      <4>2. x.completed => (x.build = r.build <=> x.built = r.built)
        BY <3>3, BuiltGrows
      <4> QED
        BY <3>1, <4>1, <4>2
    <3>4. CASE ~r.completed
      <4>1. r.built = Nil /\ (x.completed => x.build # r.build)
        BY <2>1, <3>4
      <4> QED
        BY <3>1, <4>1
    <3> QED
      BY <3>3, <3>4
  <2>3. MemoryNext(r) = FirstOf(SortedRecords(found))
    BY <1>1, <2>1 DEF MemoryNext
  <2>4. S \in SUBSET RowsOf(m) /\ \A x \in S : x.completed
    OBVIOUS
  <2>5. DjangoNext(r) = IF S = {} THEN Nil
                          ELSE CHOOSE x \in S : \A s \in S : ~(s.built < x.built)
    <3>1. S = {x \in RowsOf(MachineOf[r.build]) :
                    /\ x.completed
                    /\ r.built # Nil => x.built # Nil /\ x.built > r.built}
      BY <2>1
    <3> HIDE DEF S
    <3> QED
      BY <3>1 DEF DjangoNext, FirstBy
  <2> HIDE DEF S, found
  <2> QED
    BY <2>2, <2>3, <2>4, <2>5, LastBuiltIs
<1> QED
  BY <1>3, <1>4, <1>5

\* The order of for_machine() in Django
Newer(S) == {p \in S \X S :
    \/ p[1].built # Nil /\ p[2].built = Nil
    \/ p[1].built # Nil /\ p[2].built # Nil /\ p[1].built > p[2].built
    \/ p[1].built = p[2].built /\ p[1].submitted > p[2].submitted}

LEMMA ForMachineIs ==
    ASSUME TablesOK, NEW m
    PROVE  InOrder(DjangoForMachine(m), RowsOf(m), Newer(RowsOf(m)))
<1> DEFINE S == RowsOf(m)
           n == Cardinality(S)
           R == Newer(S)
           before(r, s) ==
                \/ r.built # Nil /\ s.built = Nil
                \/ r.built # Nil /\ s.built # Nil /\ r.built > s.built
                \/ r.built = s.built /\ r.submitted > s.submitted
           fits(s) == \A i, j \in 1..n : i < j => s[i] # s[j] /\ ~before(s[j], s[i])
<1>1. \A r, s \in S : <<r, s>> \in R <=> before(r, s)
  BY DEF Newer
<1>2. \A r \in S : r.submitted \in Nat /\ (r.built # Nil => r.built \in Nat)
  BY RowIs
<1>3. StrictOrder(S, R)
  <2>1. \A x \in S : ~before(x, x)
    BY <1>2
  <2>2. \A x, y, z \in S : before(x, y) /\ before(y, z) => before(x, z)
    BY <1>2
  <2> HIDE DEF S, R, before
  <2> QED
    BY <1>1, <2>1, <2>2 DEF StrictOrder
<1>4. IsFiniteSet(S)
  BY RowsAreFinite
<1>5. DjangoForMachine(m) = CHOOSE s \in [1..n -> S] : fits(s)
  BY DEF DjangoForMachine, Sorted
<1> HIDE DEF S, R, before
<1>6. \A s \in [1..n -> S] : fits(s) <=> InOrder(s, S, R)
  BY <1>1 DEF InOrder
<1>7. PICK t : InOrder(t, S, R)
  BY <1>3, <1>4, OrderExists
<1>8. t \in [1..n -> S]
  BY <1>7 DEF InOrder
<1> HIDE DEF fits, n
<1>9. InOrder(DjangoForMachine(m), S, R)
  BY <1>5, <1>6, <1>7, <1>8
<1> QED
  BY <1>9 DEF S, R

\* The completed builds of a machine, latest first
CompletedRows(m) == {r \in RowsOf(m) : r.completed}

LEMMA CompletedAre ==
    ASSUME TablesOK, NEW m
    PROVE  /\ InOrder(CompletedOf(m), CompletedRows(m), Newer(RowsOf(m)))
           /\ IsFiniteSet(CompletedRows(m))
           /\ CompletedOf(m) = CompletedBuilds(m)
<1> DEFINE S == RowsOf(m)
           Q == CompletedRows(m)
           s == DjangoForMachine(m)
           P == {i \in 1..Len(s) : s[i].completed}
<1>1. InOrder(s, S, Newer(S)) /\ IsFiniteSet(S)
  BY ForMachineIs, RowsAreFinite
<1>2. s \in [1..Cardinality(S) -> S] /\ Cardinality(S) \in Nat
  BY <1>1, FS_CardinalityType DEF InOrder
<1>3. CompletedOf(m) = At(s, P) /\ CompletedBuilds(m) = At(s, P)
  BY DEF CompletedOf, CompletedBuilds, Select
<1>4. Q \in SUBSET S
  BY DEF CompletedRows
<1>5. P = {i \in 1..Len(s) : s[i] \in Q}
  BY <1>2 DEF CompletedRows
<1> HIDE DEF s, S
<1>6. InOrder(At(s, {i \in 1..Len(s) : s[i] \in Q}), Q, Newer(S))
  <2> HIDE DEF Q
  <2> QED
    BY <1>1, <1>4, AtIs
<1>7. IsFiniteSet(Q)
  BY <1>1, <1>4, FS_Subset
<1>8. InOrder(CompletedOf(m), Q, Newer(S))
  BY <1>3, <1>5, <1>6
<1> QED
  BY <1>3, <1>7, <1>8 DEF Q, S

\* Where the clock goes with the numbers, they are in the order of the numbers.
LEMMA CompletedFall ==
    ASSUME TablesOK, NEW m, Chronological(m)
    PROVE  /\ InOrder(CompletedOf(m), CompletedRows(m), Later(CompletedRows(m)))
           /\ StrictOrder(CompletedRows(m), Later(CompletedRows(m)))
           /\ Total(CompletedRows(m), Later(CompletedRows(m)))
<1> DEFINE S == RowsOf(m)
           Q == CompletedRows(m)
<1>1. InOrder(CompletedOf(m), Q, Newer(S)) /\ Q \in SUBSET S
  BY CompletedAre DEF CompletedRows
<1>2. \A x, y \in Q : <<x, y>> \in Later(Q) <=> <<x, y>> \in Newer(S)
  <2> SUFFICES ASSUME NEW x \in Q, NEW y \in Q
               PROVE  <<x, y>> \in Later(Q) <=> <<x, y>> \in Newer(S)
    OBVIOUS
  <2>1. /\ x \in S /\ x.completed /\ x.build \in Nat /\ x.built # Nil /\ x.submitted \in Nat
        /\ y \in S /\ y.completed /\ y.build \in Nat /\ y.built # Nil /\ y.submitted \in Nat
    BY RowIs, DatabasesAssumption DEF CompletedRows
  <2>2. /\ x.built \in Nat /\ y.built \in Nat
        /\ y.build < x.build <=> y.built < x.built
        /\ y.build = x.build <=> y.built = x.built
    BY <2>1, BuiltGrows
  <2>3. x.build = y.build => x = y
    BY <2>1, RowIs
  <2>4. <<x, y>> \in Later(Q) <=> x.build > y.build
    BY DEF Later
  <2>5. <<x, y>> \in Newer(S) <=> \/ x.built > y.built
                                  \/ x.built = y.built /\ x.submitted > y.submitted
    <3> HIDE DEF S
    <3> QED
      BY <2>1 DEF Newer
  <2> HIDE DEF Q, S
  <2> QED
    BY <2>1, <2>2, <2>3, <2>4, <2>5
<1>3. \A x, y \in Q : x.build \in Nat /\ (x.build = y.build => x = y)
  BY RowIs DEF CompletedRows
<1> HIDE DEF Q, S
<1>4. InOrder(CompletedOf(m), Q, Later(Q))
  BY <1>1, <1>2 DEF InOrder
<1>5. StrictOrder(Q, Later(Q)) /\ Total(Q, Later(Q))
  BY <1>3, ByNumber
<1> QED
  BY <1>4, <1>5 DEF Q

\* In memory they always are, and so both lists are the same.
LEMMA CompletedAgree ==
    ASSUME MemoryInv, pc \in {"idle", "trees"}, NEW m \in Machines
    PROVE  /\ Chronological(m) =>
                CompletedOf(m) = Select(MemoryForMachine(m), LAMBDA r : r.completed)
           /\ InOrder(MemoryForMachine(m), RowsOf(m), Later(RowsOf(m)))
<1> USE DEF MemoryInv, ResolutionInv
<1> DEFINE S == RowsOf(m)
           Q == CompletedRows(m)
           s == MemoryForMachine(m)
           P == {i \in 1..Len(s) : s[i].completed}
<1>1. IsFiniteSet(S) /\ \A x, y \in S : x.build \in Nat /\ (x.build = y.build => x = y)
  BY RowIs, RowsAreFinite
<1>2. s = Reverse(SortedRecords(S))
  BY MemoryHasRows DEF MemoryForMachine
<1>3. Q \in SUBSET S
  BY DEF CompletedRows
<1>4. InOrder(s, S, Later(S))
  <2> HIDE DEF S, s
  <2>1. InOrder(SortedRecords(S), S, Earlier(S))
    BY <1>1, SortedRecordsIs
  <2>2. \A x, y \in S : <<x, y>> \in Later(S) => <<y, x>> \in Earlier(S)
    BY <1>1 DEF Earlier, Later
  <2>3. InOrder(Reverse(SortedRecords(S)), S, Later(S))
    BY <1>1, <2>1, <2>2, ReverseIs
  <2> QED
    BY <1>2, <2>3
<1>5. s \in [1..Cardinality(S) -> S] /\ Cardinality(S) \in Nat
  BY <1>1, <1>4, FS_CardinalityType DEF InOrder
<1>6. P = {i \in 1..Len(s) : s[i] \in Q}
  <2>1. \A i \in 1..Len(s) : s[i] \in S
    <3> HIDE DEF s, S
    <3> QED
      BY <1>5
  <2> QED
    BY <2>1 DEF CompletedRows
<1>7. Select(s, LAMBDA r : r.completed) = At(s, P)
  BY DEF Select
<1> HIDE DEF s, S, Q
<1>8. InOrder(At(s, {i \in 1..Len(s) : s[i] \in Q}), Q, Later(S))
  BY <1>1, <1>3, <1>4, AtIs
<1>9. InOrder(At(s, P), Q, Later(Q))
  <2>1. \A x, y \in Q : <<x, y>> \in Later(Q) <=> <<x, y>> \in Later(S)
    BY <1>3 DEF Later
  <2>2. InOrder(At(s, P), Q, Later(S))
    BY <1>6, <1>8
  <2> HIDE DEF P
  <2> QED
    BY <2>1, <2>2 DEF InOrder
<1> HIDE DEF P
<1>10. ASSUME Chronological(m) PROVE CompletedOf(m) = At(s, P)
  <2>1. /\ InOrder(CompletedOf(m), Q, Later(Q)) /\ IsFiniteSet(Q)
        /\ StrictOrder(Q, Later(Q)) /\ Total(Q, Later(Q))
    BY <1>10, CompletedAre, CompletedFall DEF Q
  <2> QED
    BY <1>9, <2>1, OneOrder
<1> QED
  BY <1>4, <1>7, <1>10 DEF s, S

\* The machines that have builds
Used == {m \in Machines : RowsOf(m) # {}}

LEMMA UsedAreFinite ==
    ASSUME TablesOK
    PROVE  IsFiniteSet(Used) /\ Used \subseteq Nat
<1>1. IsFiniteSet({MachineOf[b] : b \in Builds})
  BY MachinesAreFinite
<1>2. Used \subseteq {MachineOf[b] : b \in Builds}
  BY DEF Used, RowsOf
<1> QED
  BY <1>1, <1>2, FS_Subset, DatabasesAssumption DEF Used

LEMMA MachinesListed ==
    ASSUME TablesOK
    PROVE  /\ InOrder(DjangoListMachines, Used, Smaller(Used))
           /\ ToSet(DjangoListMachines) = Used
<1>1. DjangoListMachines = Sorted(Used, <)
  BY DEF DjangoListMachines, Used
<1>2. InOrder(DjangoListMachines, Used, Smaller(Used))
  BY <1>1, UsedAreFinite, NumbersInOrder
<1> QED
  BY <1>2, UsedAreFinite, InOrderHas

LEMMA MachinesAgree ==
    ASSUME MemoryInv, pc \in {"idle", "trees"}
    PROVE  /\ DjangoListMachines = Select(MemoryListMachines, LAMBDA m : MemoryCount(m) > 0)
           /\ \A m \in Machines : DjangoCount(m) = MemoryCount(m)
<1> USE DEF MemoryInv, ResolutionInv
<1> DEFINE S == DOMAIN memory
           s == MemoryListMachines
           P == {i \in 1..Len(s) : MemoryCount(s[i]) > 0}
<1>1. \A m \in Machines : DOMAIN BuildsIn(m) = BuildsOf(m) /\ (RowsOf(m) # {} => m \in S)
  BY MemoryHasRows
<1>2. \A m \in Machines : DjangoCount(m) = MemoryCount(m) /\ (MemoryCount(m) > 0 <=> RowsOf(m) # {})
  <2> SUFFICES ASSUME NEW m \in Machines
               PROVE  DjangoCount(m) = MemoryCount(m) /\ (MemoryCount(m) > 0 <=> RowsOf(m) # {})
    OBVIOUS
  <2>1. MemoryCount(m) = Cardinality(BuildsOf(m)) /\ DjangoCount(m) = Cardinality(RowsOf(m))
    BY <1>1 DEF MemoryCount, DjangoCount
  <2>2. /\ IsFiniteSet(RowsOf(m)) /\ Cardinality(RowsOf(m)) = Cardinality(BuildsOf(m))
    BY RowsAreFinite
  <2>3. Cardinality(RowsOf(m)) \in Nat /\ (Cardinality(RowsOf(m)) = 0 <=> RowsOf(m) = {})
    BY <2>2, FS_CardinalityType, FS_EmptySet
  <2> QED
    BY <2>1, <2>2, <2>3
<1>3. Select(s, LAMBDA m : MemoryCount(m) > 0) = At(s, P)
  BY DEF Select
<1>4. S \subseteq Machines /\ IsFiniteSet(S) /\ S \subseteq Nat
  BY MemoryIsFinite, DatabasesAssumption
<1>5. InOrder(s, S, Smaller(S))
  BY <1>4, NumbersInOrder DEF MemoryListMachines
<1>6. s \in [1..Cardinality(S) -> S] /\ Cardinality(S) \in Nat
  BY <1>4, <1>5, FS_CardinalityType DEF InOrder
<1>7. Used \in SUBSET S
  BY <1>1 DEF Used
<1> HIDE DEF s, S
<1>8. P = {i \in 1..Len(s) : s[i] \in Used}
  <2>1. ASSUME NEW i \in 1..Len(s) PROVE MemoryCount(s[i]) > 0 <=> s[i] \in Used
    <3>0. Len(s) = Cardinality(S)
      BY <1>6
    <3>1. s[i] \in S /\ s[i] \in Machines
      <4>1. i \in 1..Cardinality(S)
        BY <3>0
      <4> QED
        BY <1>4, <1>6, <4>1
    <3>2. s[i] \in Used <=> RowsOf(s[i]) # {}
      BY <3>1 DEF Used
    <3> QED
      BY <1>2, <3>1, <3>2
  <2> QED
    BY <2>1
<1>9. InOrder(At(s, {i \in 1..Len(s) : s[i] \in Used}), Used, Smaller(S))
  <2>1. IsFiniteSet(S)
    BY <1>4
  <2> HIDE DEF Used
  <2> QED
    BY <2>1, <1>5, <1>7, AtIs
<1>10. InOrder(At(s, P), Used, Smaller(Used))
  <2>1. \A x, y \in Used : <<x, y>> \in Smaller(Used) <=> <<x, y>> \in Smaller(S)
    BY <1>7 DEF Smaller
  <2>2. InOrder(At(s, P), Used, Smaller(S))
    BY <1>8, <1>9
  <2> HIDE DEF P
  <2> QED
    BY <2>1, <2>2 DEF InOrder
<1>11. /\ InOrder(DjangoListMachines, Used, Smaller(Used)) /\ IsFiniteSet(Used)
       /\ StrictOrder(Used, Smaller(Used)) /\ Total(Used, Smaller(Used))
  BY MachinesListed, UsedAreFinite, NumbersInOrder
<1> HIDE DEF P
<1>12. DjangoListMachines = At(s, P)
  BY <1>10, <1>11, OneOrder
<1> QED
  BY <1>2, <1>3, <1>12 DEF s

\* What searches find
LEMMA SearchesFind ==
    ASSUME MemoryInv, pc \in {"idle", "trees"}, NEW m \in Machines,
           NEW field \in {"note", "logs"}, NEW key
    PROVE  /\ ToSet(DjangoSearch(m, field, key)) =
                {r \in RowsOf(m) : r[field] # Nil /\ <<Lower[r[field]], Lower[key]>> \in Containing}
           /\ ToSet(MemorySearch(m, field, key)) =
                {r \in RowsOf(m) : r[field] # Nil /\ <<r[field], Lower[key]>> \in Containing}
<1> USE DEF MemoryInv, ResolutionInv
<1> DEFINE S == RowsOf(m)
           found == {r \in S : r[field] # Nil /\ <<Lower[r[field]], Lower[key]>> \in Containing}
           Q == {r \in S : r[field] # Nil /\ <<r[field], Lower[key]>> \in Containing}
           s == MemoryForMachine(m)
<1>1. IsFiniteSet(S) /\ \A r \in S : r.submitted \in Nat
  BY RowsAreFinite, RowIs
<1>2. ToSet(DjangoSearch(m, field, key)) = found
  <2> DEFINE n == Cardinality(found)
             R == {p \in found \X found : p[1].submitted > p[2].submitted}
             fits(t) == \A i, j \in 1..n : i < j => t[i] # t[j] /\ ~(t[j].submitted > t[i].submitted)
  <2>1. IsFiniteSet(found)
    BY <1>1, FS_Subset
  <2>2. DjangoSearch(m, field, key) = CHOOSE t \in [1..n -> found] : fits(t)
    BY DEF DjangoSearch, Sorted
  <2>3. \A x \in found : x.submitted \in Nat
    BY <1>1
  <2> HIDE DEF found
  <2>4. \A x, y \in found : <<x, y>> \in R <=> x.submitted > y.submitted
    OBVIOUS
  <2> HIDE DEF R
  <2>5. StrictOrder(found, R)
    BY <2>3, <2>4 DEF StrictOrder
  <2>6. PICK t : InOrder(t, found, R)
    BY <2>1, <2>5, OrderExists
  <2>7. \A u \in [1..n -> found] : fits(u) <=> InOrder(u, found, R)
    BY <2>4 DEF InOrder
  <2>8. t \in [1..n -> found]
    BY <2>6 DEF InOrder
  <2> HIDE DEF fits, n
  <2>9. InOrder(DjangoSearch(m, field, key), found, R)
    BY <2>2, <2>6, <2>7, <2>8
  <2> QED
    BY <2>1, <2>9, InOrderHas
<1>3. ToSet(MemorySearch(m, field, key)) = Q
  <2> DEFINE P == {i \in 1..Len(s) : s[i][field] # Nil /\ <<s[i][field], Lower[key]>> \in Containing}
  <2>1. MemorySearch(m, field, key) = At(s, P)
    BY DEF MemorySearch, Select
  <2>2. InOrder(s, S, Later(S))
    BY CompletedAgree
  <2>3. Q \in SUBSET S
    OBVIOUS
  <2> HIDE DEF s, S
  <2>4. s \in [1..Cardinality(S) -> S] /\ Cardinality(S) \in Nat
    BY <1>1, <2>2, FS_CardinalityType DEF InOrder
  <2>5. P = {i \in 1..Len(s) : s[i] \in Q}
    <3>1. \A i \in 1..Len(s) : s[i] \in S
      BY <2>4
    <3> QED
      BY <3>1
  <2> HIDE DEF Q
  <2>6. InOrder(At(s, {i \in 1..Len(s) : s[i] \in Q}), Q, Later(S))
    BY <1>1, <2>2, <2>3, AtIs
  <2> HIDE DEF P
  <2>7. InOrder(MemorySearch(m, field, key), Q, Later(S)) /\ IsFiniteSet(Q)
    BY <1>1, <2>1, <2>3, <2>5, <2>6, FS_Subset
  <2> QED
    BY <2>7, InOrderHas
<1> QED
  BY <1>2, <1>3

\* So both databases answer alike.
LEMMA AnswersAgree ==
    ASSUME MemoryInv
    PROVE  BackendsAgree
<1> SUFFICES ASSUME pc \in {"idle", "trees"}
             PROVE  BackendsAgree
  BY DEF BackendsAgree
<1>1. \A b \in Builds : (DjangoExists(b) <=> MemoryExists(b)) /\ DjangoGet(b) = MemoryGet(b)
  BY DEF MemoryInv, MemoryOK
<1>2. ASSUME NEW m \in Machines
      PROVE  DjangoCount(m) = MemoryCount(m) /\ (Chronological(m) => SameOrder(m))
  BY MachinesAgree, NeighboursAgree, CompletedAgree DEF SameOrder
<1>3. ASSUME NEW m \in Machines, NEW key \in Keys, NEW field \in {"note", "logs"}
      PROVE  LET found == ToSet(DjangoSearch(m, field, key)) IN
             /\ ToSet(MemorySearch(m, field, key)) \subseteq found
             /\ \A r \in found \ ToSet(MemorySearch(m, field, key)) :
                    Lower[r[field]] # r[field]
  <2>1. ToSet(DjangoSearch(m, field, key)) =
            {r \in RowsOf(m) : r[field] # Nil /\ <<Lower[r[field]], Lower[key]>> \in Containing}
    BY SearchesFind
  <2>2. ToSet(MemorySearch(m, field, key)) =
            {r \in RowsOf(m) : r[field] # Nil /\ <<r[field], Lower[key]>> \in Containing}
    BY SearchesFind
  <2>3. ASSUME NEW r \in RowsOf(m), r[field] # Nil, <<r[field], Lower[key]>> \in Containing
        PROVE  <<Lower[r[field]], Lower[key]>> \in Containing
    <3>1. r \in RecordSet
      BY RowsAre, RecordIs DEF MemoryInv, ResolutionInv
    <3>2. r[field] \in Texts
      BY <2>3, <3>1 DEF RecordSet
    <3> QED
      BY <2>3, <3>2, SearchAssumption
  <2> QED
    BY <2>1, <2>2, <2>3
<1>4. DjangoListMachines = Select(MemoryListMachines, LAMBDA m : MemoryCount(m) > 0)
  BY MachinesAgree
<1> QED
  BY <1>1, <1>2, <1>3, <1>4 DEF BackendsAgree

(***************************************************************************)
(* The queries of the GraphQL API                                          *)
(***************************************************************************)

\* A selection of the list of machines
LEMMA MachinesNamedAre ==
    ASSUME TablesOK, NEW names, names # Nil
    PROVE  ToSet(MachinesNamed(names)) = Used \cap names
<1> DEFINE s == DjangoListMachines
           Q == Used \cap names
           P == {i \in 1..Len(s) : names = Nil \/ s[i] \in names}
<1>1. MachinesNamed(names) = At(s, P)
  BY DEF MachinesNamed, Select
<1>2. InOrder(s, Used, Smaller(Used)) /\ IsFiniteSet(Used)
  BY MachinesListed, UsedAreFinite
<1>3. Q \in SUBSET Used
  OBVIOUS
<1> HIDE DEF s
<1>4. s \in [1..Cardinality(Used) -> Used] /\ Cardinality(Used) \in Nat
  BY <1>2, FS_CardinalityType DEF InOrder
<1>5. P = {i \in 1..Len(s) : s[i] \in Q}
  <2>1. \A i \in 1..Len(s) : s[i] \in Used
    BY <1>4
  <2> QED
    BY <2>1
<1> HIDE DEF Q
<1>6. InOrder(At(s, {i \in 1..Len(s) : s[i] \in Q}), Q, Smaller(Used))
  BY <1>2, <1>3, AtIs
<1> HIDE DEF P
<1>7. InOrder(MachinesNamed(names), Q, Smaller(Used)) /\ IsFiniteSet(Q)
  BY <1>1, <1>2, <1>3, <1>5, <1>6, FS_Subset
<1> QED
  BY <1>7, InOrderHas DEF Q

\* Builds in progress
LEMMA WorkingAre ==
    ASSUME TablesOK
    PROVE  \A r : r \in Working <=> \E m \in Machines : r \in RowsOf(m) /\ ~r.completed
<1>1. ToSet(DjangoListMachines) = Used
  BY MachinesListed
<1>2. \A m : ToSet(DjangoForMachine(m)) = RowsOf(m)
  BY ForMachineIs, RowsAreFinite, InOrderHas
<1>3. Working = UNION {{r \in RowsOf(m) : ~r.completed} : m \in Used}
  BY <1>1, <1>2 DEF Working
<1> QED
  BY <1>3 DEF Used

\* When the build was started that the list of completed builds begins with
LEMMA LatestHeads ==
    ASSUME TablesOK, NEW m
    PROVE  BuiltOf(LatestBuild(m)) = BuiltOf(DjangoLatest(m))
<1> DEFINE Q == CompletedRows(m)
           first == LatestBuild(m)
           latest == DjangoLatest(m)
<1>1. /\ Q = {} => first = Nil
      /\ Q # {} => /\ first \in Q
                   /\ \A x \in Q : x # first => <<x, first>> \notin Newer(RowsOf(m))
  <2>1. InOrder(CompletedBuilds(m), Q, Newer(RowsOf(m))) /\ IsFiniteSet(Q)
    BY CompletedAre
  <2> HIDE DEF Q
  <2>2. first = FirstOf(CompletedBuilds(m))
    BY DEF LatestBuild
  <2> QED
    BY <2>1, <2>2, FirstIs
<1>2. \A r \in Q : /\ r \in RowsOf(m) /\ r.build \in Done(m) /\ r # Nil
                   /\ r.built = BuiltAt[r.build] /\ r.built \in Nat /\ r.built # Nil
  <2> SUFFICES ASSUME NEW r \in RowsOf(m), r.completed
               PROVE  /\ r.build \in Done(m) /\ r # Nil
                      /\ r.built = BuiltAt[r.build] /\ r.built \in Nat /\ r.built # Nil
    BY DEF CompletedRows
  <2>1. /\ r.build \in Builds /\ DjangoExists(r.build) /\ MachineOf[r.build] = m
        /\ r = Record(r.build) /\ r.built = BuiltAt[r.build] /\ r.built \in Nat
    BY RowIs
  <2>2. r.build \in Done(m) /\ r # Nil
    BY <2>1, DoneAre, RecordIs
  <2> QED
    BY <2>1, <2>2, DatabasesAssumption
<1>3. \A b \in Done(m) : Record(b) \in Q /\ Record(b).build = b
  BY RowsAre, RecordIs, DoneAre DEF CompletedRows
<1>4. IF Done(m) = {} THEN latest = Nil
      ELSE /\ latest.build \in Done(m) /\ latest = Record(latest.build)
           /\ \A b \in Done(m) : BuiltAt[b] <= BuiltAt[latest.build]
  BY LatestIs
<1> HIDE DEF first, latest, Q
<1>5. CASE Done(m) = {}
  BY <1>1, <1>2, <1>4, <1>5 DEF first, latest
<1>6. CASE Done(m) # {}
  <2>1. latest \in Q /\ \A x \in Q : x.built <= latest.built
    BY <1>2, <1>3, <1>4, <1>6
  <2>2. first \in Q
    BY <1>1, <2>1
  <2>3. latest # first => ~(latest.built > first.built)
    BY <1>1, <1>2, <2>1, <2>2 DEF Newer
  <2>4. first.built = latest.built /\ first # Nil /\ latest # Nil
    BY <1>2, <2>1, <2>2, <2>3
  <2> QED
    BY <2>4 DEF BuiltOf, first, latest
<1> QED
  BY <1>5, <1>6

\* Packages of builds that are in storage
LEMMA PackagesAre ==
    ASSUME stored \subseteq Builds, NEW b \in stored, NEW c \in stored
    PROVE  /\ GetPackages(b) = PackagesIn[b] /\ (GetPackages(b) = Nil <=> b \notin Indexed)
           /\ PackageDetail(b) = IF b \in Indexed THEN GetPackages(b) ELSE Failure
           /\ b \in Indexed => \A x \in GetPackages(b) : Binpkg(b, x) # NotFound
           /\ DiffBinpkgs(b, c) \notin {NotFound, Failure}
           /\ DiffBinpkgs(b, c) = Nil <=> b # c /\ ~({b, c} \subseteq Indexed)
<1>1. b \in Builds /\ c \in Builds
  OBVIOUS
<1>2. GetPackages(b) = PackagesIn[b] /\ GetPackages(c) = PackagesIn[c]
  BY DEF GetPackages
<1>3. (PackagesIn[b] = Nil <=> b \notin Indexed) /\ (PackagesIn[c] = Nil <=> c \notin Indexed)
  BY <1>1 DEF Indexed
<1>4. PackageDetail(b) = IF b \in Indexed THEN GetPackages(b) ELSE Failure
  BY <1>2, <1>3 DEF PackageDetail
<1>5. ASSUME b \in Indexed PROVE \A x \in GetPackages(b) : Binpkg(b, x) # NotFound
  <2>1. \A x \in PackagesIn[b] : <<b, x>> # NotFound
    BY <1>5, PagesAssumption
  <2> QED
    BY <1>2, <1>3, <1>5, <2>1 DEF Binpkg
<1>6. /\ DiffBinpkgs(b, c) \notin {NotFound, Failure}
      /\ DiffBinpkgs(b, c) = Nil <=> b # c /\ ~({b, c} \subseteq Indexed)
  <2>1. {} \notin {Nil, NotFound, Failure} /\ Nil \notin {NotFound, Failure}
    BY PagesAssumption
  <2>2. CASE b = c
    BY <2>1, <2>2 DEF DiffBinpkgs
  <2>3. CASE b # c /\ ~({b, c} \subseteq Indexed)
    <3>1. DiffBinpkgs(b, c) = Nil
      BY <1>2, <1>3, <2>3 DEF DiffBinpkgs
    <3> QED
      BY <2>1, <2>3, <3>1
  <2>4. CASE b # c /\ {b, c} \subseteq Indexed
    <3>1. \A x \in {Nil, NotFound, Failure} : Changes(PackagesIn[b], PackagesIn[c]) # x
      BY <2>4, PagesAssumption
    <3>2. DiffBinpkgs(b, c) = Changes(PackagesIn[b], PackagesIn[c])
      BY <1>2, <1>3, <2>4 DEF DiffBinpkgs
    <3> QED
      BY <2>4, <3>1, <3>2
  <2> QED
    BY <2>2, <2>3, <2>4
<1> QED
  BY <1>2, <1>3, <1>4, <1>5, <1>6

\* What the queries say of a build
LEMMA BuildQueriesFit ==
    ASSUME ResolutionInv, NEW b \in Builds, DjangoExists(b)
    PROVE  /\ MachineOf[b] \in ToSet(MachinesNamed({MachineOf[b]}))
           /\ BuildRecordOr404(b) \in Working
                    <=> BuildRecordOr404(b) \notin ToSet(CompletedBuilds(MachineOf[b]))
           /\ BuildFields(b).completed =>
                /\ BuildFields(b).pulled
                /\ PackagesOf(b) = Nil <=> b \notin Indexed
                /\ PackageDetail(b) = IF b \in Indexed THEN PackagesOf(b) ELSE Failure
                /\ b \in Indexed => \A x \in PackagesOf(b) : Binpkg(b, x) # NotFound
                /\ \A r \in ToSet(CompletedBuilds(MachineOf[b])) :
                    /\ Diff(b, r.build) # NotFound
                    /\ Diff(b, r.build) = Failure
                            <=> b # r.build /\ ~({b, r.build} \subseteq Indexed)
<1> DEFINE m == MachineOf[b]
           r == Record(b)
<1>1. TablesOK /\ stored \subseteq Builds
  BY DEF ResolutionInv, StoredOK
<1>2. m \in Machines
  BY DatabasesAssumption
<1>3. r \in RowsOf(m) /\ r.build = b /\ r.completed \in BOOLEAN /\ BuildRecordOr404(b) = r
  BY <1>1, RowsAre, RecordIs DEF BuildRecordOr404
<1>4. ToSet(CompletedBuilds(m)) = CompletedRows(m)
  <2>1. /\ InOrder(CompletedBuilds(m), CompletedRows(m), Newer(RowsOf(m)))
        /\ IsFiniteSet(CompletedRows(m))
    BY <1>1, CompletedAre
  <2> QED
    BY <2>1, InOrderHas
<1>5. m \in ToSet(MachinesNamed({m}))
  <2>1. {m} # Nil
    BY <1>2, PagesAssumption
  <2>2. m \in Used
    BY <1>2, <1>3 DEF Used
  <2> QED
    BY <1>1, <2>1, <2>2, MachinesNamedAre
<1>6. r \in Working <=> r \notin CompletedRows(m)
  <2>1. r \in Working <=> \E n \in Machines : r \in RowsOf(n) /\ ~r.completed
    BY <1>1, WorkingAre
  <2> HIDE DEF r, m
  <2> QED
    BY <1>2, <1>3, <2>1 DEF CompletedRows
<1>7. ASSUME r.completed
      PROVE  /\ BuildFields(b).pulled
             /\ PackagesOf(b) = Nil <=> b \notin Indexed
             /\ PackageDetail(b) = IF b \in Indexed THEN PackagesOf(b) ELSE Failure
             /\ b \in Indexed => \A x \in PackagesOf(b) : Binpkg(b, x) # NotFound
             /\ \A s \in ToSet(CompletedBuilds(m)) :
                    /\ Diff(b, s.build) # NotFound
                    /\ Diff(b, s.build) = Failure
                            <=> b # s.build /\ ~({b, s.build} \subseteq Indexed)
  <2>1. b \in stored /\ Pulled(b)
    BY <1>1, <1>7, RecordIs DEF Pulled
  <2>2. BuildFields(b).pulled = Pulled(b)
    BY DEF BuildFields
  <2>3. PackagesOf(b) = GetPackages(b)
    BY <2>1 DEF PackagesOf
  <2>4. /\ GetPackages(b) = Nil <=> b \notin Indexed
        /\ PackageDetail(b) = IF b \in Indexed THEN GetPackages(b) ELSE Failure
        /\ b \in Indexed => \A x \in GetPackages(b) : Binpkg(b, x) # NotFound
    BY <1>1, <2>1, PackagesAre
  <2>5. ASSUME NEW s \in CompletedRows(m)
        PROVE  /\ Diff(b, s.build) # NotFound
               /\ Diff(b, s.build) = Failure
                    <=> b # s.build /\ ~({b, s.build} \subseteq Indexed)
    <3>1. s.build \in Builds /\ DjangoExists(s.build) /\ s = Record(s.build) /\ s.completed
      BY <1>1, RowsAre DEF CompletedRows
    <3>2. s.build \in stored
      BY <1>1, <3>1, RecordIs
    <3>3. /\ DiffBinpkgs(b, s.build) \notin {NotFound, Failure}
          /\ DiffBinpkgs(b, s.build) = Nil <=> b # s.build /\ ~({b, s.build} \subseteq Indexed)
      BY <1>1, <2>1, <3>2, PackagesAre
    <3> QED
      BY <3>1, <3>3, PagesAssumption DEF Diff
  <2> QED
    BY <1>4, <2>1, <2>2, <2>3, <2>4, <2>5
<1>8. BuildFields(b).completed = r.completed
  BY DEF BuildFields
<1> QED
  BY <1>3, <1>4, <1>5, <1>6, <1>7, <1>8

\* What they say of a machine
LEMMA MachineQueriesFit ==
    ASSUME ResolutionInv, NEW m \in Machines
    PROVE  /\ BuiltOf(LatestBuild(m)) = BuiltOf(DjangoLatest(m))
           /\ \A info \in TagInfo(m) : info.tag \in Ordinary =>
                LET b == links[m][info.tag] IN
                Record(b).completed => info.build # Nil /\ info.build.build = b
<1>1. TablesOK /\ LinksOK /\ stored \subseteq Builds
  BY DEF ResolutionInv, StoredOK
<1>2. BuiltOf(LatestBuild(m)) = BuiltOf(DjangoLatest(m))
  BY <1>1, LatestHeads
<1>3. ASSUME NEW info \in TagInfo(m), info.tag \in Ordinary, Record(links[m][info.tag]).completed
      PROVE  info.build # Nil /\ info.build.build = links[m][info.tag]
  <2>1. ToSet(DjangoForMachine(m)) = RowsOf(m)
    BY <1>1, ForMachineIs, RowsAreFinite, InOrderHas
  <2>2. PICK name \in UNION {Tags(r.build) : r \in RowsOf(m)} :
            info = [tag |-> name, build |-> ResolveTag(m, name)]
    BY <2>1 DEF TagInfo
  <2> PICK r \in RowsOf(m) : name \in Tags(r.build)
    OBVIOUS
  <2>3. /\ r.build \in Builds /\ DjangoExists(r.build) /\ MachineOf[r.build] = m
    BY <1>1, RowsAre
  <2>4. /\ name \in TagNames /\ name # Published /\ links[m][name] = r.build
        /\ name \in Seq(Tokens) /\ ~IsOffset(name)
        /\ info.tag = name /\ info.build = ResolveTag(m, name)
    BY <1>3, <2>2, <2>3, NamesAre DEF Tags, Ordinary
  <2>5. r.build # Nil
    BY <2>3, DatabasesAssumption
  <2>6. IsValid(name)
    BY <1>1, <2>4, <2>5 DEF LinksOK
  <2>7. r.build \in stored /\ Record(r.build).build = r.build /\ Record(r.build) # Nil
    BY <1>1, <1>3, <2>3, <2>4, RecordIs
  <2>8. ResolveTag(m, name) = Record(r.build)
    <3>1. ResolveTag(m, name) = Named(m, name)
      BY <2>4, PlainName
    <3> QED
      BY <1>1, <2>4, <2>6, <2>7, <3>1, NamedIs
  <2> QED
    BY <2>4, <2>7, <2>8
<1> QED
  BY <1>2, <1>3

(***************************************************************************)
(* Theorems                                                                *)
(***************************************************************************)

\* The invariant, of all of the tables, the storage and the client
THEOREM ResolutionIsSafe == Spec => []ResolutionInv
BY InvInit, InvStep, PTL DEF Spec

\* A completed build has its built time, and no other build has one.
THEOREM CompletedHasBuilt == Spec => []BuiltWhenCompleted
<1>1. ResolutionInv => BuiltWhenCompleted
  BY DatabasesAssumption DEF ResolutionInv, TablesOK, BuiltWhenCompleted
<1> QED
  BY <1>1, ResolutionIsSafe, PTL

\* When save() returns, the four tables together hold what it was given.
THEOREM SavesAll == Spec => SavedAsGiven
<1>1. ResolutionInv /\ [Next]_vars =>
        [\A b \in Builds : SaveNote /\ saving.build = b => DjangoGet(b)' = saving]_vars
  BY SaveNoteGives
<1> QED
  BY <1>1, ResolutionIsSafe, PTL DEF Spec, SavedAsGiven

\* What a tag leads to: the build that its link names, and no build that has
\* no row, or that is of another machine.
LEMMA ParsedIs ==
    ASSUME ResolutionInv, NEW m \in Machines, NEW name \in Ordinary,
           ParseTag(m, name) # NotFound
    PROVE  LET parsed == ParseTag(m, name) IN
           /\ parsed.build \in Builds /\ parsed.build = links[m][name]
           /\ parsed.dirname = name /\ MachineOf[parsed.build] = m
           /\ \/ DjangoExists(parsed.build) /\ name = Published
              \/ parsed.build \in stored
<1> USE DEF ResolutionInv
<1> DEFINE parsed == ParseTag(m, name)
<1>1. name \in TagNames /\ name \in Seq(Tokens) /\ ~IsOffset(name)
  BY NamesAre DEF Ordinary
<1>2. links[m][name] # Nil => MachineOf[links[m][name]] = m
  BY <1>1 DEF LinksOK
<1>3. stored \subseteq Builds
  BY DEF StoredOK
<1>4. CASE name = Published
  <2> DEFINE published == {r \in RowsOf(m) : IsPublished(r.build)}
  <2>1. published # {} /\ parsed = [build |-> PublishedBuild(m).build, dirname |-> name]
    BY <1>4 DEF ParseTag, PublishedBuild
  <2>2. PublishedBuild(m) \in published
    BY <2>1 DEF PublishedBuild
  <2> DEFINE b == PublishedBuild(m).build
  <2>3. b \in Builds /\ DjangoExists(b) /\ MachineOf[b] = m /\ links[m][Published] = b
    BY <2>2, RowsAre DEF IsPublished
  <2> HIDE DEF b
  <2>4. parsed.build = b /\ parsed.dirname = name
    BY <2>1 DEF b
  <2> QED
    BY <1>4, <2>3, <2>4
<1>5. CASE name # Published
  <2> DEFINE r == ResolveTag(m, name)
  <2>1. r \notin {Nil, Invalid} /\ parsed = [build |-> r.build, dirname |-> name]
    BY <1>5 DEF ParseTag
  <2>2. r = Named(m, name)
    BY <1>1, PlainName
  <2> DEFINE b == links[m][name]
  <2>3. b \in stored /\ r = Record(b)
    BY <1>1, <1>3, <2>1, <2>2, NamedIs
  <2>4. b \in Builds /\ b # Nil
    BY <1>3, <2>3, DatabasesAssumption
  <2>5. r.build = b
    BY <2>3, <2>4, RecordIs DEF Record, BuildRecord
  <2> HIDE DEF b, r
  <2>6. parsed.build = b /\ parsed.dirname = name
    BY <2>1, <2>5
  <2> QED
    BY <1>2, <2>3, <2>4, <2>6 DEF b
<1> QED
  BY <1>4, <1>5

\* The configuration that machines are given for a tag names a link to the
\* tag's build, and the build is there, until the first crash.
THEOREM TagsAreServed == Spec => []ServesTaggedBuild
<1>1. ResolutionInv => ServesTaggedBuild
  <2> SUFFICES ASSUME ResolutionInv, crashes = 0, NEW m \in Machines, NEW name \in Ordinary,
                      ParseTag(m, name) # NotFound, copies[ParseTag(m, name).build] = Nil
               PROVE  /\ ReposConf(m, name) = ParseTag(m, name).build
                      /\ links[m][BinreposConf(m, name)[1]] = ParseTag(m, name).build
    BY DEF ServesTaggedBuild
  <2> DEFINE parsed == ParseTag(m, name)
  <2>1. /\ parsed.build \in Builds /\ parsed.build = links[m][name] /\ parsed.dirname = name
        /\ DjangoExists(parsed.build) \/ parsed.build \in stored
    BY ParsedIs
  <2>2. ReposConf(m, name) = IF parsed.build \in stored THEN parsed.build ELSE Failure
    BY DEF ReposConf
  <2>3. BinreposConf(m, name) = <<parsed.dirname>>
    BY DEF BinreposConf
  <2> HIDE DEF parsed
  <2>4. parsed.build \in stored
    BY <2>1 DEF ResolutionInv, StoredOK, parsed
  <2> QED
    BY <2>1, <2>2, <2>3, <2>4 DEF parsed
<1> QED
  BY <1>1, ResolutionIsSafe, PTL

\* Pages that tags lead to are there, and show the tag.
THEOREM PagesAreThere == Spec => []RedirectsArrive
<1>1. ResolutionInv => RedirectsArrive
  <2> SUFFICES ASSUME ResolutionInv, Undisturbed, NEW m \in Machines,
                      NEW name \in TagNames \cup {<<"@">>}, ParseTag(m, name) # NotFound
               PROVE  /\ FollowTag(m, name) # NotFound
                      /\ name \in Ordinary =>
                            LET page == BuildView(FollowTag(m, name)) IN
                            IF name = Published THEN page.published ELSE name \in page.tags
    BY DEF RedirectsArrive
  <2> DEFINE parsed == ParseTag(m, name)
             b == parsed.build
             r == FollowTag(m, name)
  <2>1. /\ pc = "idle" /\ stored \subseteq Builds /\ TablesOK /\ LinksOK
        /\ \A c \in stored : DjangoExists(c)
    BY DEF Undisturbed, ResolutionInv, StoredOK
  <2>2. name \in Seq(Tokens)
    BY NamesAre
  <2>3. b \in Builds /\ DjangoExists(b)
    <3>1. CASE name = Published
      <4>1. name \in Ordinary
        BY <3>1, ResolutionAssumption DEF Ordinary, Published, IsOffset
      <4> QED
        BY <2>1, <4>1, ParsedIs
    <3>2. CASE name # Published
      <4> DEFINE record == ResolveTag(m, name)
      <4>1. record \notin {Nil, Invalid} /\ parsed = [build |-> record.build, dirname |-> name]
        BY <3>2 DEF ParseTag
      <4>2. record \notin {Nil, Invalid} => IsRecord(record)
        BY <2>1, <2>2, ResolvedFits
      <4> HIDE DEF record
      <4>3. IsRecord(record) /\ b = record.build
        BY <4>1, <4>2
      <4> QED
        BY <4>3 DEF IsRecord
    <3> QED
      BY <3>1, <3>2
  <2>4. r = Record(b) /\ r # NotFound /\ r.build = b
    <3>1. r = DjangoGet(b)
      BY <2>3 DEF FollowTag, BuildRecordOr404
    <3> HIDE DEF r, b
    <3> QED
      BY <2>1, <2>3, <3>1, RecordIs, PagesAssumption
  <2>5. ASSUME name \in Ordinary
        PROVE  IF name = Published THEN BuildView(r).published ELSE name \in BuildView(r).tags
    <3>1. b = links[m][name] /\ MachineOf[b] = m /\ name \in TagNames
      BY <2>5, ParsedIs DEF Ordinary
    <3>2. /\ IsPublished(b) <=> links[m][Published] = b
          /\ Tags(b) = {t \in TagNames \ {Published} : links[m][t] = b}
      BY <3>1 DEF IsPublished, Tags
    <3>3. name = Published => IsPublished(b)
      BY <3>1, <3>2
    <3>4. name # Published => name \in Tags(b)
      BY <3>1, <3>2
    <3> HIDE DEF r, b
    <3>5. BuildView(r).tags = Tags(b)
      BY <2>4 DEF BuildView
    <3>6. BuildView(r).published <=> IsPublished(b)
      BY <2>4 DEF BuildView
    <3> QED
      BY <3>3, <3>4, <3>5, <3>6
  <2> QED
    BY <2>4, <2>5
<1> QED
  BY <1>1, ResolutionIsSafe, PTL

\* resolve_tag() does what its docstring says, by the times that Jenkins gives.
THEOREM TagsResolve == Spec => []ResolvesAsDocumented
<1>1. ResolutionInv => ResolvesAsDocumented
  <2> SUFFICES ASSUME ResolutionInv, NEW m \in Machines
               PROVE  /\ LET latest == ResolveTag(m, <<"@">>) IN
                         IF Done(m) = {} THEN latest = Nil
                         ELSE /\ latest.build \in Done(m) /\ latest = Record(latest.build)
                              /\ \A b \in Done(m) : BuiltAt[b] <= BuiltAt[latest.build]
                      /\ \A name \in Bases :
                          LET b == links[m][name] IN
                          IF b \notin stored THEN ResolveTag(m, name) = Nil
                          ELSE /\ ResolveTag(m, name) = Record(b)
                               /\ Record(b).completed => \A sign \in Signs, digits \in Offsets :
                                    IsNth(ResolveTag(m, name \o <<sign, digits>>), b,
                                          sign, ValueOf[digits])
    BY DEF ResolvesAsDocumented
  <2>1. TablesOK /\ LinksOK /\ stored \subseteq Builds
    BY DEF ResolutionInv, StoredOK
  <2>2. ResolveTag(m, <<"@">>) = DjangoLatest(m)
    BY NamesAre, PlainName DEF Named
  <2>3. ASSUME NEW name \in Bases
        PROVE  LET b == links[m][name] IN
               IF b \notin stored THEN ResolveTag(m, name) = Nil
               ELSE /\ ResolveTag(m, name) = Record(b)
                    /\ Record(b).completed => \A sign \in Signs, digits \in Offsets :
                         IsNth(ResolveTag(m, name \o <<sign, digits>>), b, sign, ValueOf[digits])
    <3> DEFINE b == links[m][name]
    <3>1. /\ name \in TagNames /\ name \in Seq(Tokens) /\ ~IsOffset(name)
          /\ name = Published \/ IsValid(name)
      BY NamesAre, ResolutionAssumption
    <3>2. IF b \in stored THEN Named(m, name) = Record(b) ELSE Named(m, name) = Nil
      BY <2>1, <3>1, NamedIs
    <3>3. ResolveTag(m, name) = Named(m, name)
      BY <3>1, PlainName
    <3> HIDE DEF b
    <3>4. ASSUME b \in stored, Record(b).completed, NEW sign \in Signs, NEW digits \in Offsets
          PROVE  IsNth(ResolveTag(m, name \o <<sign, digits>>), b, sign, ValueOf[digits])
      <4>1. b \in Builds /\ digits \in Digits
        BY <2>1, <3>4, ResolutionAssumption
      <4>2. DjangoExists(b)
        BY <3>4 DEF Record, BuildRecord
      <4>3. Record(b) \notin {Nil, Invalid}
        BY <2>1, <4>1, <4>2, RecordIs, ResolutionAssumption, DatabasesAssumption
      <4>4. Named(m, name) = Record(b)
        BY <3>2, <3>4
      <4>5. ResolveTag(m, name \o <<sign, digits>>) = Walk(Record(b), sign, ValueOf[digits])
        BY <3>1, <4>1, <4>3, <4>4, OffsetName
      <4>6. ValueOf[digits] \in Nat
        BY <4>1, DigitsAre
      <4>7. IsNth(Walk(Record(b), sign, ValueOf[digits]), b, sign, ValueOf[digits])
        BY <2>1, <3>4, <4>1, <4>2, <4>6, WalkIsNth
      <4> QED
        BY <4>5, <4>7
    <3> QED
      BY <3>2, <3>3, <3>4 DEF b
  <2>4. LET latest == DjangoLatest(m) IN
        IF Done(m) = {} THEN latest = Nil
        ELSE /\ latest.build \in Done(m) /\ latest = Record(latest.build)
             /\ \A b \in Done(m) : BuiltAt[b] <= BuiltAt[latest.build]
    BY <2>1, LatestIs
  <2> QED
    BY <2>2, <2>3, <2>4
<1> QED
  BY <1>1, ResolutionIsSafe, PTL

\* Between two operations memory holds the same records as the tables.
THEOREM MemoryIsSafe == Spec => []MemoryInv
<1>1. ResolutionInv /\ MemoryOK /\ [Next]_vars => MemoryOK'
  BY MemoryStep
<1>2. Init => MemoryOK
  BY MemoryInit
<1> QED
  BY <1>1, <1>2, ResolutionIsSafe, PTL DEF Spec, MemoryInv

\* Both implementations of RecordDB hold the same and find the same, and agree
\* about the order of the builds of a machine whose times follow their numbers.
THEOREM BackendsAnswerAlike == Spec => []BackendsAgree
<1>1. MemoryInv => BackendsAgree
  BY AnswersAgree
<1> QED
  BY <1>1, MemoryIsSafe, PTL

\* The answers to different queries fit together, and the packages of completed
\* builds are there exactly if the artifact had a package index.
THEOREM QueriesAgree == Spec => []QueriesFit
<1>1. ResolutionInv => QueriesFit
  BY BuildQueriesFit, MachineQueriesFit DEF QueriesFit
<1> QED
  BY <1>1, ResolutionIsSafe, PTL
=============================================================================
