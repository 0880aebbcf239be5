------------------------ MODULE AdministrationProofs ------------------------
(***************************************************************************)
(* What Administration promises about API keys and folders, for any web    *)
(* processes, names, keys and crashes.                                     *)
(***************************************************************************)
EXTENDS Administration, SequenceTheorems, TLAPS

(***************************************************************************)
(* API keys                                                                *)
(***************************************************************************)

\* The steps of a request, and of the administrator, that use a key.
WebSteps == {"get key", "get_or_create", "save key"}
CreateSteps == {"list keys", "get_or_create", "save key"}

\* A process has a key in hand for a name: it is about to save it there.
InHand(p, name, key) ==
    /\ pc[p] \in IF p = "admin" THEN CreateSteps ELSE Accepted
    /\ local[p].name = name /\ local[p].key = key

\* A key belongs to a name: its row has it, or a process will save it there.
Belongs(name, key) ==
    \/ KeyExists(name) /\ keys[name].key = key
    \/ \E p \in Procs : InHand(p, name, key)

KeysTypeOK ==
    /\ ApiKeysTypeOK
    /\ DOMAIN pc = Procs /\ DOMAIN local = Procs
    /\ \A p \in Web : pc[p] \in WebSteps =>
            local[p].name \in Names /\ local[p].key \in Keys
    /\ pc["admin"] \in CreateSteps =>
            local["admin"].name \in Names /\ local["admin"].key \in Keys
    /\ pc["admin"] = "delete key" => local["admin"].name \in Names

\* The key that is about to be deleted.
Deleting(key) == pc["admin"] = "delete key" /\ local["admin"].key = key

KeysAreIssued ==
    /\ revoked \subseteq issued
    /\ \A key \in Keys : Deleting(key) => key \in issued
    /\ \A name \in Names, key \in Keys : Belongs(name, key) => key \in issued

OneName ==
    \A key \in Keys, name, other \in Names :
        Belongs(name, key) /\ Belongs(other, key) => name = other

DeletesItsOwn ==
    \A key \in Keys, name \in Names :
        Deleting(key) /\ Belongs(name, key) => name = local["admin"].name

RevokedAreGone ==
    \A name \in Names, key \in revoked \ excused : ~Belongs(name, key)

LateIsRevoked ==
    \A p \in Web : pc[p] \in WebSteps /\ local[p].late => local[p].key \in revoked

KeysInv ==
    /\ KeysTypeOK
    /\ KeysAreIssued
    /\ OneName
    /\ DeletesItsOwn
    /\ RevokedAreGone
    /\ LateIsRevoked

KeySteps == WebSteps \cup CreateSteps \cup {"delete key"}

\* Nothing comes to belong to a name, and no key is revoked.
LEMMA NothingNew ==
    ASSUME KeysInv, KeysTypeOK',
           \A name \in Names, key \in Keys : Belongs(name, key)' => Belongs(name, key),
           \A key \in Keys : Deleting(key)' =>
                Deleting(key) /\ local'["admin"].name = local["admin"].name,
           issued' = issued, revoked' = revoked, excused' = excused,
           LateIsRevoked'
    PROVE  KeysInv'
<1>1. revoked \subseteq Keys
  BY DEF KeysInv, KeysTypeOK, ApiKeysTypeOK
<1>2. DeletesItsOwn'
  BY DEF KeysInv, DeletesItsOwn
<1> QED
  BY <1>1, <1>2 DEF KeysInv, KeysAreIssued, OneName, RevokedAreGone

\* A process goes on to a step that has nothing to do with keys.
LEMMA LeavesKeys ==
    ASSUME KeysInv, NEW p \in Procs, NEW next, NEW value,
           pc' = [pc EXCEPT ![p] = next], local' = [local EXCEPT ![p] = value],
           next \notin KeySteps,
           UNCHANGED apiKeys
    PROVE  KeysInv'
<1> USE AdministrationAssumption DEF KeySteps, WebSteps, CreateSteps, Procs
<1>1. KeysTypeOK'
  BY DEF KeysInv, KeysTypeOK, ApiKeysTypeOK, apiKeys
<1>2. ASSUME NEW name \in Names, NEW key \in Keys, Belongs(name, key)'
      PROVE  Belongs(name, key)
  <2>1. CASE (KeyExists(name) /\ keys[name].key = key)'
    BY <2>1 DEF Belongs, KeyExists, apiKeys
  <2>2. ASSUME NEW q \in Procs, InHand(q, name, key)'
        PROVE  InHand(q, name, key)
    BY <2>2 DEF InHand, KeysInv, KeysTypeOK, Accepted
  <2> QED
    BY <1>2, <2>1, <2>2 DEF Belongs
<1>3. LateIsRevoked'
  BY DEF KeysInv, KeysTypeOK, LateIsRevoked, apiKeys
<1>4. \A key \in Keys : Deleting(key)' =>
            Deleting(key) /\ local'["admin"].name = local["admin"].name
  BY DEF Deleting, KeysInv, KeysTypeOK
<1> QED
  BY <1>1, <1>2, <1>3, <1>4, NothingNew DEF apiKeys

LEMMA AnswerLeaves ==
    ASSUME KeysInv, NEW p \in Procs, NEW value, Answer(p, value), UNCHANGED apiKeys
    PROVE  KeysInv'
BY LeavesKeys DEF Answer, KeySteps, WebSteps, CreateSteps

LEMMA GotoLeaves ==
    ASSUME KeysInv, NEW p \in Procs, NEW next, Goto(p, next), next \notin KeySteps,
           UNCHANGED apiKeys
    PROVE  KeysInv'
BY LeavesKeys DEF Goto, Continue

LEMMA KeysInitially == Init => KeysInv
<1> SUFFICES ASSUME Init PROVE KeysInv
  OBVIOUS
<1> USE AdministrationAssumption
    DEF Init, ApiKeysInit, WebSteps, CreateSteps, Procs
<1>1. KeysTypeOK
  BY DEF KeysTypeOK, ApiKeysTypeOK
<1>2. \A name \in Names, key \in Keys : ~Belongs(name, key)
  BY DEF Belongs, InHand, KeyExists, Accepted
<1> QED
  BY <1>1, <1>2 DEF KeysInv, KeysAreIssued, OneName, DeletesItsOwn, Deleting,
                    RevokedAreGone, LateIsRevoked

\* The steps of a request that follow the check of its key.
JenkinsStep(p) ==
    \/ HeadFolder(p) \/ CheckFolder(p) \/ PostFolder(p) \/ InstallPlugin(p)
    \/ HeadItem(p) \/ PostItem(p) \/ GetParameters(p) \/ Schedule(p)
    \/ HttpFails(p)

LEMMA JenkinsStepLeaves ==
    ASSUME KeysInv, NEW p \in Web, JenkinsStep(p)
    PROVE  KeysInv'
<1> p \in Procs
  BY DEF Procs
<1> USE DEF UnchangedKeys
<1>1. UNCHANGED apiKeys
  BY DEF JenkinsStep, HeadFolder, CheckFolder, PostFolder, InstallPlugin, HeadItem,
         PostItem, GetParameters, Schedule, HttpFails
<1>2. (\E value : Answer(p, value)) => KeysInv'
  BY <1>1, AnswerLeaves
<1>3. ASSUME NEW next, Goto(p, next), next \notin KeySteps
      PROVE  KeysInv'
  BY <1>1, <1>3, GotoLeaves
<1>4. NextFolder(p) => KeysInv'
  <2> SUFFICES ASSUME NextFolder(p) PROVE KeysInv'
    OBVIOUS
  <2> QED
    BY <1>1, LeavesKeys
       DEF NextFolder, Goto, Continue, KeySteps, WebSteps, CreateSteps
<1> USE DEF KeySteps, WebSteps, CreateSteps
<1>5. CASE HeadFolder(p)
  BY <1>3, <1>5 DEF HeadFolder
<1>6. CASE CheckFolder(p)
  BY <1>2, <1>4, <1>6 DEF CheckFolder
<1>7. CASE PostFolder(p)
  BY <1>2, <1>4, <1>7 DEF PostFolder
<1>8. CASE InstallPlugin(p)
  BY <1>3, <1>8 DEF InstallPlugin
<1>9. CASE HeadItem(p)
  BY <1>2, <1>3, <1>9 DEF HeadItem
<1>10. CASE PostItem(p)
  BY <1>2, <1>10 DEF PostItem
<1>11. CASE GetParameters(p)
  BY <1>2, <1>3, <1>11 DEF GetParameters
<1>12. CASE Schedule(p)
  BY <1>2, <1>12 DEF Schedule
<1>13. CASE HttpFails(p)
  BY <1>2, <1>13 DEF HttpFails
<1> QED
  BY <1>5, <1>6, <1>7, <1>8, <1>9, <1>10, <1>11, <1>12, <1>13 DEF JenkinsStep

\* A step of one process that moves no key to another name: all that the
\* steps with a key have in common.
LEMMA OneProcess ==
    ASSUME KeysInv, NEW p \in Procs, NEW next, NEW value,
           pc' = [pc EXCEPT ![p] = next], local' = [local EXCEPT ![p] = value],
           ApiKeysTypeOK', issued' = issued, revoked' = revoked, excused' = excused,
           value.name \in Names, value.key \in Keys, next \in WebSteps,
           p \in Web => (value.late => value.key \in revoked),
           \A name \in Names, key \in Keys :
                (KeyExists(name) /\ keys[name].key = key)' => Belongs(name, key),
           next \in Accepted => Belongs(value.name, value.key)
    PROVE  KeysInv'
<1> USE AdministrationAssumption DEF WebSteps, CreateSteps, Procs
<1>1. DOMAIN pc = Procs /\ DOMAIN local = Procs
  BY DEF KeysInv, KeysTypeOK
<1>2. KeysTypeOK'
  <2>1. ASSUME NEW q \in Web, pc'[q] \in WebSteps
        PROVE  local'[q].name \in Names /\ local'[q].key \in Keys
    BY <1>1, <2>1 DEF KeysInv, KeysTypeOK
  <2>2. pc'["admin"] \in CreateSteps =>
            local'["admin"].name \in Names /\ local'["admin"].key \in Keys
    BY <1>1 DEF KeysInv, KeysTypeOK
  <2>3. pc'["admin"] = "delete key" => local'["admin"].name \in Names
    BY <1>1 DEF KeysInv, KeysTypeOK
  <2> QED
    BY <1>1, <2>1, <2>2, <2>3 DEF KeysTypeOK
<1>3. ASSUME NEW name \in Names, NEW key \in Keys, Belongs(name, key)'
      PROVE  Belongs(name, key)
  <2>1. ASSUME NEW q \in Procs, InHand(q, name, key)', q # p
        PROVE  Belongs(name, key)
    BY <1>1, <2>1 DEF InHand, Belongs
  <2>2. ASSUME InHand(p, name, key)', next \in Accepted
        PROVE  Belongs(name, key)
    <3>1. value.name = name /\ value.key = key
      BY <1>1, <2>2 DEF InHand
    <3> QED
      BY <2>2, <3>1
  <2>3. InHand(p, name, key)' => next \in Accepted
    BY <1>1 DEF InHand, Accepted
  <2> QED
    BY <1>3, <2>1, <2>2, <2>3 DEF Belongs
<1>4. LateIsRevoked'
  BY <1>1 DEF KeysInv, LateIsRevoked
<1>5. \A key \in Keys : Deleting(key)' =>
            Deleting(key) /\ local'["admin"].name = local["admin"].name
  BY <1>1 DEF Deleting
<1> QED
  BY <1>2, <1>3, <1>4, <1>5, NothingNew

LEMMA BeginRequestKeeps ==
    ASSUME KeysInv, NEW p \in Web, NEW request \in Requests, NEW name \in Names,
           NEW key \in Keys, BeginRequest(p, request, name, key)
    PROVE  KeysInv'
<1> p \in Procs /\ p # "admin"
  BY AdministrationAssumption DEF Procs
<1> USE DEF BeginRequest, UnchangedKeys
<1>1. CASE ~ApiKeyEnable
  <2>1. Resolver(request) \notin KeySteps
    BY DEF Resolver, KeySteps, WebSteps, CreateSteps
  <2> QED
    BY <1>1, <2>1, LeavesKeys
<1>2. CASE ApiKeyEnable
  <2> DEFINE value == [request |-> request, name |-> LowerName[name], key |-> key,
                       late |-> key \in revoked]
  <2>1. /\ pc' = [pc EXCEPT ![p] = "get key"]
        /\ local' = [local EXCEPT ![p] = value]
        /\ UNCHANGED apiKeys
    BY <1>2
  <2>2. /\ value.name \in Names /\ value.key \in Keys
        /\ value.late => value.key \in revoked
    BY ApiKeysAssumption
  <2> HIDE DEF value
  <2>3. ApiKeysTypeOK'
    BY <2>1 DEF KeysInv, KeysTypeOK, ApiKeysTypeOK, apiKeys
  <2>4. \A n \in Names, k \in Keys :
            (KeyExists(n) /\ keys[n].key = k)' => Belongs(n, k)
    BY <2>1 DEF Belongs, KeyExists, apiKeys
  <2>5. "get key" \in WebSteps /\ "get key" \notin Accepted
    BY DEF WebSteps, Accepted
  <2> QED
    BY <2>1, <2>2, <2>3, <2>4, <2>5, OneProcess DEF apiKeys
<1> QED
  BY <1>1, <1>2

\* What a process with a key in hand, or about to check one, has.
LEMMA InHandFacts ==
    ASSUME KeysInv, NEW p \in Procs, pc[p] \in WebSteps, p = "admin" => pc[p] # "get key"
    PROVE  /\ local[p].name \in Names /\ local[p].key \in Keys
           /\ p \in Web /\ local[p].late => local[p].key \in revoked
           /\ pc[p] \in Accepted => Belongs(local[p].name, local[p].key)
<1> USE AdministrationAssumption DEF WebSteps, CreateSteps, Accepted, Procs
<1>1. local[p].name \in Names /\ local[p].key \in Keys
  BY DEF KeysInv, KeysTypeOK
<1>2. p \in Web /\ local[p].late => local[p].key \in revoked
  BY DEF KeysInv, LateIsRevoked
<1>3. pc[p] \in Accepted => InHand(p, local[p].name, local[p].key)
  BY DEF InHand
<1> QED
  BY <1>1, <1>2, <1>3 DEF Belongs

LEMMA GetApiKeyKeeps ==
    ASSUME KeysInv, NEW p \in Web, GetApiKey(p)
    PROVE  KeysInv'
<1>1. p \in Procs /\ p # "admin" /\ pc[p] = "get key" /\ UNCHANGED apiKeys
  BY AdministrationAssumption DEF GetApiKey, UnchangedKeys, Procs
<1>2. CASE Matches(local[p].name, local[p].key)
  <2>1. /\ pc' = [pc EXCEPT ![p] = "get_or_create"]
        /\ local' = [local EXCEPT ![p] = local[p]]
    BY <1>2 DEF GetApiKey, Goto, Continue
  <2>2. /\ local[p].name \in Names /\ local[p].key \in Keys
        /\ p \in Web /\ local[p].late => local[p].key \in revoked
    BY <1>1, InHandFacts DEF WebSteps
  <2>3. Belongs(local[p].name, local[p].key)
    BY <1>2 DEF Matches, Readable, Belongs
  <2>4. \A n \in Names, k \in Keys :
            (KeyExists(n) /\ keys[n].key = k)' => Belongs(n, k)
    BY <1>1 DEF Belongs, KeyExists, apiKeys
  <2>5. ApiKeysTypeOK'
    BY <1>1 DEF KeysInv, KeysTypeOK, ApiKeysTypeOK, apiKeys
  <2>6. "get_or_create" \in WebSteps
    BY DEF WebSteps
  <2> QED
    BY <1>1, <2>1, <2>2, <2>3, <2>4, <2>5, <2>6, OneProcess DEF apiKeys
<1>3. CASE ~Matches(local[p].name, local[p].key)
  BY <1>1, <1>3, AnswerLeaves DEF GetApiKey
<1> QED
  BY <1>2, <1>3

\* get_or_create() may add a row with no key in it.
LEMMA SaveApiKeyGetKeeps ==
    ASSUME KeysInv, NEW p \in Procs, SaveApiKeyGet(p)
    PROVE  KeysInv'
<1>1. /\ pc[p] = "get_or_create"
      /\ pc' = [pc EXCEPT ![p] = "save key"]
      /\ local' = [local EXCEPT ![p] = local[p]]
      /\ GetOrCreate(local[p].name)
      /\ UNCHANGED <<issued, revoked, excused>>
  BY DEF SaveApiKeyGet, Goto, Continue
<1>2. /\ local[p].name \in Names /\ local[p].key \in Keys
      /\ p \in Web /\ local[p].late => local[p].key \in revoked
      /\ Belongs(local[p].name, local[p].key)
  BY <1>1, InHandFacts DEF WebSteps, Accepted
<1>3. ApiKeysTypeOK'
  <2>1. [key |-> Blank, used |-> FALSE] \in Row
    BY DEF Row
  <2> QED
    BY <1>1, <1>2, <2>1 DEF KeysInv, KeysTypeOK, ApiKeysTypeOK, GetOrCreate
<1>4. \A n \in Names, k \in Keys :
            (KeyExists(n) /\ keys[n].key = k)' => Belongs(n, k)
  <2> SUFFICES ASSUME NEW n \in Names, NEW k \in Keys,
                      (KeyExists(n) /\ keys[n].key = k)'
               PROVE  KeyExists(n) /\ keys[n].key = k
    BY DEF Belongs
  <2> QED
    BY <1>1, ApiKeysAssumption
       DEF KeyExists, GetOrCreate, KeysInv, KeysTypeOK, ApiKeysTypeOK
<1>5. "save key" \in WebSteps
  BY DEF WebSteps
<1> QED
  BY <1>1, <1>2, <1>3, <1>4, <1>5, OneProcess

\* The row gets a key that belongs to its name already.
LEMMA SaveApiKeyKeeps ==
    ASSUME KeysInv, NEW p \in Procs, SaveApiKey(p)
    PROVE  KeysInv'
<1> USE AdministrationAssumption
<1> DEFINE next == pc'[p]
           value == local'[p]
<1>0. DOMAIN pc = Procs /\ DOMAIN local = Procs
  BY DEF KeysInv, KeysTypeOK
<1>1. /\ pc[p] = "save key"
      /\ SaveKey(local[p].name, local[p].key, p \in Web)
      /\ UNCHANGED <<issued, revoked, excused>>
  BY DEF SaveApiKey
<1>2. /\ pc' = [pc EXCEPT ![p] = next]
      /\ local' = [local EXCEPT ![p] = value]
      /\ next \notin KeySteps
  BY <1>0 DEF SaveApiKey, Resolve, Continue, Answer, Resolver,
              KeySteps, WebSteps, CreateSteps
<1>3. /\ local[p].name \in Names /\ local[p].key \in Keys
      /\ Belongs(local[p].name, local[p].key)
  BY <1>1, InHandFacts DEF WebSteps, Accepted
<1> HIDE DEF next, value
<1> USE DEF KeySteps, WebSteps, CreateSteps, Procs
<1>4. KeysTypeOK'
  <2>1. [key |-> local[p].key, used |-> p \in Web] \in Row
    BY <1>3 DEF Row
  <2>2. ApiKeysTypeOK'
    BY <1>1, <1>3, <2>1 DEF KeysInv, KeysTypeOK, ApiKeysTypeOK, SaveKey
  <2> QED
    BY <1>2, <2>2 DEF KeysInv, KeysTypeOK
<1>5. ASSUME NEW n \in Names, NEW k \in Keys, Belongs(n, k)'
      PROVE  Belongs(n, k)
  <2>1. ASSUME (KeyExists(n) /\ keys[n].key = k)'
        PROVE  Belongs(n, k)
    <3>1. CASE n = local[p].name
      <4>1. keys'[n].key = local[p].key
        BY <1>1, <1>3, <3>1 DEF SaveKey, KeysInv, KeysTypeOK, ApiKeysTypeOK
      <4> QED
        BY <1>3, <2>1, <3>1, <4>1
    <3>2. CASE n # local[p].name
      BY <1>1, <2>1, <3>2
         DEF SaveKey, KeysInv, KeysTypeOK, ApiKeysTypeOK, KeyExists, Belongs
    <3> QED
      BY <3>1, <3>2
  <2>2. ASSUME NEW q \in Procs, InHand(q, n, k)'
        PROVE  InHand(q, n, k)
    BY <1>0, <1>2, <2>2 DEF InHand, Accepted
  <2> QED
    BY <1>5, <2>1, <2>2 DEF Belongs
<1>6. LateIsRevoked'
  BY <1>0, <1>1, <1>2 DEF KeysInv, LateIsRevoked
<1>7. \A key \in Keys : Deleting(key)' =>
            Deleting(key) /\ local'["admin"].name = local["admin"].name
  BY <1>0, <1>2 DEF Deleting
<1> QED
  BY <1>1, <1>4, <1>5, <1>6, <1>7, NothingNew

LEMMA ListKeysKeeps ==
    ASSUME KeysInv, ListKeys
    PROVE  KeysInv'
<1>1. "admin" \in Procs /\ "admin" \notin Web /\ UNCHANGED apiKeys
      /\ pc["admin"] = "list keys"
  BY AdministrationAssumption DEF ListKeys, UnchangedKeys, Procs
<1>2. ASSUME NEW value, Answer("admin", value)
      PROVE  KeysInv'
  BY <1>1, <1>2, AnswerLeaves
<1>3. ASSUME Goto("admin", "get_or_create")
      PROVE  KeysInv'
  <2>1. /\ pc' = [pc EXCEPT !["admin"] = "get_or_create"]
        /\ local' = [local EXCEPT !["admin"] = local["admin"]]
    BY <1>3 DEF Goto, Continue
  <2>2. local["admin"].name \in Names /\ local["admin"].key \in Keys
    BY <1>1 DEF KeysInv, KeysTypeOK, CreateSteps
  <2>3. Belongs(local["admin"].name, local["admin"].key)
    BY <1>1 DEF Belongs, InHand, CreateSteps
  <2>4. \A n \in Names, k \in Keys :
            (KeyExists(n) /\ keys[n].key = k)' => Belongs(n, k)
    BY <1>1 DEF Belongs, KeyExists, apiKeys
  <2>5. ApiKeysTypeOK'
    BY <1>1 DEF KeysInv, KeysTypeOK, ApiKeysTypeOK, apiKeys
  <2>6. "get_or_create" \in WebSteps
    BY DEF WebSteps
  <2> QED
    BY <1>1, <2>1, <2>2, <2>3, <2>4, <2>5, <2>6, OneProcess DEF apiKeys
<1> QED
  BY <1>2, <1>3 DEF ListKeys

\* A new key has belonged to no name, and has not been revoked.
LEMMA CreateActionKeeps ==
    ASSUME KeysInv, NEW name \in Names, CreateAction(name)
    PROVE  KeysInv'
<1> USE AdministrationAssumption DEF WebSteps, CreateSteps, Procs
<1>0. DOMAIN pc = Procs /\ DOMAIN local = Procs /\ pc["admin"] = "idle"
  BY DEF KeysInv, KeysTypeOK, CreateAction
<1>1. PICK key \in Keys \ issued :
            /\ pc' = [pc EXCEPT !["admin"] = "list keys"]
            /\ local' = [local EXCEPT !["admin"] = [name |-> LowerName[name], key |-> key]]
            /\ issued' = issued \cup {key}
            /\ UNCHANGED <<keys, revoked, excused>>
  BY DEF CreateAction, Continue
<1>2. LowerName[name] \in Names
  BY ApiKeysAssumption
<1>3. KeysTypeOK'
  <2>1. ApiKeysTypeOK'
    BY <1>1 DEF KeysInv, KeysTypeOK, ApiKeysTypeOK
  <2>2. DOMAIN pc' = Procs /\ DOMAIN local' = Procs
    BY <1>0, <1>1
  <2>3. \A p \in Web : pc'[p] = pc[p] /\ local'[p] = local[p]
    BY <1>0, <1>1
  <2>4. pc'["admin"] = "list keys" /\ local'["admin"].name = LowerName[name]
            /\ local'["admin"].key = key
    BY <1>0, <1>1
  <2> QED
    BY <1>2, <2>1, <2>2, <2>3, <2>4 DEF KeysInv, KeysTypeOK
<1>4. ASSUME NEW n \in Names, NEW k \in Keys, Belongs(n, k)'
      PROVE  Belongs(n, k) \/ (n = LowerName[name] /\ k = key)
  <2>1. CASE (KeyExists(n) /\ keys[n].key = k)'
    BY <1>1, <2>1 DEF KeyExists, Belongs
  <2>2. ASSUME NEW q \in Procs, InHand(q, n, k)'
        PROVE  InHand(q, n, k) \/ (n = LowerName[name] /\ k = key)
    <3>1. CASE q = "admin"
      BY <1>0, <1>1, <2>2, <3>1 DEF InHand
    <3>2. CASE q # "admin"
      BY <1>0, <1>1, <2>2, <3>2 DEF InHand, Accepted
    <3> QED
      BY <3>1, <3>2
  <2> QED
    BY <1>4, <2>1, <2>2 DEF Belongs
<1>5. /\ revoked \subseteq issued /\ issued \subseteq Keys
      /\ \A n \in Names, k \in Keys : Belongs(n, k) => k \in issued
  BY DEF KeysInv, KeysTypeOK, ApiKeysTypeOK, KeysAreIssued
<1>6. \A k \in Keys : ~Deleting(k)'
  BY <1>0, <1>1 DEF Deleting
<1>7. KeysAreIssued'
  BY <1>1, <1>4, <1>5, <1>6 DEF KeysAreIssued
<1>8. OneName'
  BY <1>4, <1>5 DEF KeysInv, OneName
<1>9. RevokedAreGone'
  BY <1>1, <1>4, <1>5 DEF KeysInv, RevokedAreGone
<1>10. DeletesItsOwn'
  BY <1>6 DEF DeletesItsOwn
<1>11. LateIsRevoked'
  BY <1>0, <1>1 DEF KeysInv, LateIsRevoked
<1> QED
  BY <1>3, <1>7, <1>8, <1>9, <1>10, <1>11 DEF KeysInv

LEMMA DeleteActionKeeps ==
    ASSUME KeysInv, NEW name \in Names, DeleteAction(name)
    PROVE  KeysInv'
<1> USE AdministrationAssumption DEF WebSteps, CreateSteps, Procs
<1> DEFINE lower == LowerName[name]
<1>0. DOMAIN pc = Procs /\ DOMAIN local = Procs /\ pc["admin"] = "idle"
  BY DEF KeysInv, KeysTypeOK, DeleteAction
<1>1. /\ KeyExists(lower)
      /\ pc' = [pc EXCEPT !["admin"] = "delete key"]
      /\ local' = [local EXCEPT !["admin"] = [name |-> lower, key |-> keys[lower].key]]
      /\ UNCHANGED <<keys, issued, revoked, excused>>
  BY DEF DeleteAction, Continue, UnchangedKeys, apiKeys
<1>2. lower \in Names
  BY ApiKeysAssumption
<1> HIDE DEF lower
<1>3. KeysTypeOK'
  <2>1. ApiKeysTypeOK'
    BY <1>1 DEF KeysInv, KeysTypeOK, ApiKeysTypeOK
  <2>2. DOMAIN pc' = Procs /\ DOMAIN local' = Procs
    BY <1>0, <1>1
  <2>3. \A p \in Web : pc'[p] = pc[p] /\ local'[p] = local[p]
    BY <1>0, <1>1
  <2>4. pc'["admin"] = "delete key" /\ local'["admin"].name = lower
    BY <1>0, <1>1
  <2> QED
    BY <1>2, <2>1, <2>2, <2>3, <2>4 DEF KeysInv, KeysTypeOK
<1>4. ASSUME NEW n \in Names, NEW k \in Keys, Belongs(n, k)'
      PROVE  Belongs(n, k)
  <2>1. CASE (KeyExists(n) /\ keys[n].key = k)'
    BY <1>1, <2>1 DEF KeyExists, Belongs
  <2>2. ASSUME NEW q \in Procs, InHand(q, n, k)'
        PROVE  InHand(q, n, k)
    BY <1>0, <1>1, <2>2 DEF InHand, Accepted
  <2> QED
    BY <1>4, <2>1, <2>2 DEF Belongs
<1>5. ASSUME NEW k \in Keys, Deleting(k)'
      PROVE  Belongs(lower, k) /\ local'["admin"].name = lower
  <2>1. local'["admin"].name = lower /\ local'["admin"].key = keys[lower].key
    BY <1>0, <1>1
  <2>2. local'["admin"].key = k
    BY <1>5 DEF Deleting
  <2> QED
    BY <1>1, <2>1, <2>2 DEF Belongs
<1>6. KeysAreIssued'
  BY <1>1, <1>2, <1>4, <1>5 DEF KeysInv, KeysAreIssued
<1>7. OneName' /\ RevokedAreGone'
  <2>1. revoked \subseteq Keys
    BY DEF KeysInv, KeysTypeOK, ApiKeysTypeOK
  <2> QED
    BY <1>1, <1>4, <2>1 DEF KeysInv, OneName, RevokedAreGone
<1>8. DeletesItsOwn'
  BY <1>2, <1>4, <1>5 DEF KeysInv, OneName, DeletesItsOwn
<1>9. LateIsRevoked'
  BY <1>0, <1>1 DEF KeysInv, LateIsRevoked
<1> QED
  BY <1>3, <1>6, <1>7, <1>8, <1>9 DEF KeysInv

\* After the row has gone, only a request that had read the key before can
\* bring it back.
LEMMA DeleteApiKeyKeeps ==
    ASSUME KeysInv, DeleteApiKey
    PROVE  KeysInv'
<1> USE AdministrationAssumption DEF WebSteps, CreateSteps, Procs
<1> DEFINE name == local["admin"].name
           mine == local["admin"].key
<1>0. /\ DOMAIN pc = Procs /\ DOMAIN local = Procs /\ pc["admin"] = "delete key"
      /\ name \in Names
  BY DEF KeysInv, KeysTypeOK, DeleteApiKey
<1>1. /\ keys' = [keys EXCEPT ![name] = Nil]
      /\ revoked' = revoked \cup ({mine} \cap Keys)
      /\ excused' = excused \cup {local[p].key : p \in Saving(name)}
      /\ issued' = issued
      /\ pc' = [pc EXCEPT !["admin"] = "idle"]
      /\ local' = [local EXCEPT !["admin"] = Nil]
  BY DEF DeleteApiKey, DeleteKey, Answer
<1>2. mine \in Keys => Deleting(mine)
  BY <1>0 DEF Deleting
<1> HIDE DEF name, mine
<1>3. \A p \in Web : pc'[p] = pc[p] /\ local'[p] = local[p]
  BY <1>0, <1>1
<1>4. pc'["admin"] = "idle" /\ DOMAIN pc' = Procs /\ DOMAIN local' = Procs
  BY <1>0, <1>1
<1>5. keys'[name] = Nil /\ \A n \in Names : n # name => keys'[n] = keys[n]
  BY <1>0, <1>1 DEF KeysInv, KeysTypeOK, ApiKeysTypeOK
<1>6. KeysTypeOK'
  <2>1. excused' \subseteq Keys
    <3>1. \A p \in Saving(name) : local[p].key \in Keys
      BY DEF Saving, KeysInv, KeysTypeOK
    <3> QED
      BY <1>1, <3>1 DEF KeysInv, KeysTypeOK, ApiKeysTypeOK
  <2>2. ApiKeysTypeOK'
    BY <1>0, <1>1, <2>1 DEF KeysInv, KeysTypeOK, ApiKeysTypeOK
  <2> QED
    BY <1>3, <1>4, <2>2 DEF KeysInv, KeysTypeOK
<1>7. ASSUME NEW n \in Names, NEW k \in Keys, Belongs(n, k)'
      PROVE  Belongs(n, k) /\ (n = name => k \in excused')
  <2>1. CASE (KeyExists(n) /\ keys[n].key = k)'
    BY <1>5, <2>1 DEF KeyExists, Belongs
  <2>2. ASSUME NEW q \in Procs, InHand(q, n, k)'
        PROVE  InHand(q, n, k) /\ (n = name => k \in excused')
    <3>1. q \in Web
      BY <1>4, <2>2 DEF InHand
    <3>2. pc[q] \in Accepted /\ local[q].name = n /\ local[q].key = k
      BY <1>3, <2>2, <3>1 DEF InHand
    <3>3. n = name => q \in Saving(name)
      BY <3>1, <3>2 DEF Saving, Accepted
    <3> QED
      BY <1>1, <3>1, <3>2, <3>3 DEF InHand
  <2> QED
    BY <1>7, <2>1, <2>2 DEF Belongs
<1>8. \A k \in Keys : ~Deleting(k)'
  BY <1>4 DEF Deleting
<1>9. KeysAreIssued'
  BY <1>1, <1>2, <1>7, <1>8 DEF KeysInv, KeysAreIssued
<1>10. OneName' /\ DeletesItsOwn'
  BY <1>7, <1>8 DEF KeysInv, OneName, DeletesItsOwn
<1>11. RevokedAreGone'
  <2> SUFFICES ASSUME NEW n \in Names, NEW k \in (revoked \ excused)', Belongs(n, k)'
               PROVE  FALSE
    BY DEF RevokedAreGone
  <2>1. k \in Keys /\ k \notin excused
    BY <1>1 DEF KeysInv, KeysTypeOK, ApiKeysTypeOK
  <2>2. Belongs(n, k) /\ n # name
    BY <1>7, <2>1
  <2>3. CASE k \in revoked
    BY <2>1, <2>2, <2>3 DEF KeysInv, RevokedAreGone
  <2>4. CASE k \notin revoked
    <3>1. k = mine
      BY <1>1, <2>4
    <3> QED
      BY <1>2, <2>1, <2>2, <3>1 DEF KeysInv, DeletesItsOwn, name
  <2> QED
    BY <2>3, <2>4
<1>12. LateIsRevoked'
  <2> SUFFICES ASSUME NEW p \in Web, pc'[p] \in WebSteps, local'[p].late
               PROVE  local'[p].key \in revoked'
    BY DEF LateIsRevoked
  <2>1. pc[p] \in WebSteps /\ local[p].late
    BY <1>3
  <2>2. local[p].key \in revoked
    BY <2>1 DEF KeysInv, LateIsRevoked
  <2>3. local[p].key \in revoked'
    BY <1>1, <2>2
  <2> QED
    BY Zenon, <1>3, <2>3
<1> QED
  BY <1>6, <1>9, <1>10, <1>11, <1>12 DEF KeysInv

LEMMA KeysStutter == KeysInv /\ UNCHANGED <<apiKeys, pc, local>> => KeysInv'
<1> SUFFICES ASSUME KeysInv, UNCHANGED <<apiKeys, pc, local>> PROVE KeysInv'
  OBVIOUS
<1>1. \A name \in Names, key \in Keys : Belongs(name, key)' => Belongs(name, key)
  BY DEF apiKeys, Belongs, InHand, KeyExists
<1>2. KeysTypeOK'
  BY DEF apiKeys, KeysInv, KeysTypeOK, ApiKeysTypeOK
<1>3. \A key \in Keys : Deleting(key)' =>
            Deleting(key) /\ local'["admin"].name = local["admin"].name
  BY DEF Deleting
<1>4. LateIsRevoked'
  BY Zenon DEF apiKeys, KeysInv, LateIsRevoked
<1> QED
  BY <1>1, <1>2, <1>3, <1>4, NothingNew DEF apiKeys

LEMMA KeysNext == KeysInv /\ Next => KeysInv'
<1> SUFFICES ASSUME KeysInv, Next PROVE KeysInv'
  OBVIOUS
<1> "admin" \in Procs /\ Web \subseteq Procs
  BY DEF Procs
<1>1. ASSUME NEW p \in Web, NEW request \in Requests, NEW name \in Names,
             NEW key \in Keys, BeginRequest(p, request, name, key)
      PROVE  KeysInv'
  BY <1>1, BeginRequestKeeps
<1>2. ASSUME NEW p \in Web, Step(p)
      PROVE  KeysInv'
  BY <1>2, GetApiKeyKeeps, SaveApiKeyGetKeeps, SaveApiKeyKeeps, JenkinsStepLeaves
     DEF Step, JenkinsStep
<1>3. ASSUME NEW name \in Names, CreateAction(name) \/ DeleteAction(name)
      PROVE  KeysInv'
  BY <1>3, CreateActionKeeps, DeleteActionKeeps
<1>4. CASE AdminStep
  BY <1>4, ListKeysKeeps, DeleteApiKeyKeeps, SaveApiKeyGetKeeps, SaveApiKeyKeeps
     DEF AdminStep
<1>5. ASSUME NEW p \in Procs, Crash(p)
      PROVE  KeysInv'
  BY <1>5, AnswerLeaves DEF Crash, UnchangedKeys
<1>6. ASSUME NEW path \in Paths, DeleteOnJenkins(path)
      PROVE  KeysInv'
  BY <1>6, KeysStutter DEF DeleteOnJenkins
<1> QED
  BY <1>1, <1>2, <1>3, <1>4, <1>5, <1>6 DEF Next

\* A key belongs to one name at most; and a key that has been deleted to none,
\* unless a request was about to save it at that time.
THEOREM KeysInvariant == Spec => []KeysInv
<1>1. KeysInv /\ [Next]_vars => KeysInv'
  BY KeysNext, KeysStutter DEF vars
<1> QED
  BY <1>1, KeysInitially, PTL DEF Spec

\* A request that begins after "gbp apikey delete" has deleted its key is
\* refused, unless another request was using the key just then: for any number
\* of requests, names and keys, and any crashes.
THEOREM RevokedStayOut == Spec => []RevokedKeysStayOut
<1>1. KeysInv => RevokedKeysStayOut
  <2> SUFFICES ASSUME KeysInv, NEW p \in Web, pc[p] \in Accepted, local[p].late
               PROVE  local[p].key \in excused
    BY DEF RevokedKeysStayOut
  <2>1. p \in Procs /\ p # "admin" /\ pc[p] \in WebSteps
    BY AdministrationAssumption DEF Procs, Accepted, WebSteps
  <2>2. /\ local[p].name \in Names /\ Belongs(local[p].name, local[p].key)
        /\ local[p].key \in revoked
    BY <2>1, InHandFacts
  <2> QED
    BY <2>2 DEF KeysInv, RevokedAreGone
<1> QED
  BY <1>1, KeysInvariant, PTL

\* A request is only let in with a key that "gbp apikey create" has issued.
THEOREM OnlyIssuedGetIn == Spec => []OnlyIssuedKeys
<1>1. KeysInv => OnlyIssuedKeys
  <2> SUFFICES ASSUME KeysInv, NEW p \in Web, pc[p] \in Accepted
               PROVE  local[p].key \in issued
    BY DEF OnlyIssuedKeys
  <2>1. p \in Procs /\ p # "admin" /\ pc[p] \in WebSteps
    BY AdministrationAssumption DEF Procs, Accepted, WebSteps
  <2>2. /\ local[p].name \in Names /\ local[p].key \in Keys
        /\ Belongs(local[p].name, local[p].key)
    BY <2>1, InHandFacts
  <2> QED
    BY <2>2 DEF KeysInv, KeysAreIssued
<1> QED
  BY <1>1, KeysInvariant, PTL

\* A process is about to fill in the row of a name.
Filling(p, name) == pc[p] = "save key" /\ local[p].name = name

\* Without crashes, a row without its key is about to get it.
RowsAreFilled ==
    /\ crashes \in Nat
    /\ crashes = 0 =>
        \A name \in Names : KeyExists(name) /\ ~Readable(name) =>
            \E p \in Procs : Filling(p, name)

\* The steps that leave the rows alone, and are no SaveApiKey.
LEMMA RowsStay ==
    ASSUME KeysInv, RowsAreFilled, NEW p \in Procs, NEW next, NEW value,
           pc' = [pc EXCEPT ![p] = next], local' = [local EXCEPT ![p] = value],
           keys' = keys, crashes' = crashes, pc[p] # "save key"
    PROVE  RowsAreFilled'
<1>1. \A name \in Names, q \in Procs : Filling(q, name) => Filling(q, name)'
  BY DEF Filling, KeysInv, KeysTypeOK
<1>2. \A name \in Names : (KeyExists(name) /\ ~Readable(name))' =>
                                KeyExists(name) /\ ~Readable(name)
  BY DEF KeyExists, Readable
<1> QED
  BY <1>1, <1>2 DEF RowsAreFilled

LEMMA RowsNext == KeysInv /\ RowsAreFilled /\ [Next]_vars => RowsAreFilled'
<1> SUFFICES ASSUME KeysInv, RowsAreFilled, [Next]_vars PROVE RowsAreFilled'
  OBVIOUS
<1> USE AdministrationAssumption
<1>0. DOMAIN pc = Procs /\ DOMAIN local = Procs /\ keys \in [Names -> Row \cup {Nil}]
      /\ "admin" \in Procs /\ "admin" \notin Web /\ Web \subseteq Procs
  BY DEF KeysInv, KeysTypeOK, ApiKeysTypeOK, Procs
<1>1. ASSUME NEW p \in Web, NEW request \in Requests, NEW name \in Names,
             NEW key \in Keys, BeginRequest(p, request, name, key)
      PROVE  RowsAreFilled'
  BY <1>0, <1>1, RowsStay DEF BeginRequest, UnchangedKeys, apiKeys
<1>2. ASSUME NEW p \in Web, JenkinsStep(p) \/ GetApiKey(p)
      PROVE  RowsAreFilled'
  <2>1. p \in Procs /\ pc[p] # "save key" /\ UNCHANGED <<keys, crashes>>
    BY <1>0, <1>2 DEF JenkinsStep, HeadFolder, CheckFolder, PostFolder, InstallPlugin,
           HeadItem, PostItem, GetParameters, Schedule, HttpFails, HttpSteps, GetApiKey,
           UnchangedKeys, apiKeys
  <2>2. \E next, value : /\ pc' = [pc EXCEPT ![p] = next]
                         /\ local' = [local EXCEPT ![p] = value]
    BY <1>2 DEF JenkinsStep, HeadFolder, CheckFolder, PostFolder, InstallPlugin,
           HeadItem, PostItem, GetParameters, Schedule, HttpFails, GetApiKey,
           NextFolder, Goto, Continue, Answer
  <2> QED
    BY <2>1, <2>2, RowsStay
<1>3. ASSUME NEW p \in Procs, SaveApiKeyGet(p)
      PROVE  RowsAreFilled'
  <2>1. /\ pc[p] = "get_or_create" /\ GetOrCreate(local[p].name) /\ crashes' = crashes
        /\ pc' = [pc EXCEPT ![p] = "save key"]
        /\ local' = [local EXCEPT ![p] = local[p]]
    BY <1>3 DEF SaveApiKeyGet, Goto, Continue
  <2>2. Filling(p, local[p].name)'
    BY <1>0, <2>1 DEF Filling
  <2>3. \A name \in Names, q \in Procs : Filling(q, name) => Filling(q, name)'
    BY <1>0, <2>1 DEF Filling
  <2>4. \A name \in Names : name # local[p].name => keys'[name] = keys[name]
    BY <1>0, <2>1 DEF GetOrCreate
  <2>5. local'[p].name = local[p].name
    BY <1>0, <2>1
  <2>6. ASSUME NEW name \in Names, crashes' = 0, (KeyExists(name) /\ ~Readable(name))'
        PROVE  \E q \in Procs : Filling(q, name)'
    <3>1. CASE name = local[p].name
      BY <1>0, <2>1, <2>5, <3>1 DEF Filling
    <3>2. CASE name # local[p].name
      BY <2>1, <2>3, <2>4, <2>6, <3>2 DEF RowsAreFilled, KeyExists, Readable
    <3> QED
      BY <3>1, <3>2
  <2>7. crashes' \in Nat
    BY <2>1 DEF RowsAreFilled
  <2> QED
    BY <2>6, <2>7 DEF RowsAreFilled
<1>4. ASSUME NEW p \in Procs, SaveApiKey(p)
      PROVE  RowsAreFilled'
  <2> DEFINE mine == local[p].name
             next == pc'[p]
             value == local'[p]
  <2>1. /\ pc[p] = "save key" /\ crashes' = crashes
        /\ keys' = [keys EXCEPT ![mine] = [key |-> local[p].key, used |-> p \in Web]]
    BY <1>4 DEF SaveApiKey, SaveKey
  <2>2. /\ pc' = [pc EXCEPT ![p] = next]
        /\ local' = [local EXCEPT ![p] = value]
    BY <1>0, <1>4 DEF SaveApiKey, Resolve, Continue, Answer
  <2>3. mine \in Names /\ local[p].key # Blank
    BY <2>1, InHandFacts, ApiKeysAssumption DEF WebSteps
  <2> HIDE DEF mine, next, value
  <2>4. /\ keys'[mine].key # Blank
        /\ \A name \in Names : name # mine => keys'[name] = keys[name]
    BY <1>0, <2>1, <2>3
  <2>5. \A name \in Names, q \in Procs :
            name # mine /\ Filling(q, name) => Filling(q, name)'
    BY <1>0, <2>1, <2>2 DEF Filling, mine
  <2>6. ASSUME NEW name \in Names, crashes' = 0, (KeyExists(name) /\ ~Readable(name))'
        PROVE  \E q \in Procs : Filling(q, name)'
    <3>1. name # mine
      BY <2>4, <2>6 DEF Readable
    <3> QED
      BY <2>1, <2>4, <2>5, <2>6, <3>1 DEF RowsAreFilled, KeyExists, Readable
  <2>7. crashes' \in Nat
    BY <2>1 DEF RowsAreFilled
  <2> QED
    BY <2>6, <2>7 DEF RowsAreFilled
<1>5. ASSUME NEW name \in Names, CreateAction(name) \/ DeleteAction(name)
      PROVE  RowsAreFilled'
  BY <1>0, <1>5, RowsStay DEF CreateAction, DeleteAction, Continue, UnchangedKeys, apiKeys
<1>6. CASE ListKeys
  BY <1>0, <1>6, RowsStay DEF ListKeys, Answer, Goto, Continue, UnchangedKeys, apiKeys
<1>7. CASE DeleteApiKey
  <2> DEFINE gone == local["admin"].name
  <2>1. /\ pc["admin"] = "delete key" /\ crashes' = crashes
        /\ keys' = [keys EXCEPT ![gone] = Nil]
        /\ pc' = [pc EXCEPT !["admin"] = "idle"]
        /\ local' = [local EXCEPT !["admin"] = Nil]
    BY <1>7 DEF DeleteApiKey, DeleteKey, Answer
  <2> HIDE DEF gone
  <2>2. \A name \in Names : keys'[name] = Nil \/ keys'[name] = keys[name]
    BY <1>0, <2>1
  <2>3. \A name \in Names, q \in Procs : Filling(q, name) => Filling(q, name)'
    BY <1>0, <2>1 DEF Filling
  <2> QED
    BY <2>1, <2>2, <2>3 DEF RowsAreFilled, KeyExists, Readable
<1>8. ASSUME NEW p \in Procs, Crash(p)
      PROVE  RowsAreFilled'
  <2>1. crashes \in Nat /\ crashes' = crashes + 1
    BY <1>8 DEF Crash, RowsAreFilled
  <2>2. crashes' \in Nat /\ crashes' # 0
    BY <2>1
  <2> QED
    BY <2>2 DEF RowsAreFilled
<1>9. ASSUME UNCHANGED <<apiKeys, pc, local, crashes>>
      PROVE  RowsAreFilled'
  BY <1>9 DEF RowsAreFilled, KeyExists, Readable, Filling, apiKeys
<1> QED
  BY <1>0, <1>1, <1>2, <1>3, <1>4, <1>5, <1>6, <1>7, <1>8, <1>9
     DEF Next, Step, JenkinsStep, AdminStep, DeleteOnJenkins, vars

\* Between two requests or commands every key can be read, so that "gbp apikey
\* create" works, as long as nothing has crashed.
THEOREM KeysCanBeListed == Spec => []KeysAreListed
<1>1. Init => RowsAreFilled
  BY DEF Init, ApiKeysInit, RowsAreFilled, KeyExists
<1>2. RowsAreFilled => KeysAreListed
  BY DEF RowsAreFilled, KeysAreListed, ListWorks, Filling
<1> QED
  BY <1>1, <1>2, KeysInvariant, RowsNext, PTL DEF Spec

(***************************************************************************)
(* Folders                                                                 *)
(***************************************************************************)
FolderSteps == {"head folder", "is_folder", "post folder"}
ItemSteps == {"install plugin", "head item", "post item"}
OtherSteps == {"idle", "get key", "get_or_create", "save key"}

\* The folders on the way to an item, before the given number.
Before(j, n) ==
    \A i \in 1..Len(FolderOf(j.op)) : i < n => IsFolder(FoldersTo(FolderOf(j.op))[i])

\* The folders on the way to an item.
Way(j) == \A i \in 1..Len(FolderOf(j.op)) : IsFolder(FoldersTo(FolderOf(j.op))[i])

\* What a request with the local variables j, before a step, knows of Jenkins
\* when nobody else changes anything there: the folders that it has passed,
\* and what its latest HEAD request has said.
RequestOK(step, j) ==
    /\ step \in FolderSteps =>
            /\ {"op", "folder"} \subseteq DOMAIN j
            /\ j.folder \in 1..Len(FolderOf(j.op)) /\ Before(j, j.folder)
    /\ step = "is_folder" => ProjectExists(FolderPath(j))
    /\ step = "post folder" => ~ProjectExists(FolderPath(j))
    /\ step = "post item" => ~ProjectExists(PathOf(j))
    /\ step \in ItemSteps => Way(j)
    /\ step \in {"get parameters", "schedule"} => j.op = "scheduleBuild"

FoldersInv ==
    /\ DOMAIN pc = Procs /\ DOMAIN local = Procs
    /\ \A p \in Web \ disturbed : RequestOK(pc[p], local[p])

LEMMA FolderFacts ==
    ASSUME NEW op
    PROVE  /\ \E S : FolderOf(op) \in Seq(S)
           /\ Len(FolderOf(op)) \in Nat
           /\ FolderOf(op) # Root => 1 <= Len(FolderOf(op))
           /\ FolderOf(op) = Root => Len(FolderOf(op)) = 0
<1> DEFINE Name == STRING \cup {"repos"}
<1>1. ProjectRoot \in Seq(Name) /\ "repos" \in Name
  BY JenkinsAssumption
<1> HIDE DEF Name
<1>2. ReposFolder \in Seq(Name)
  BY <1>1, AppendProperties DEF ReposFolder
<1>3. FolderOf(op) \in Seq(Name)
  BY <1>1, <1>2 DEF FolderOf
<1>4. Len(FolderOf(op)) \in Nat
  BY <1>3
<1>5. FolderOf(op) # Root => 1 <= Len(FolderOf(op))
  BY <1>3, EmptySeq DEF Root
<1>6. FolderOf(op) = Root => Len(FolderOf(op)) = 0
  BY EmptySeq DEF Root
<1> QED
  BY <1>3, <1>4, <1>5, <1>6

LEMMA OtherStepsOK ==
    ASSUME NEW step \in OtherSteps, NEW j
    PROVE  RequestOK(step, j) /\ RequestOK(step, j)'
BY DEF RequestOK, OtherSteps, FolderSteps, ItemSteps

LEMMA SameItems ==
    ASSUME items' = items, NEW step, NEW j, RequestOK(step, j)
    PROVE  RequestOK(step, j)'
<1>1. \A path : (ProjectExists(path)' <=> ProjectExists(path))
                /\ (IsFolder(path)' <=> IsFolder(path))
  BY DEF ProjectExists, IsFolder
<1>2. (Before(j, j.folder) => Before(j, j.folder)') /\ (Way(j) => Way(j)')
  BY <1>1 DEF Before, Way
<1> QED
  BY <1>1, <1>2 DEF RequestOK

\* A step of one process preserves what the others know.
LEMMA OthersOK ==
    ASSUME FoldersInv, NEW p \in Procs, NEW next, NEW value,
           pc' = [pc EXCEPT ![p] = next], local' = [local EXCEPT ![p] = value],
           UnchangedJenkins \/ Disturb(p),
           p \in Web /\ p \notin disturbed' => RequestOK(next, value)'
    PROVE  FoldersInv'
<1>1. DOMAIN pc = Procs /\ DOMAIN local = Procs
  BY DEF FoldersInv
<1>2. ASSUME NEW q \in Web, q \notin disturbed', q # p
      PROVE  RequestOK(pc[q], local[q])' 
  <2>1. q \in Procs /\ pc'[q] = pc[q] /\ local'[q] = local[q]
    BY <1>1, <1>2 DEF Procs
  <2>2. CASE pc[q] = "idle"
    BY <2>1, <2>2, OtherStepsOK DEF OtherSteps
  <2>3. CASE pc[q] # "idle"
    <3>1. UnchangedJenkins /\ q \notin disturbed
      BY <1>2, <2>1, <2>3 DEF UnchangedJenkins, Disturb
    <3>2. RequestOK(pc[q], local[q]) /\ items' = items
      BY <3>1 DEF FoldersInv, UnchangedJenkins
    <3>3. \A step, j : RequestOK(step, j) => RequestOK(step, j)'
      BY <3>2, SameItems
    <3> QED
      BY <2>1, <3>2, <3>3
  <2> QED
    BY <2>2, <2>3
<1>3. p \in Web /\ p \notin disturbed' => RequestOK(pc[p], local[p])'
  BY <1>1
<1>4. DOMAIN pc' = Procs /\ DOMAIN local' = Procs
  BY <1>1
<1> QED
  BY <1>2, <1>3, <1>4 DEF FoldersInv

\* The administrator, and requests that do not ask Jenkins yet or any more.
LEMMA OtherStep ==
    ASSUME FoldersInv, NEW p \in Procs, NEW next, NEW value,
           pc' = [pc EXCEPT ![p] = next], local' = [local EXCEPT ![p] = value],
           UnchangedJenkins \/ Disturb(p),
           p \in Web => next \in OtherSteps
    PROVE  FoldersInv'
BY OtherStepsOK, OthersOK

\* A request to Jenkins begins.
LEMMA ResolveKeeps ==
    ASSUME FoldersInv, NEW p \in Web, NEW request,
           pc' = [pc EXCEPT ![p] = Resolver(request)],
           local' = [local EXCEPT ![p] = Resolving(request)],
           UnchangedJenkins
    PROVE  FoldersInv'
<1> DEFINE j == Resolving(request)
<1>1. p \in Procs /\ j.op = request.op /\ j.folder = 1 /\ {"op", "folder"} \subseteq DOMAIN j
  BY DEF Procs, Resolving
<1> HIDE DEF j
<1>2. CASE request.op = "scheduleBuild"
  <2>1. RequestOK("get parameters", j)'
    BY <1>1, <1>2 DEF RequestOK, FolderSteps, ItemSteps
  <2> QED
    BY <1>1, <1>2, <2>1, OthersOK DEF Resolver, j
<1>3. CASE request.op # "scheduleBuild" /\ FolderOf(request.op) = Root
  <2>1. Way(j)'
    BY <1>1, <1>3, FolderFacts DEF Way
  <2>2. RequestOK("install plugin", j)'
    BY <2>1 DEF RequestOK, FolderSteps, ItemSteps
  <2> QED
    BY <1>1, <1>3, <2>2, OthersOK DEF Resolver, j
<1>4. CASE request.op # "scheduleBuild" /\ FolderOf(request.op) # Root
  <2>1. Before(j, j.folder)'
    BY <1>1, FolderFacts DEF Before
  <2>2. j.folder \in 1..Len(FolderOf(j.op))
    BY <1>1, <1>4, FolderFacts
  <2>3. RequestOK("head folder", j)'
    BY <1>1, <2>1, <2>2 DEF RequestOK, FolderSteps, ItemSteps
  <2> QED
    BY <1>1, <1>4, <2>3, OthersOK DEF Resolver, j
<1> QED
  BY <1>2, <1>3, <1>4

LEMMA CreateItemFacts ==
    ASSUME NEW path, NEW item, ~ProjectExists(path), CreateItem(path, item)
    PROVE  /\ \A x : IsFolder(x) => IsFolder(x)'
           /\ item.kind = "folder" => IsFolder(path)'
BY DEF ProjectExists, CreateItem, IsFolder

LEMMA AtLast ==
    ASSUME NEW last \in Nat, NEW n \in 1..last, ~(n < last), NEW i \in 1..last
    PROVE  i < n + 1
OBVIOUS

\* One folder more is there.
LEMMA NextFolderKeeps ==
    ASSUME FoldersInv, NEW p \in Web, NextFolder(p), UnchangedJenkins \/ Disturb(p),
           NEW j, j = local[p],
           p \notin disturbed' =>
                /\ {"op", "folder"} \subseteq DOMAIN j
                /\ j.folder \in 1..Len(FolderOf(j.op))
                /\ Before(j, j.folder)' /\ IsFolder(FolderPath(j))'
    PROVE  FoldersInv'
<1> p \in Procs
  BY DEF Procs
<1> DEFINE n == j.folder
           last == Len(FolderOf(j.op))
           more == [j EXCEPT !.folder = @ + 1]
<1>1. ASSUME p \notin disturbed', NEW i \in 1..last, i < n + 1
      PROVE  IsFolder(FoldersTo(FolderOf(j.op))[i])'
  <2>1. i < n \/ i = n
    BY <1>1, FolderFacts
  <2> QED
    BY <1>1, <2>1 DEF Before, FolderPath
<1>2. CASE n < last
  <2>1. /\ pc' = [pc EXCEPT ![p] = "head folder"]
        /\ local' = [local EXCEPT ![p] = more]
    BY <1>2 DEF NextFolder, Continue
  <2>2. ASSUME p \notin disturbed'
        PROVE  RequestOK("head folder", more)'
    <3>1. more.op = j.op /\ more.folder = n + 1 /\ {"op", "folder"} \subseteq DOMAIN more
      BY <2>2
    <3> HIDE DEF more
    <3>2. Before(more, more.folder)'
      BY <1>1, <2>2, <3>1 DEF Before
    <3>3. more.folder \in 1..Len(FolderOf(more.op))
      BY <1>2, <2>2, <3>1, FolderFacts
    <3> QED
      BY <3>1, <3>2, <3>3 DEF RequestOK, FolderSteps, ItemSteps
  <2> HIDE DEF more
  <2> QED
    BY <2>1, <2>2, OthersOK
<1>3. CASE ~(n < last)
  <2>1. PICK next \in {"install plugin", "head item"} :
            /\ pc' = [pc EXCEPT ![p] = next]
            /\ local' = [local EXCEPT ![p] = j]
    BY <1>3 DEF NextFolder, Goto, Continue
  <2>2. ASSUME p \notin disturbed'
        PROVE  RequestOK(next, j)'
    <3>1. ASSUME NEW i \in 1..last
          PROVE  i < n + 1
      <4>1. last \in Nat /\ n \in 1..last
        BY <2>2, FolderFacts
      <4> QED
        BY <1>3, <4>1, AtLast
    <3>2. Way(j)'
      BY <1>1, <2>2, <3>1 DEF Way
    <3> QED
      BY <3>2 DEF RequestOK, FolderSteps, ItemSteps
  <2> QED
    BY <2>1, <2>2, OthersOK
<1> QED
  BY <1>2, <1>3

\* The steps that make a folder.
LEMMA FolderStepKeeps ==
    ASSUME FoldersInv, NEW p \in Web, HeadFolder(p) \/ CheckFolder(p) \/ PostFolder(p)
    PROVE  FoldersInv'
<1> SUFFICES ASSUME NEW j, j = local[p]
             PROVE  FoldersInv'
  OBVIOUS
<1> DEFINE path == FolderPath(j)
<1>1. p \in Procs /\ j = local[p]
  BY DEF Procs
<1>2. p \notin disturbed => RequestOK(pc[p], j)
  BY DEF FoldersInv
<1>3. CASE HeadFolder(p)
  <2>1. PICK next \in {"is_folder", "post folder"} :
            /\ pc' = [pc EXCEPT ![p] = next]
            /\ local' = [local EXCEPT ![p] = j]
            /\ next = "is_folder" <=> ProjectExists(path)
    BY <1>1, <1>3 DEF HeadFolder, Goto, Continue
  <2>2. UnchangedJenkins /\ items' = items /\ pc[p] = "head folder"
    BY <1>3 DEF HeadFolder, UnchangedJenkins
  <2>3. ASSUME p \notin disturbed'
        PROVE  RequestOK(next, j)'
    <3>1. pc'[p] # "idle"
      BY <1>1, <2>1 DEF FoldersInv
    <3>2. p \notin disturbed
      BY <2>2, <2>3, <3>1 DEF UnchangedJenkins
    <3>3. RequestOK(next, j)
      BY <1>2, <2>1, <2>2, <3>2 DEF RequestOK, FolderSteps, ItemSteps
    <3> QED
      BY <2>2, <3>3, SameItems
  <2> QED
    BY <1>1, <2>1, <2>2, <2>3, OthersOK
<1>4. CASE CheckFolder(p)
  <2>1. UnchangedJenkins /\ items' = items /\ pc[p] = "is_folder"
    BY <1>4 DEF CheckFolder, UnchangedJenkins
  <2>2. CASE ~IsFolder(path)
    BY <1>1, <1>4, <2>1, <2>2, OtherStep DEF CheckFolder, Answer, OtherSteps
  <2>3. CASE IsFolder(path)
    <3>1. NextFolder(p)
      BY <1>1, <1>4, <2>3 DEF CheckFolder
    <3>2. ASSUME p \notin disturbed'
          PROVE  /\ {"op", "folder"} \subseteq DOMAIN j
                 /\ j.folder \in 1..Len(FolderOf(j.op))
                 /\ Before(j, j.folder)' /\ IsFolder(path)'
      <4>1. pc'[p] # "idle"
        BY <1>1, <3>1 DEF NextFolder, Goto, Continue, FoldersInv
      <4>2. p \notin disturbed
        BY <2>1, <3>2, <4>1 DEF UnchangedJenkins
      <4>3. /\ {"op", "folder"} \subseteq DOMAIN j
            /\ j.folder \in 1..Len(FolderOf(j.op)) /\ Before(j, j.folder)
        BY <1>2, <2>1, <4>2 DEF RequestOK, FolderSteps
      <4>4. \A x : IsFolder(x) => IsFolder(x)'
        BY <2>1 DEF IsFolder
      <4> QED
        BY <2>3, <4>3, <4>4 DEF Before
    <3> QED
      BY <1>1, <2>1, <3>1, <3>2, NextFolderKeeps
  <2> QED
    BY <2>2, <2>3
<1>5. CASE PostFolder(p)
  <2>1. pc[p] = "post folder"
    BY <1>5 DEF PostFolder
  <2>2. CASE CreateStatus(path) # "200"
    BY <1>1, <1>5, <2>2, OtherStep DEF PostFolder, Answer, OtherSteps
  <2>3. CASE CreateStatus(path) = "200"
    <3>1. NextFolder(p) /\ CreateItem(path, FolderItem) /\ Disturb(p)
      BY <1>1, <1>5, <2>3 DEF PostFolder
    <3>2. ~ProjectExists(path) /\ FolderItem.kind = "folder"
      BY <2>3 DEF CreateStatus, FolderItem
    <3>3. IsFolder(path)' /\ \A x : IsFolder(x) => IsFolder(x)'
      BY <3>1, <3>2, CreateItemFacts
    <3>4. ASSUME p \notin disturbed'
          PROVE  /\ {"op", "folder"} \subseteq DOMAIN j
                 /\ j.folder \in 1..Len(FolderOf(j.op))
                 /\ Before(j, j.folder)' /\ IsFolder(path)'
      <4>1. pc'[p] # "idle"
        BY <1>1, <3>1 DEF NextFolder, Goto, Continue, FoldersInv
      <4>2. p \notin disturbed
        BY <3>1, <3>4, <4>1 DEF Disturb
      <4>3. /\ {"op", "folder"} \subseteq DOMAIN j
            /\ j.folder \in 1..Len(FolderOf(j.op)) /\ Before(j, j.folder)
        BY <1>2, <2>1, <4>2 DEF RequestOK, FolderSteps
      <4> QED
        BY <3>3, <4>3 DEF Before
    <3> QED
      BY <1>1, <3>1, <3>4, NextFolderKeeps
  <2> QED
    BY <2>2, <2>3
<1> QED
  BY <1>3, <1>4, <1>5

\* The steps that make the item, or schedule a build.
LEMMA ItemStepKeeps ==
    ASSUME FoldersInv, NEW p \in Web,
           InstallPlugin(p) \/ HeadItem(p) \/ PostItem(p) \/ GetParameters(p) \/ Schedule(p)
                \/ HttpFails(p)
    PROVE  FoldersInv'
<1> SUFFICES ASSUME NEW j, j = local[p]
             PROVE  FoldersInv'
  OBVIOUS
<1>1. p \in Procs
  BY DEF Procs
<1>2. ASSUME NEW value, Answer(p, value), UnchangedJenkins \/ Disturb(p)
      PROVE  FoldersInv'
  BY <1>1, <1>2, OtherStep DEF Answer, OtherSteps
<1>3. ASSUME NEW next, Goto(p, next), next # "idle", UnchangedJenkins,
             RequestOK(pc[p], j) => RequestOK(next, j)
      PROVE  FoldersInv'
  <2>1. /\ pc' = [pc EXCEPT ![p] = next]
        /\ local' = [local EXCEPT ![p] = j]
    BY <1>3 DEF Goto, Continue
  <2>2. ASSUME p \notin disturbed'
        PROVE  RequestOK(next, j)'
    <3>1. p \notin disturbed
      BY <1>1, <1>3, <2>1, <2>2 DEF UnchangedJenkins, FoldersInv
    <3>2. RequestOK(next, j) /\ items' = items
      BY <1>3, <3>1 DEF FoldersInv, UnchangedJenkins
    <3> QED
      BY <3>2, SameItems
  <2> QED
    BY <1>1, <1>3, <2>1, <2>2, OthersOK
<1> USE DEF FolderSteps, ItemSteps
<1>4. CASE InstallPlugin(p)
  BY <1>3, <1>4 DEF InstallPlugin, RequestOK
<1>5. CASE HeadItem(p)
  BY <1>2, <1>3, <1>5 DEF HeadItem, RequestOK
<1>6. CASE PostItem(p)
  BY <1>2, <1>6 DEF PostItem
<1>7. CASE GetParameters(p)
  BY <1>2, <1>3, <1>7 DEF GetParameters, RequestOK
<1>8. CASE Schedule(p)
  BY <1>2, <1>8 DEF Schedule
<1>9. CASE HttpFails(p)
  BY <1>2, <1>9 DEF HttpFails
<1> QED
  BY <1>4, <1>5, <1>6, <1>7, <1>8, <1>9

\* The steps that have to do with keys.
LEMMA KeyStepKeeps ==
    ASSUME FoldersInv, NEW p \in Procs,
           (p \in Web /\ GetApiKey(p)) \/ SaveApiKeyGet(p) \/ SaveApiKey(p)
    PROVE  FoldersInv'
<1>1. ASSUME NEW next, Goto(p, next), next \in OtherSteps, UnchangedJenkins
      PROVE  FoldersInv'
  BY <1>1, OtherStep DEF Goto, Continue
<1>2. ASSUME NEW value, Answer(p, value), UnchangedJenkins
      PROVE  FoldersInv'
  BY <1>2, OtherStep DEF Answer, OtherSteps
<1> USE DEF OtherSteps
<1>3. CASE p \in Web /\ GetApiKey(p)
  BY <1>1, <1>2, <1>3 DEF GetApiKey
<1>4. CASE SaveApiKeyGet(p)
  BY <1>1, <1>4 DEF SaveApiKeyGet
<1>5. CASE SaveApiKey(p)
  <2>1. CASE p \in Web
    BY <1>5, <2>1, ResolveKeeps DEF SaveApiKey, Resolve, Continue
  <2>2. CASE p \notin Web
    BY <1>2, <1>5, <2>2 DEF SaveApiKey
  <2> QED
    BY <2>1, <2>2
<1> QED
  BY <1>3, <1>4, <1>5

LEMMA FoldersNext == FoldersInv /\ [Next]_vars => FoldersInv'
<1> SUFFICES ASSUME FoldersInv, [Next]_vars PROVE FoldersInv'
  OBVIOUS
<1> "admin" \in Procs /\ "admin" \notin Web /\ Web \subseteq Procs
  BY AdministrationAssumption DEF Procs
<1>1. ASSUME NEW p \in Web, NEW request \in Requests, NEW name \in Names,
             NEW key \in Keys, BeginRequest(p, request, name, key)
      PROVE  FoldersInv'
  <2>1. CASE ApiKeyEnable
    BY <1>1, <2>1, OtherStep DEF BeginRequest, OtherSteps
  <2>2. CASE ~ApiKeyEnable
    BY <1>1, <2>2, ResolveKeeps DEF BeginRequest
  <2> QED
    BY <2>1, <2>2
<1>2. ASSUME NEW p \in Web, Step(p)
      PROVE  FoldersInv'
  BY <1>2, KeyStepKeeps, FolderStepKeeps, ItemStepKeeps DEF Step
<1>3. ASSUME NEW name \in Names, CreateAction(name) \/ DeleteAction(name)
      PROVE  FoldersInv'
  BY <1>3, OtherStep DEF CreateAction, DeleteAction, Continue
<1>4. CASE AdminStep
  <2>1. ASSUME ListKeys \/ DeleteApiKey
        PROVE  FoldersInv'
    BY <2>1, OtherStep DEF ListKeys, DeleteApiKey, Answer, Goto, Continue
  <2> QED
    BY <1>4, <2>1, KeyStepKeeps DEF AdminStep
<1>5. ASSUME NEW p \in Procs, Crash(p)
      PROVE  FoldersInv'
  BY <1>5, OtherStep DEF Crash, Answer, OtherSteps
<1>6. ASSUME NEW path \in Paths, DeleteOnJenkins(path)
      PROVE  FoldersInv'
  <2>1. \A q \in Web : q \notin disturbed' => pc'[q] = "idle"
    BY <1>6, AdministrationAssumption DEF DeleteOnJenkins, Disturb
  <2> QED
    BY <1>6, <2>1, OtherStepsOK DEF FoldersInv, DeleteOnJenkins, OtherSteps
<1>7. CASE UNCHANGED vars
  BY <1>7, SameItems DEF vars, FoldersInv
<1> QED
  BY <1>1, <1>2, <1>3, <1>4, <1>5, <1>6, <1>7 DEF Next

LEMMA FoldersInitially == Init => FoldersInv
BY OtherStepsOK DEF Init, FoldersInv, OtherSteps, Procs

\* When a request gets to the item that it creates, and nobody else has changed
\* anything on Jenkins meanwhile, each folder on the way to it is there, and is
\* a folder, however long the project path is.
THEOREM FoldersAreThere == Spec => []FoldersAreMade
<1>1. FoldersInv => FoldersAreMade
  <2> SUFFICES ASSUME FoldersInv, NEW p \in Web \ disturbed, pc[p] \in ItemSteps,
                      NEW path \in Prefixes(FolderOf(local[p].op))
               PROVE  IsFolder(path)
    BY DEF FoldersAreMade, ItemSteps
  <2>1. Way(local[p])
    BY DEF FoldersInv, RequestOK
  <2> QED
    BY <2>1 DEF Way, FoldersTo, Prefixes
<1> QED
  BY <1>1, FoldersInitially, FoldersNext, PTL DEF Spec

\* The parent of a folder on the way is the folder before it, or the root.
LEMMA ParentOnTheWay ==
    ASSUME NEW op, NEW n \in 1..Len(FolderOf(op))
    PROVE  \/ Parent(FoldersTo(FolderOf(op))[n]) = Root
           \/ /\ n - 1 \in 1..Len(FolderOf(op))
              /\ Parent(FoldersTo(FolderOf(op))[n]) = FoldersTo(FolderOf(op))[n - 1]
<1> DEFINE path == FolderOf(op)
<1>1. PICK S : path \in Seq(S)
  BY FolderFacts
<1>2. Len(path) \in Nat /\ n \in 1..Len(path)
  BY FolderFacts
<1> HIDE DEF path
<1>3. /\ SubSeq(path, 1, n) \in Seq(S) /\ Len(SubSeq(path, 1, n)) = n
  <2>1. n \in Int /\ 1 \in Int /\ 1 <= n /\ n - 1 + 1 = n
    BY <1>2
  <2>2. \A i \in 1..n : path[i] \in S
    BY <1>1, <1>2
  <2> QED
    BY <2>1, <2>2, SubSeqProperties
<1>4. Parent(FoldersTo(path)[n]) = SubSeq(SubSeq(path, 1, n), 1, n - 1)
  BY <1>3 DEF Parent, FoldersTo, path
<1>5. CASE n = 1
  BY <1>2, <1>4, <1>5, SubSeqEmpty DEF Root, path
<1>6. CASE n # 1
  <2>1. /\ 1 \in 1..Len(path) /\ n \in 1..Len(path)
        /\ 1 \in 1..(n - 1 + 1) /\ n - 1 \in 1..(n - 1 + 1)
        /\ 1 + 1 - 1 = 1 /\ 1 + (n - 1) - 1 = n - 1
    BY <1>2, <1>6
  <2>2. SubSeq(SubSeq(path, 1, n), 1, n - 1) = SubSeq(path, 1 + 1 - 1, 1 + (n - 1) - 1)
    BY <1>1, <2>1, SubSeqOfSubSeq
  <2>3. n - 1 \in 1..Len(path)
    BY <1>2, <1>6
  <2>4. FoldersTo(path)[n - 1] = SubSeq(path, 1, n - 1)
    BY <2>3 DEF FoldersTo
  <2>5. Parent(FoldersTo(path)[n]) = FoldersTo(path)[n - 1]
    BY ONLY <1>4, <2>1, <2>2, <2>4
  <2> QED
    BY <2>3, <2>5 DEF path
<1> QED
  BY <1>5, <1>6

LEMMA MinusOne == \A last \in Nat : \A n \in 1..last : n - 1 < n
OBVIOUS

\* What a step reports as an exception, if the request was not disturbed.
LEMMA ExceptionMeans ==
    ASSUME FoldersInv, NEW p \in Web \ disturbed, Step(p), pc[p] \in HttpSteps,
           local[p].op # "scheduleBuild", pc'[p] = "idle", answer' = "exception"
    PROVE  \E path \in Prefixes(FolderOf(local[p].op)) :
                ProjectExists(path) /\ ~IsFolder(path)
<1> DEFINE j == local[p]
           path == FolderPath(j)
<1>1. RequestOK(pc[p], j) /\ p \in Procs /\ DOMAIN pc = Procs
  BY DEF FoldersInv, Procs
<1> HIDE DEF j
<1> USE DEF HttpSteps, FolderSteps, ItemSteps
<1>2. CASE CheckFolder(p)
  <2>1. pc[p] = "is_folder" /\ ~IsFolder(path)
    BY <1>1, <1>2 DEF CheckFolder, NextFolder, Goto, Continue, j
  <2>2. ProjectExists(path) /\ j.folder \in 1..Len(FolderOf(j.op))
    BY <1>1, <2>1 DEF RequestOK
  <2>3. path \in Prefixes(FolderOf(j.op))
    BY <2>2 DEF FolderPath, FoldersTo, Prefixes
  <2> QED
    BY <2>1, <2>2, <2>3 DEF j
<1>3. ~PostFolder(p)
  <2> SUFFICES ASSUME PostFolder(p) PROVE FALSE
    OBVIOUS
  <2>1. pc[p] = "post folder" /\ CreateStatus(path) # "200"
    BY <1>1 DEF PostFolder, NextFolder, Goto, Continue, j
  <2>2. /\ ~ProjectExists(path) /\ j.folder \in 1..Len(FolderOf(j.op))
        /\ Before(j, j.folder)
    BY <1>1, <2>1 DEF RequestOK
  <2>3. ~IsFolder(Parent(path))
    BY <2>1, <2>2 DEF CreateStatus
  <2>4. Parent(path) # Root
    BY <2>3 DEF IsFolder
  <2>5. /\ j.folder - 1 \in 1..Len(FolderOf(j.op)) /\ j.folder - 1 < j.folder
        /\ Parent(path) = FoldersTo(FolderOf(j.op))[j.folder - 1]
    <3>1. path = FoldersTo(FolderOf(j.op))[j.folder]
      BY DEF FolderPath
    <3>2. \/ Parent(path) = Root
          \/ /\ j.folder - 1 \in 1..Len(FolderOf(j.op))
             /\ Parent(path) = FoldersTo(FolderOf(j.op))[j.folder - 1]
      BY <2>2, <3>1, ParentOnTheWay
    <3>3. j.folder - 1 < j.folder
      BY <2>2, FolderFacts, MinusOne
    <3> QED
      BY <2>4, <3>2, <3>3
  <2> QED
    BY <2>2, <2>3, <2>5 DEF Before
<1>4. ~PostItem(p)
  <2> SUFFICES ASSUME PostItem(p) PROVE FALSE
    OBVIOUS
  <2>1. pc[p] = "post item" /\ CreateStatus(PathOf(j)) = "400"
    BY <1>1 DEF PostItem, Answer, CreateStatus, j
  <2>2. ~ProjectExists(PathOf(j))
    BY <1>1, <2>1 DEF RequestOK
  <2> QED
    BY <2>1, <2>2 DEF CreateStatus
<1>5. ~HeadFolder(p) /\ ~InstallPlugin(p) /\ ~HeadItem(p) /\ ~HttpFails(p)
  BY <1>1 DEF HeadFolder, InstallPlugin, HeadItem, HttpFails, Goto, Continue, Answer
<1>6. ~GetParameters(p) /\ ~Schedule(p)
  BY <1>1 DEF GetParameters, Schedule, RequestOK, j
<1>7. ~GetApiKey(p) /\ ~SaveApiKeyGet(p) /\ ~SaveApiKey(p)
  BY DEF GetApiKey, SaveApiKeyGet, SaveApiKey
<1> QED
  BY <1>2, <1>3, <1>4, <1>5, <1>6, <1>7 DEF Step

\* What a request to create something, that nobody has disturbed, reports as an
\* exception is only that something on the way is no folder: for project paths
\* of any length, whatever else is on Jenkins.
THEOREM FailuresReported == Spec => FailuresAreReported
<1>1. ASSUME FoldersInv, [Next]_vars, NEW p \in Web \ disturbed,
             pc[p] \in HttpSteps, local[p].op # "scheduleBuild",
             pc'[p] = "idle", answer' = "exception"
      PROVE  \E path \in Prefixes(FolderOf(local[p].op)) :
                    ProjectExists(path) /\ ~IsFolder(path)
  <2> p \in Procs /\ p # "admin" /\ pc[p] # "idle" /\ DOMAIN pc = Procs
    BY <1>1, AdministrationAssumption DEF Procs, FoldersInv, HttpSteps
  <2>1. CASE Step(p)
    BY <1>1, <2>1, ExceptionMeans
  <2>2. CASE ~Step(p)
    <3>1. ~(UNCHANGED vars)
      BY <1>1 DEF vars
    <3>2. ASSUME NEW q \in Procs, q # p, NEW next, pc' = [pc EXCEPT ![q] = next]
          PROVE  FALSE
      BY <1>1, <3>2
    <3>3. ASSUME NEW q \in Web, Step(q)
          PROVE  \E next : pc' = [pc EXCEPT ![q] = next]
      BY <3>3 DEF Step, GetApiKey, SaveApiKeyGet, SaveApiKey, HeadFolder, CheckFolder,
                  PostFolder, InstallPlugin, HeadItem, PostItem, GetParameters, Schedule,
                  HttpFails, NextFolder, Resolve, Goto, Continue, Answer
    <3>4. ~(\E q \in Web : Step(q))
      BY <2>2, <3>2, <3>3 DEF Procs
    <3>5. ~(\E q \in Web, request \in Requests, name \in Names, key \in Keys :
                BeginRequest(q, request, name, key))
      BY <1>1 DEF BeginRequest
    <3>6. ~AdminStep /\ ~(\E name \in Names : CreateAction(name) \/ DeleteAction(name))
      BY <3>2 DEF Procs, AdminStep, CreateAction, DeleteAction, ListKeys, DeleteApiKey,
                  SaveApiKeyGet, SaveApiKey, Goto, Continue, Answer, Resolve
    <3>7. ~(\E q \in Procs : Crash(q)) /\ ~(\E path \in Paths : DeleteOnJenkins(path))
      BY <1>1 DEF Crash, Answer, DeleteOnJenkins
    <3> QED
      BY <1>1, <3>1, <3>4, <3>5, <3>6, <3>7 DEF Next
  <2> QED
    BY <2>1, <2>2
<1>2. FoldersInv /\ [Next]_vars =>
        [\A p \in Web \ disturbed :
            /\ pc[p] \in HttpSteps /\ local[p].op # "scheduleBuild"
            /\ pc'[p] = "idle" /\ answer' = "exception"
            => \E path \in Prefixes(FolderOf(local[p].op)) :
                    ProjectExists(path) /\ ~IsFolder(path)]_vars
  BY <1>1
<1> QED
  BY <1>2, FoldersInitially, FoldersNext, PTL DEF Spec, FailuresAreReported
=============================================================================
