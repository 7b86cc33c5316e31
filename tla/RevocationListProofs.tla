------------------------ MODULE RevocationListProofs -------------------------
(***************************************************************************)
(* Why a credential's bit stays where its status says and what it was last *)
(* made: the invariant on the lists, on top of the counters' (CounterInv), *)
(* and that the store implements StatusRegistry.                           *)
(*                                                                         *)
(* Besides rows that exist from the start the theorems are about issuers   *)
(* with different slugs: a list is looked up by a path that names its      *)
(* issuer by slug alone.                                                   *)
(***************************************************************************)
EXTENDS RevocationStoreProofs

SlugsDiffer == \A i, j \in Issuers : Slug[i] = Slug[j] => i = j

StoreAssumption ==
    /\ Seeded = Issuers
    /\ SlugsDiffer
    /\ NoRow \notin Statuses

NewPage(r) == [len |-> op[r].len, revoked |-> {}]

\* The list with the bit of status s made what r asks for.
ChangedPage(r, list, s) ==
    [list EXCEPT !.revoked = IF op[r].kind = "revoke" THEN @ \cup {s.index}
                                                      ELSE @ \ {s.index}]

\* An issuance writes no list but a new one of its own: what it found it shares, so it
\* is unchanged when it is saved; what it did not find cannot be inserted by another
\* request, for it holds the issuer's row.
IssuePoint(r) ==
    /\ pc[r] \in IssuePCs => excl[r] \subseteq {DataRow(op[r].issuer)}
    /\ pc[r] \in {"findList", "insertList", "saveList"} =>
          key[r] = <<op[r].issuer, entity[r].list>>
    /\ pc[r] = "findList" /\ key[r] \in DOMAIN lists => ListRow(key[r]) \in shared[r]
    /\ pc[r] = "saveList" => ListRow(key[r]) \in shared[r] /\ page[r] = lists[key[r]]
    /\ pc[r] = "insertList" => key[r] \notin DOMAIN lists /\ page[r] = NewPage(r)
    /\ pc[r] = "commit" /\ op[r] \in IssueOps =>
          /\ key[r] = <<op[r].issuer, entity[r].list>>
          /\ ListRow(key[r]) \in excl[r] => key[r] \notin DOMAIN lists /\ page[r] = NewPage(r)
          /\ ListRow(key[r]) \notin excl[r] => key[r] \in DOMAIN lists

\* A revocation or activation shares the list from before it reads it: the page it will
\* write is still the committed one with one bit changed.
ChangePoint(r) ==
    LET s == status[op[r].target] IN
    /\ pc[r] = "findPath" => ListRow(KeyOf(s)) \in shared[r]
    /\ pc[r] = "updateList" => op[r] \in ChangeOps
    /\ pc[r] \in SavePCs /\ op[r] \in ChangeOps =>
          /\ key[r] = KeyOf(s)
          /\ ListRow(key[r]) \in shared[r]
          /\ page[r] = ChangedPage(r, lists[key[r]], s)
          /\ pc[r] = "commit" => ListRow(key[r]) \in excl[r]

ListPoint(r) ==
    /\ pc[r] = "idle" => excl[r] = {}
    /\ pc[r] # "done" => status[r] = NoRow
    /\ IssuePoint(r)
    /\ ChangePoint(r)

\* The counters of an issuer point into its newest list, which has their length.
CurrentList ==
    \A i \in Issuers :
        /\ <<i, data[i].list>> \in DOMAIN lists
        /\ lists[<<i, data[i].list>>].len = data[i].len
        /\ data[i].index < data[i].len
NoLaterList == \A k \in DOMAIN lists : k[2] <= data[k[1]].list

\* A set bit is the bit of a credential that was issued.
BitsAreGiven ==
    \A k \in DOMAIN lists : \A x \in lists[k].revoked :
        \E c \in Credentials : status[c] = [issuer |-> k[1], list |-> k[2], index |-> x]

IntentIsGiven == \A c \in Credentials : intent[c] => status[c] # NoRow

ListInv ==
    /\ \A r \in Requests : ListPoint(r)
    /\ CurrentList
    /\ NoLaterList
    /\ BitsAreGiven
    /\ IntentIsGiven
    /\ StatusResolves
    /\ BitsAreIntent

-----------------------------------------------------------------------------
(* A step that writes no table.                                            *)

LEMMA OtherListPointsKept ==
    ASSUME ListInv, NEW r \in Requests, OthersKept(r), UNCHANGED <<lists, status>>
    PROVE  \A q \in Requests \ {r} : ListPoint(q)'
BY DEF ListInv, ListPoint, IssuePoint, ChangePoint, OthersKept, NewPage, ChangedPage

LEMMA QuietList ==
    ASSUME ListInv, NEW r \in Requests, OthersKept(r),
           UNCHANGED <<data, lists, status, intent>>, ListPoint(r)'
    PROVE  ListInv'
<1>1. \A q \in Requests : ListPoint(q)'
  BY OtherListPointsKept
<1> QED
  BY <1>1 DEF ListInv, CurrentList, NoLaterList, BitsAreGiven, IntentIsGiven,
              StatusResolves, BitsAreIntent

\* Until it has written its row an issuance has only that to answer for.
LEMMA EarlyPoint ==
    ASSUME NEW r \in Requests, status[r]' = NoRow, excl[r]' \subseteq {DataRow(op[r]'.issuer)},
           pc[r]' \in {"lockData", "findData", "insertData", "saveData", "updateData", "lockList"}
    PROVE  ListPoint(r)'
BY DEF ListPoint, IssuePoint, ChangePoint, IssuePCs, SavePCs

\* Before it shares its list, a change has nothing to answer for; after its end, nobody has.
LEMMA FreePoint ==
    ASSUME NEW r \in Requests,
           pc[r]' = "done" \/ (pc[r]' \in {"check", "lockPath"} /\ status[r]' = NoRow)
    PROVE  ListPoint(r)'
BY DEF ListPoint, IssuePoint, ChangePoint, IssuePCs, SavePCs

-----------------------------------------------------------------------------
(* Each action but the commit keeps ListInv.                               *)

LEMMA ThrowLists ==
    ASSUME TypeInv, ListInv, NEW r \in Requests, NEW answer, Throw(r, answer)
    PROVE  ListInv'
<1>1. OthersKept(r) /\ UNCHANGED <<data, lists, status, intent>>
  BY DEF Throw, Finish, Release, TypeInv, TypeOK, OthersKept, tables, local, history
<1>2. pc'[r] = "done"
  BY DEF Throw, Finish, TypeInv, TypeOK
<1>3. ListPoint(r)'
  BY <1>2, FreePoint
<1> QED
  BY <1>1, <1>3, QuietList

LEMMA ArriveLists ==
    ASSUME TypeInv, ListInv, NEW r \in Requests, NEW o, Arrive(r, o)
    PROVE  ListInv'
<1>1. OthersKept(r) /\ UNCHANGED <<data, lists, status, intent, excl>>
  BY DEF Arrive, TypeInv, TypeOK, OthersKept, tables, locks, local, history
<1>2. pc'[r] \in {"lockData", "check"}
  BY DEF Arrive, Entry, TypeInv, TypeOK
<1>3. excl[r] = {} /\ status[r] = NoRow
  BY DEF Arrive, ListInv, ListPoint
<1>4. ListPoint(r)'
  BY <1>1, <1>2, <1>3, EarlyPoint, FreePoint
<1> QED
  BY <1>1, <1>4, QuietList

LEMMA DeadlockedLists ==
    ASSUME TypeInv, ListInv, NEW r \in Requests, Deadlocked(r)
    PROVE  ListInv'
<1>1. OthersKept(r) /\ UNCHANGED <<data, lists, status, intent>>
  BY DEF Deadlocked, Finish, Release, TypeInv, TypeOK, OthersKept, tables, local, history
<1>2. pc'[r] \in {"lockData", "check", "done"} /\ excl'[r] = {}
  BY DEF Deadlocked, Finish, Release, Entry, TypeInv, TypeOK
<1>3. status[r] = NoRow
  <2>1. pc[r] # "done"
    <3> SUFFICES ASSUME pc[r] = "done" PROVE FALSE
      OBVIOUS
    <3>1. Blockers(r) = {}
      BY DEF Blockers
    <3> QED
      BY <3>1 DEF Deadlocked, InDeadlock
  <2> QED
    BY <2>1 DEF ListInv, ListPoint
<1>4. ListPoint(r)'
  BY <1>1, <1>2, <1>3, EarlyPoint, FreePoint
<1> QED
  BY <1>1, <1>4, QuietList

\* The statements on the RevocationData row.
LEMMA DataStepLists ==
    ASSUME TypeInv, CounterInv, ListInv, NEW r \in Requests,
           \/ LockRevocationData(r)
           \/ FindRevocationData(r)
           \/ SaveRevocationData(r)
           \/ UpdateRevocationData(r)
    PROVE  ListInv'
<1>1. /\ OthersKept(r) /\ UNCHANGED <<data, lists, status, intent, op>>
      /\ excl'[r] = excl[r] \/ excl'[r] = excl[r] \cup {DataRow(op[r].issuer)}
  BY DEF LockRevocationData, FindRevocationData, SaveRevocationData, UpdateRevocationData,
         TypeInv, TypeOK, OthersKept, tables, locks, local, history
<1>2. pc[r] \in IssuePCs
  BY DEF LockRevocationData, FindRevocationData, SaveRevocationData, UpdateRevocationData,
         IssuePCs
<1>3. pc'[r] \in {"findData", "insertData", "saveData", "updateData", "lockList"}
  BY DEF LockRevocationData, FindRevocationData, SaveRevocationData, UpdateRevocationData,
         TypeInv, TypeOK
<1>4. status[r] = NoRow /\ excl[r] \subseteq {DataRow(op[r].issuer)}
  BY <1>2 DEF ListInv, ListPoint, IssuePoint, IssuePCs
<1>5. ListPoint(r)'
  BY <1>1, <1>3, <1>4, EarlyPoint
<1> QED
  BY <1>1, <1>5, QuietList

LEMMA LockListLists ==
    ASSUME TypeInv, ListInv, NEW r \in Requests, LockRevocationList(r)
    PROVE  ListInv'
<1> DEFINE k == <<op[r].issuer, entity[r].list>>
<1>1. OthersKept(r) /\ UNCHANGED <<data, lists, status, intent, op, entity, excl>>
  BY DEF LockRevocationList, TypeInv, TypeOK, OthersKept, tables, history
<1>2. pc'[r] = "findList" /\ key'[r] = k /\ (k \in DOMAIN lists => ListRow(k) \in shared'[r])
  BY DEF LockRevocationList, TypeInv, TypeOK
<1>3. status[r] = NoRow /\ excl[r] \subseteq {DataRow(op[r].issuer)}
  BY DEF LockRevocationList, ListInv, ListPoint, IssuePoint, IssuePCs
<1>4. ListPoint(r)'
  BY <1>1, <1>2, <1>3 DEF ListPoint, IssuePoint, ChangePoint, IssuePCs, SavePCs
<1> QED
  BY <1>1, <1>4, QuietList

LEMMA FindListLists ==
    ASSUME TypeInv, ListInv, NEW r \in Requests, FindRevocationList(r)
    PROVE  ListInv'
<1>1. OthersKept(r) /\ UNCHANGED <<data, lists, status, intent, op, entity, key, shared, excl>>
  BY DEF FindRevocationList, TypeInv, TypeOK, OthersKept, tables, locks, history
<1>2. /\ status[r] = NoRow /\ excl[r] \subseteq {DataRow(op[r].issuer)}
      /\ key[r] = <<op[r].issuer, entity[r].list>>
      /\ key[r] \in DOMAIN lists => ListRow(key[r]) \in shared[r]
  BY DEF FindRevocationList, ListInv, ListPoint, IssuePoint, IssuePCs
<1>3. \/ key[r] \in DOMAIN lists /\ pc'[r] = "saveList" /\ page'[r] = lists[key[r]]
      \/ key[r] \notin DOMAIN lists /\ pc'[r] = "insertList" /\ page'[r] = NewPage(r)
  BY DEF FindRevocationList, TypeInv, TypeOK, NewPage
<1>4. ListPoint(r)'
  BY <1>1, <1>2, <1>3 DEF ListPoint, IssuePoint, ChangePoint, IssuePCs, SavePCs, NewPage
<1> QED
  BY <1>1, <1>4, QuietList

LEMMA InsertListLists ==
    ASSUME TypeInv, ListInv, NEW r \in Requests, InsertRevocationList(r)
    PROVE  ListInv'
<1>1. op[r] \in IssueOps /\ op[r] \notin ChangeOps
  BY DEF InsertRevocationList, TypeInv, PointOK, IssuePCs, IssueOps, ChangeOps
<1>2. /\ status[r] = NoRow /\ key[r] \notin DOMAIN lists /\ page[r] = NewPage(r)
      /\ key[r] = <<op[r].issuer, entity[r].list>>
  BY DEF InsertRevocationList, ListInv, ListPoint, IssuePoint
<1>3. /\ OthersKept(r) /\ UNCHANGED <<data, lists, status, intent, op, entity, key, page>>
      /\ pc'[r] = "commit" /\ ListRow(key[r]) \in excl'[r]
  BY <1>2 DEF InsertRevocationList, TypeInv, TypeOK, OthersKept, tables, local, history
<1>4. ListPoint(r)'
  BY <1>1, <1>2, <1>3 DEF ListPoint, IssuePoint, ChangePoint, IssuePCs, SavePCs, NewPage
<1> QED
  BY <1>3, <1>4, QuietList

\* The list that an issuance found is never written back.
LEMMA SaveListLists ==
    ASSUME TypeInv, ListInv, NEW r \in Requests, SaveRevocationList(r)
    PROVE  ListInv'
<1>1. op[r] \in IssueOps /\ op[r] \notin ChangeOps /\ key[r] \in DOMAIN lists
  BY DEF SaveRevocationList, TypeInv, PointOK, IssuePCs, IssueOps, ChangeOps
<1>2. /\ status[r] = NoRow /\ page[r] = lists[key[r]]
      /\ key[r] = <<op[r].issuer, entity[r].list>>
      /\ excl[r] \subseteq {DataRow(op[r].issuer)}
  BY DEF SaveRevocationList, ListInv, ListPoint, IssuePoint, IssuePCs
<1>3. /\ OthersKept(r) /\ UNCHANGED <<data, lists, status, intent, op, entity, key, page, excl>>
      /\ pc'[r] = "commit"
  BY <1>2 DEF SaveRevocationList, TypeInv, TypeOK, OthersKept, tables, locks, local, history
<1>4. ListRow(key[r]) \notin excl[r]
  BY <1>2 DEF ListRow, DataRow
<1>5. ListPoint(r)'
  BY <1>1, <1>2, <1>3, <1>4 DEF ListPoint, IssuePoint, ChangePoint, IssuePCs, SavePCs
<1> QED
  BY <1>3, <1>5, QuietList

\* The path of a status names its own list and no other.
LEMMA OwnPath ==
    ASSUME TypeInv, SlugsDiffer, NEW s \in Statuses, NEW k \in PathKeys(s)
    PROVE  k \in DOMAIN lists /\ k = KeyOf(s)
<1>1. k \in DOMAIN lists /\ k \in ListKeys
  BY DEF PathKeys, TypeInv, TypeOK
<1>2. k = <<k[1], k[2]>> /\ k[1] \in Issuers /\ s.issuer \in Issuers
  BY <1>1 DEF ListKeys, Statuses
<1>3. k[1] = s.issuer /\ k[2] = s.list
  BY <1>2 DEF PathKeys, SlugsDiffer
<1> QED
  BY <1>1, <1>2, <1>3 DEF KeyOf

\* The target of a change has been issued.
LEMMA TargetGiven ==
    ASSUME TypeInv, NEW r \in Requests, pc[r] \in ChangePCs \cup SavePCs, op[r] \in ChangeOps
    PROVE  op[r].target \in Credentials /\ status[op[r].target] \in Statuses
BY DEF TypeInv, PointOK, ChangeOps

LEMMA CheckLists ==
    ASSUME TypeInv, ListInv, NEW r \in Requests, CheckStatus(r)
    PROVE  ListInv'
<1>1. CASE Throw(r, "already")
  BY <1>1, ThrowLists
<1>2. CASE ~Throw(r, "already")
  <2>1. /\ pc' = [pc EXCEPT ![r] = "lockPath"]
        /\ UNCHANGED <<tables, locks, op, retries, local, result, history>>
    BY <1>2 DEF CheckStatus
  <2>2. OthersKept(r) /\ UNCHANGED <<data, lists, status, intent>> /\ pc'[r] = "lockPath"
    BY <2>1 DEF TypeInv, TypeOK, OthersKept, tables, locks, local, history
  <2>3. status[r] = NoRow
    BY DEF CheckStatus, ListInv, ListPoint
  <2>4. ListPoint(r)'
    BY <2>2, <2>3, FreePoint
  <2> QED
    BY <2>2, <2>4, QuietList
<1> QED
  BY <1>1, <1>2

LEMMA LockPathLists ==
    ASSUME TypeInv, SlugsDiffer, ListInv, NEW r \in Requests, LockPath(r)
    PROVE  ListInv'
<1> DEFINE s == status[op[r].target]
<1>1. op[r] \in ChangeOps /\ s \in Statuses
  BY TargetGiven DEF LockPath, TypeInv, PointOK, ChangePCs
<1>2. PICK k \in PathKeys(s) : shared' = [shared EXCEPT ![r] = shared[r] \cup {ListRow(k)}]
  BY DEF LockPath
<1>3. /\ OthersKept(r) /\ UNCHANGED <<data, lists, status, intent, op>>
      /\ pc'[r] = "findPath"
  BY DEF LockPath, TypeInv, TypeOK, OthersKept, tables, local, history
<1>4. ListRow(KeyOf(s)) \in shared'[r]
  BY <1>1, <1>2, OwnPath DEF TypeInv, TypeOK
<1>5. status[r] = NoRow
  BY DEF LockPath, ListInv, ListPoint
<1>6. ListPoint(r)'
  BY <1>3, <1>4, <1>5 DEF ListPoint, IssuePoint, ChangePoint, IssuePCs, SavePCs
<1> QED
  BY <1>3, <1>6, QuietList

LEMMA UpdateVCLists ==
    ASSUME TypeInv, SlugsDiffer, ListInv, NEW r \in Requests, UpdateRevocationListVC(r)
    PROVE  ListInv'
<1> DEFINE s == status[op[r].target]
<1>1. CASE Throw(r, "error")
  BY <1>1, ThrowLists
<1>2. CASE ~Throw(r, "error")
  <2>1. op[r] \in ChangeOps /\ op[r] \notin IssueOps /\ s \in Statuses
    BY TargetGiven DEF UpdateRevocationListVC, TypeInv, PointOK, ChangePCs, ChangeOps, IssueOps
  <2>2. PICK k \in PathKeys(s) :
          /\ key' = [key EXCEPT ![r] = k]
          /\ page' = [page EXCEPT ![r] = ChangedPage(r, lists[k], s)]
          /\ pc' = [pc EXCEPT ![r] = "updateList"]
          /\ UNCHANGED <<tables, locks, op, retries, entity, dirty, result, history>>
    BY <1>2 DEF UpdateRevocationListVC, ChangedPage
  <2>3. k = KeyOf(s)
    BY <2>1, <2>2, OwnPath
  <2>4. /\ OthersKept(r) /\ UNCHANGED <<data, lists, status, intent, op, shared, excl>>
        /\ pc'[r] = "updateList" /\ key'[r] = KeyOf(s)
        /\ page'[r] = ChangedPage(r, lists[KeyOf(s)], s)
    BY <2>2, <2>3 DEF TypeInv, TypeOK, OthersKept, tables, locks, history
  <2>5. ListRow(KeyOf(s)) \in shared[r] /\ status[r] = NoRow
    BY DEF UpdateRevocationListVC, ListInv, ListPoint, ChangePoint
  <2>6. ListPoint(r)'
    BY <2>1, <2>4, <2>5 DEF ListPoint, IssuePoint, ChangePoint, IssuePCs, SavePCs, ChangedPage
  <2> QED
    BY <2>4, <2>6, QuietList
<1> QED
  BY <1>1, <1>2

LEMMA UpdateListLists ==
    ASSUME TypeInv, ListInv, NEW r \in Requests, UpdateRevocationList(r)
    PROVE  ListInv'
<1> DEFINE s == status[op[r].target]
<1>1. op[r] \in ChangeOps /\ op[r] \notin IssueOps
  BY DEF UpdateRevocationList, ListInv, ListPoint, ChangePoint, ChangeOps, IssueOps
<1>2. /\ key[r] = KeyOf(s) /\ ListRow(key[r]) \in shared[r] /\ status[r] = NoRow
      /\ page[r] = ChangedPage(r, lists[key[r]], s)
  BY <1>1 DEF UpdateRevocationList, ListInv, ListPoint, ChangePoint, SavePCs
<1>3. /\ OthersKept(r)
      /\ UNCHANGED <<data, lists, status, intent, op, shared, key, page>>
      /\ pc'[r] = "commit" /\ ListRow(key[r]) \in excl'[r]
  BY DEF UpdateRevocationList, TypeInv, TypeOK, OthersKept, tables, local, history
<1>4. ListPoint(r)'
  BY <1>1, <1>2, <1>3 DEF ListPoint, IssuePoint, ChangePoint, IssuePCs, SavePCs, ChangedPage
<1> QED
  BY <1>3, <1>4, QuietList

-----------------------------------------------------------------------------
(* The commit of a revocation or activation changes one bit.               *)

\* What r's commit does to the lists.
LEMMA CommittedList ==
    ASSUME NEW r \in Requests, Commit(r), ListRow(key[r]) \in excl[r]
    PROVE  /\ DOMAIN lists' = DOMAIN lists \cup {key[r]}
           /\ lists'[key[r]] = page[r]
           /\ \A k \in DOMAIN lists \ {key[r]} : lists'[k] = lists[k]
BY DEF Commit, Put

LEMMA ChangeCommitLists ==
    ASSUME TypeInv, CounterInv, ListInv, NEW r \in Requests, Commit(r), op[r] \in ChangeOps
    PROVE  LET t == op[r].target
               s == status[t]
           IN  /\ t \in Credentials /\ s \in Statuses /\ key[r] = KeyOf(s)
               /\ key[r] \in DOMAIN lists /\ ListRow(key[r]) \in excl[r]
               /\ DOMAIN lists' = DOMAIN lists
               /\ \A k \in DOMAIN lists \ {key[r]} : lists'[k] = lists[k]
               /\ lists'[key[r]].len = lists[key[r]].len
               /\ lists'[key[r]].revoked = IF op[r].kind = "revoke"
                                           THEN lists[key[r]].revoked \cup {s.index}
                                           ELSE lists[key[r]].revoked \ {s.index}
               /\ intent' = [intent EXCEPT ![t] = (op[r].kind = "revoke")]
               /\ UNCHANGED <<data, status>>
<1> DEFINE t == op[r].target
           s == status[t]
<1>1. t \in Credentials /\ s \in Statuses
  BY TargetGiven DEF Commit, SavePCs
<1>2. /\ key[r] = KeyOf(s) /\ ListRow(key[r]) \in shared[r] /\ ListRow(key[r]) \in excl[r]
      /\ page[r] = ChangedPage(r, lists[key[r]], s)
  BY DEF Commit, ListInv, ListPoint, ChangePoint, SavePCs
<1>3. key[r] \in DOMAIN lists
  <2>1. ListRow(key[r]) \in PresentRows
    BY <1>2 DEF CounterInv, SharedExist
  <2> QED
    BY <2>1 DEF PresentRows, ListRow, DataRow
<1>4. lists[key[r]] \in ListRows
  BY <1>3 DEF TypeInv, TypeOK
<1>5. /\ page[r].len = lists[key[r]].len
      /\ page[r].revoked = IF op[r].kind = "revoke"
                           THEN lists[key[r]].revoked \cup {s.index}
                           ELSE lists[key[r]].revoked \ {s.index}
  BY <1>2, <1>4 DEF ChangedPage, ListRows
<1>6. op[r] \notin IssueOps /\ op[r].kind # "issue"
  BY DEF IssueOps, ChangeOps
<1>7. UNCHANGED <<data, status>> /\ intent' = [intent EXCEPT ![t] = (op[r].kind = "revoke")]
  BY <1>6 DEF Commit
<1>8. DOMAIN lists' = DOMAIN lists
  BY <1>2, <1>3, CommittedList
<1> QED
  BY <1>1, <1>2, <1>3, <1>5, <1>7, <1>8, CommittedList

LEMMA RowsDiffer == \A k, l : ListRow(k) = ListRow(l) => k = l
BY DEF ListRow

LEMMA ChangeCommitOthers ==
    ASSUME TypeInv, CounterInv, ListInv, NEW r \in Requests, Commit(r), op[r] \in ChangeOps,
           NEW q \in Requests \ {r}
    PROVE  ListPoint(q)'
<1>1. OthersKept(r)
  BY DEF Commit, Finish, Release, TypeInv, TypeOK, OthersKept, local
<1>2. /\ DOMAIN lists' = DOMAIN lists /\ status' = status
      /\ \A k \in DOMAIN lists \ {key[r]} : lists'[k] = lists[k]
      /\ ListRow(key[r]) \in excl[r]
  BY ChangeCommitLists
<1>3. ListRow(key[q]) \in shared[q] => key[q] # key[r]
  BY <1>2 DEF CounterInv, Exclusive
<1>4. ListRow(key[q]) \in shared[q] => key[q] \in DOMAIN lists
  BY RowsDiffer DEF CounterInv, SharedExist, PresentRows, ListRow, DataRow
<1>5. ListRow(key[q]) \in shared[q] => lists'[key[q]] = lists[key[q]]
  BY <1>2, <1>3, <1>4
<1>6. /\ pc'[q] = pc[q] /\ op'[q] = op[q] /\ shared'[q] = shared[q] /\ excl'[q] = excl[q]
      /\ entity'[q] = entity[q] /\ key'[q] = key[q] /\ page'[q] = page[q]
  BY <1>1 DEF OthersKept
<1>7. IssuePoint(q)'
  BY <1>2, <1>5, <1>6 DEF ListInv, ListPoint, IssuePoint, NewPage
<1>8. ChangePoint(q)'
  <2>1. ChangePoint(q)
    BY DEF ListInv, ListPoint
  <2>2. CASE pc[q] \in SavePCs /\ op[q] \in ChangeOps
    <3>1. lists'[key[q]] = lists[key[q]]
      BY <1>5, <2>1, <2>2 DEF ChangePoint
    <3> QED
      BY <1>2, <1>6, <2>1, <2>2, <3>1 DEF ChangePoint, ChangedPage, SavePCs
  <2>3. CASE ~(pc[q] \in SavePCs /\ op[q] \in ChangeOps)
    BY <1>2, <1>6, <2>1, <2>3 DEF ChangePoint
  <2> QED
    BY <2>2, <2>3
<1> QED
  BY <1>2, <1>6, <1>7, <1>8 DEF ListInv, ListPoint

LEMMA ChangeCommitKept ==
    ASSUME NoRow \notin Statuses, TypeInv, CounterInv, ListInv, NEW r \in Requests, Commit(r),
           op[r] \in ChangeOps
    PROVE  ListInv'
<1> DEFINE t == op[r].target
           s == status[t]
           k == key[r]
<1>1. /\ t \in Credentials /\ s \in Statuses /\ k = KeyOf(s) /\ k \in DOMAIN lists
      /\ DOMAIN lists' = DOMAIN lists
      /\ \A l \in DOMAIN lists \ {k} : lists'[l] = lists[l]
      /\ lists'[k].len = lists[k].len
      /\ data' = data /\ status' = status
  BY ChangeCommitLists
<1>2. lists'[k].revoked = IF op[r].kind = "revoke" THEN lists[k].revoked \cup {s.index}
                                                   ELSE lists[k].revoked \ {s.index}
  BY ChangeCommitLists
<1>3. intent' = [intent EXCEPT ![t] = (op[r].kind = "revoke")]
  BY ChangeCommitLists
<1>4. ListPoint(r)'
  BY FreePoint DEF Commit, Finish, TypeInv, TypeOK
<1>5. \A q \in Requests : ListPoint(q)'
  BY <1>4, ChangeCommitOthers
<1>6. s \in Statuses /\ \A c \in Credentials : status[c] # NoRow => status[c] \in Statuses
  BY <1>1 DEF TypeInv, TypeOK
<1>7. CurrentList' /\ NoLaterList'
  <2>1. \A l \in DOMAIN lists : lists'[l].len = lists[l].len
    BY <1>1
  <2> QED
    BY <1>1, <2>1 DEF ListInv, CurrentList, NoLaterList
<1>8. BitsAreGiven'
  <2> SUFFICES ASSUME NEW l \in DOMAIN lists', NEW x \in lists'[l].revoked
               PROVE  \E c \in Credentials : status[c] = [issuer |-> l[1], list |-> l[2], index |-> x]
    BY <1>1 DEF BitsAreGiven
  <2>1. CASE x \in lists[l].revoked
    BY <1>1, <2>1 DEF ListInv, BitsAreGiven
  <2>2. CASE x \notin lists[l].revoked
    <3>1. l = k /\ x = s.index
      BY <1>1, <1>2, <2>2
    <3>2. s = [issuer |-> l[1], list |-> l[2], index |-> x]
      BY <1>1, <3>1 DEF KeyOf, Statuses
    <3> QED
      BY <1>1, <3>2
  <2> QED
    BY <2>1, <2>2
<1>9. IntentIsGiven'
  BY <1>1, <1>3 DEF ListInv, IntentIsGiven
<1>10. StatusResolves'
  <2>1. \A l \in DOMAIN lists : lists'[l].len = lists[l].len
    BY <1>1
  <2> QED
    BY <1>1, <2>1 DEF ListInv, StatusResolves
<1>11. BitsAreIntent'
  <2> SUFFICES ASSUME NEW c \in Credentials, status[c] # NoRow
               PROVE  status[c].index \in lists'[KeyOf(status[c])].revoked <=> intent'[c]
    BY <1>1 DEF BitsAreIntent
  <2>1. /\ status[c].index \in lists[KeyOf(status[c])].revoked <=> intent[c]
        /\ KeyOf(status[c]) \in DOMAIN lists
    BY DEF ListInv, BitsAreIntent, StatusResolves
  <2>2. CASE c = t
    <3>1. intent'[t] = (op[r].kind = "revoke")
      BY <1>1, <1>3 DEF TypeInv, TypeOK
    <3> QED
      BY <1>1, <1>2, <2>2, <3>1
  <2>3. CASE c # t
    <3>1. intent'[c] = intent[c]
      BY <1>3, <2>3 DEF TypeInv, TypeOK
    <3>2. CASE KeyOf(status[c]) # k
      BY <1>1, <2>1, <3>1, <3>2
    <3>3. CASE KeyOf(status[c]) = k
      <4>1. status[c] # s /\ status[c] \in Statuses /\ s \in Statuses
        BY <1>1, <1>6, <2>3 DEF CounterInv, UniqueStatus
      <4>2. status[c].index # s.index
        BY <1>1, <3>3, <4>1 DEF KeyOf, Statuses
      <4> QED
        BY <1>2, <2>1, <3>1, <3>3, <4>2
    <3> QED
      BY <3>2, <3>3
  <2> QED
    BY <2>2, <2>3
<1> QED
  BY <1>5, <1>7, <1>8, <1>9, <1>10, <1>11 DEF ListInv

-----------------------------------------------------------------------------
(* The commit of an issuance goes on in the issuer's newest list or opens  *)
(* the next one.                                                           *)

OpensList(r) ==
    LET k == key[r] IN
    /\ k \notin DOMAIN lists
    /\ DOMAIN lists' = DOMAIN lists \cup {k}
    /\ \A l \in DOMAIN lists : lists'[l] = lists[l]
    /\ lists'[k].revoked = {}
    /\ lists'[k].len = entity[r].len
    /\ entity[r].index = 0

ExtendsList(r) ==
    /\ key[r] \in DOMAIN lists
    /\ lists' = lists
    /\ entity[r].len = lists[key[r]].len
    /\ entity[r].index < entity[r].len

LEMMA IssueCommitLists ==
    ASSUME TypeInv, CounterInv, ListInv, NEW r \in Requests, Commit(r), op[r] \in IssueOps
    PROVE  /\ key[r] = <<op[r].issuer, entity[r].list>>
           /\ OpensList(r) \/ ExtendsList(r)
           /\ intent' = intent
<1> DEFINE i == op[r].issuer
           row == data[i]
<1>1. /\ i \in Issuers /\ op[r].len \in BitLengths /\ entity[r] \in DataRows
      /\ entity[r] = NextRow(row, op[r].len)
  BY IssueCommit DEF EntityIsNext
<1>2. row \in DataRows
  BY <1>1 DEF CounterInv, TypeInv, TypeOK
<1>3. /\ key[r] = <<i, entity[r].list>>
      /\ ListRow(key[r]) \in excl[r] => key[r] \notin DOMAIN lists /\ page[r] = NewPage(r)
      /\ ListRow(key[r]) \notin excl[r] => key[r] \in DOMAIN lists
  BY DEF Commit, ListInv, ListPoint, IssuePoint
<1>4. /\ <<i, row.list>> \in DOMAIN lists /\ lists[<<i, row.list>>].len = row.len
      /\ row.index < row.len
  BY <1>1 DEF ListInv, CurrentList
<1>5. op[r].kind = "issue"
  BY DEF IssueOps
<1>6. intent' = intent
  BY <1>5 DEF Commit
<1>7. CASE op[r].len # row.len \/ row.index + 1 >= row.len
  <2>1. entity[r] = [list |-> row.list + 1, index |-> 0, len |-> op[r].len]
    BY <1>1, <1>7 DEF NextRow
  <2>2. key[r] \notin DOMAIN lists
    <3>1. ~(row.list + 1 <= row.list)
      BY <1>2 DEF DataRows
    <3> QED
      BY <1>3, <2>1, <3>1 DEF ListInv, NoLaterList
  <2>3. ListRow(key[r]) \in excl[r] /\ page[r] = NewPage(r)
    BY <1>3, <2>2
  <2>4. OpensList(r)
    BY <2>1, <2>2, <2>3, CommittedList DEF OpensList, NewPage
  <2> QED
    BY <1>3, <1>6, <2>4
<1>8. CASE ~(op[r].len # row.len \/ row.index + 1 >= row.len)
  <2>1. entity[r] = [row EXCEPT !.index = row.index + 1]
    BY <1>1, <1>8 DEF NextRow
  <2>2. entity[r].list = row.list /\ entity[r].len = row.len /\ entity[r].index = row.index + 1
    BY <1>2, <2>1 DEF DataRows
  <2>3. key[r] \in DOMAIN lists /\ lists[key[r]].len = row.len
    BY <1>3, <1>4, <2>2
  <2>4. lists' = lists
    BY <1>3, <2>3 DEF Commit
  <2>5. entity[r].index < entity[r].len
    <3>1. row.index \in Nat /\ row.len \in Nat
      BY <1>2, ConstantsAssumption DEF DataRows
    <3> QED
      BY <1>8, <2>2, <3>1
  <2> QED
    BY <1>3, <1>6, <2>2, <2>3, <2>4, <2>5 DEF ExtendsList
<1> QED
  BY <1>7, <1>8

\* Nobody else is at work on the list an issuance opens, and no status but its own changes.
LEMMA IssueCommitOthers ==
    ASSUME NoRow \notin Statuses, TypeInv, CounterInv, ListInv, NEW r \in Requests, Commit(r),
           op[r] \in IssueOps, NEW q \in Requests \ {r}
    PROVE  ListPoint(q)'
<1>1. /\ pc'[q] = pc[q] /\ op'[q] = op[q] /\ shared'[q] = shared[q] /\ excl'[q] = excl[q]
      /\ entity'[q] = entity[q] /\ key'[q] = key[q] /\ page'[q] = page[q]
  BY DEF Commit, Finish, Release, TypeInv, TypeOK, local
<1>2. /\ key[r] = <<op[r].issuer, entity[r].list>>
      /\ \A l \in DOMAIN lists : l \in DOMAIN lists' /\ lists'[l] = lists[l]
      /\ DOMAIN lists' \subseteq DOMAIN lists \cup {key[r]}
  BY IssueCommitLists DEF OpensList, ExtendsList
<1>3. status' = [status EXCEPT ![r] = StatusOf(r)] /\ DataRow(op[r].issuer) \in excl[r]
  BY IssueCommit
<1>4. status[r] = NoRow
  BY DEF Commit, ListInv, ListPoint
<1>5. status'[q] = status[q]
  BY <1>3
<1>6. ListPoint(q)
  BY DEF ListInv
<1>7. IssuePoint(q)'
  <2>1. CASE pc[q] \in HeldPCs /\ op[q] \in IssueOps
    <3>1. op[q].issuer # op[r].issuer
      BY <1>3, <2>1 DEF CounterInv, CounterPoint, Exclusive
    <3>2. pc[q] \in {"findList", "insertList", "saveList", "commit"} => key[q] # key[r]
      BY <1>2, <1>6, <2>1, <3>1 DEF ListPoint, IssuePoint
    <3>3. pc[q] = "saveList" => key[q] \in DOMAIN lists
      BY DEF TypeInv, PointOK
    <3> QED
      BY <1>1, <1>2, <1>6, <3>2, <3>3 DEF ListPoint, IssuePoint, NewPage
  <2>2. CASE ~(pc[q] \in HeldPCs /\ op[q] \in IssueOps)
    <3>1. pc[q] \notin {"findList", "insertList", "saveList"}
      BY <2>2 DEF TypeInv, PointOK, HeldPCs, IssuePCs
    <3>2. ~(pc[q] = "commit" /\ op[q] \in IssueOps)
      BY <2>2 DEF HeldPCs
    <3> QED
      BY <1>1, <1>6, <3>1, <3>2 DEF ListPoint, IssuePoint
  <2> QED
    BY <2>1, <2>2
<1>8. ChangePoint(q)'
  <2>1. CASE pc[q] \in ChangePCs \cup SavePCs /\ op[q] \in ChangeOps
    <3>1. op[q].target \in Credentials /\ status[op[q].target] \in Statuses
      BY <2>1, TargetGiven
    <3>2. status'[op[q].target] = status[op[q].target]
      BY <1>3, <1>4, <3>1 DEF TypeInv, TypeOK
    <3>3. ListRow(key[q]) \in shared[q] => lists'[key[q]] = lists[key[q]]
      BY <1>2, RowsDiffer DEF CounterInv, SharedExist, PresentRows, ListRow, DataRow
    <3>4. ChangePoint(q)
      BY <1>6 DEF ListPoint
    <3>5. CASE pc[q] \in SavePCs
      <4>1. lists'[key[q]] = lists[key[q]]
        BY <2>1, <3>3, <3>4, <3>5 DEF ChangePoint
      <4> QED
        BY <1>1, <2>1, <3>2, <3>4, <3>5, <4>1 DEF ChangePoint, ChangedPage, SavePCs
    <3>6. CASE pc[q] \notin SavePCs
      BY <1>1, <3>2, <3>4, <3>6 DEF ChangePoint, SavePCs
    <3> QED
      BY <3>5, <3>6
  <2>2. CASE ~(pc[q] \in ChangePCs \cup SavePCs /\ op[q] \in ChangeOps)
    <3>1. pc[q] # "findPath" /\ pc[q] # "updateList"
      BY <1>6, <2>2 DEF TypeInv, PointOK, ChangePCs, SavePCs, ListPoint, ChangePoint
    <3> QED
      BY <1>1, <2>2, <3>1 DEF ChangePoint, SavePCs
  <2> QED
    BY <2>1, <2>2
<1> QED
  BY <1>1, <1>5, <1>6, <1>7, <1>8 DEF ListPoint

LEMMA IssueCommitKept ==
    ASSUME NoRow \notin Statuses, TypeInv, CounterInv, ListInv, NEW r \in Requests, Commit(r),
           op[r] \in IssueOps
    PROVE  ListInv'
<1> DEFINE i == op[r].issuer
           k == key[r]
           new == StatusOf(r)
<1>1. /\ i \in Issuers /\ op[r].len \in BitLengths /\ entity[r] \in DataRows
      /\ Before(data[i], entity[r])
      /\ data' = [data EXCEPT ![i] = entity[r]]
      /\ status' = [status EXCEPT ![r] = new] /\ new \in Statuses
  BY IssueCommit
<1>2. k = <<i, entity[r].list>> /\ intent' = intent /\ (OpensList(r) \/ ExtendsList(r))
  BY IssueCommitLists
<1>3. \A l \in DOMAIN lists : l \in DOMAIN lists' /\ lists'[l] = lists[l]
  BY <1>2 DEF OpensList, ExtendsList
<1>4. /\ k \in DOMAIN lists' /\ DOMAIN lists' \subseteq DOMAIN lists \cup {k}
      /\ lists'[k].len = entity[r].len
      /\ lists'[k].revoked = IF k \in DOMAIN lists THEN lists[k].revoked ELSE {}
  BY <1>2 DEF OpensList, ExtendsList
<1>5. entity[r].index < entity[r].len
  <2>1. entity[r].len \in Nat \ {0}
    BY <1>1, ConstantsAssumption DEF DataRows
  <2> QED
    BY <1>2, <2>1 DEF OpensList, ExtendsList
<1>6. r \in Credentials /\ status[r] = NoRow /\ status'[r] = new
      /\ \A c \in Credentials \ {r} : status'[c] = status[c]
  BY <1>1 DEF Commit, ListInv, ListPoint, Credentials, TypeInv, TypeOK
<1>7. KeyOf(new) = k /\ new.index = entity[r].index /\ new # NoRow
  BY <1>1, <1>2 DEF KeyOf, StatusOf
<1>8. \A q \in Requests : ListPoint(q)'
  <2>1. ListPoint(r)'
    BY FreePoint DEF Commit, Finish, TypeInv, TypeOK
  <2> QED
    BY <2>1, IssueCommitOthers
<1>9. DOMAIN data = Issuers /\ data'[i] = entity[r] /\ data[i] \in DataRows
      /\ \A j \in Issuers \ {i} : data'[j] = data[j]
  BY <1>1 DEF CounterInv, TypeInv, TypeOK
<1>10. CurrentList'
  <2> SUFFICES ASSUME NEW j \in Issuers
               PROVE  /\ <<j, data'[j].list>> \in DOMAIN lists'
                      /\ lists'[<<j, data'[j].list>>].len = data'[j].len
                      /\ data'[j].index < data'[j].len
    BY DEF CurrentList
  <2>1. CASE j = i
    BY <1>2, <1>4, <1>5, <1>9, <2>1
  <2>2. CASE j # i
    BY <1>3, <1>9, <2>2 DEF ListInv, CurrentList
  <2> QED
    BY <2>1, <2>2
<1>11. NoLaterList'
  <2> SUFFICES ASSUME NEW l \in DOMAIN lists' PROVE l[2] <= data'[l[1]].list
    BY DEF NoLaterList
  <2>1. CASE l = k
    BY <1>1, <1>2, <1>9, <2>1 DEF DataRows
  <2>2. CASE l # k
    <3>1. l \in DOMAIN lists /\ l[2] <= data[l[1]].list /\ l[1] \in Issuers /\ l[2] \in Nat
      BY <1>4, <2>2 DEF ListInv, NoLaterList, TypeInv, TypeOK, ListKeys
    <3>2. CASE l[1] = i
      <4>1. data[i].list <= entity[r].list
        BY <1>1, <1>9 DEF Before, DataRows
      <4> QED
        BY <1>1, <1>9, <3>1, <3>2, <4>1 DEF DataRows
    <3>3. CASE l[1] # i
      BY <1>9, <3>1, <3>3
    <3> QED
      BY <3>2, <3>3
  <2> QED
    BY <2>1, <2>2
<1>12. \A l \in DOMAIN lists : \A x \in lists[l].revoked : \E c \in Credentials \ {r} :
          status[c] = [issuer |-> l[1], list |-> l[2], index |-> x]
  <2> SUFFICES ASSUME NEW l \in DOMAIN lists, NEW x \in lists[l].revoked
               PROVE  \E c \in Credentials \ {r} :
                         status[c] = [issuer |-> l[1], list |-> l[2], index |-> x]
    OBVIOUS
  <2>1. [issuer |-> l[1], list |-> l[2], index |-> x] \in Statuses
    BY DEF TypeInv, TypeOK, ListRows, ListKeys, Statuses
  <2> QED
    BY <1>6, <2>1 DEF ListInv, BitsAreGiven
<1>13. BitsAreGiven'
  <2> SUFFICES ASSUME NEW l \in DOMAIN lists', NEW x \in lists'[l].revoked
               PROVE  \E c \in Credentials :
                         status'[c] = [issuer |-> l[1], list |-> l[2], index |-> x]
    BY DEF BitsAreGiven
  <2>1. l \in DOMAIN lists /\ x \in lists[l].revoked
    BY <1>3, <1>4
  <2> QED
    BY <1>6, <1>12, <2>1
<1>14. IntentIsGiven'
  BY <1>2, <1>6, <1>7 DEF ListInv, IntentIsGiven
<1>15. StatusResolves'
  <2> SUFFICES ASSUME NEW c \in Credentials, status'[c] # NoRow
               PROVE  /\ KeyOf(status'[c]) \in DOMAIN lists'
                      /\ status'[c].index < lists'[KeyOf(status'[c])].len
    BY DEF StatusResolves, KeyOf
  <2>1. CASE c = r
    BY <1>4, <1>5, <1>6, <1>7, <2>1
  <2>2. CASE c # r
    BY <1>3, <1>6, <2>2 DEF ListInv, StatusResolves
  <2> QED
    BY <2>1, <2>2
<1>16. new.index \notin lists'[k].revoked
  <2>1. CASE k \notin DOMAIN lists
    BY <1>4, <2>1
  <2>2. CASE k \in DOMAIN lists
    <3> SUFFICES ASSUME new.index \in lists[k].revoked PROVE FALSE
      BY <1>4, <2>2
    <3>1. PICK c \in Credentials \ {r} :
             status[c] = [issuer |-> k[1], list |-> k[2], index |-> new.index]
      BY <1>12, <2>2
    <3>2. status[c] = new
      BY <1>2, <3>1 DEF StatusOf
    <3>3. UniqueStatus'
      BY CommitCounters DEF CounterInv
    <3> QED
      BY <1>6, <1>7, <3>2, <3>3 DEF UniqueStatus
  <2> QED
    BY <2>1, <2>2
<1>17. BitsAreIntent'
  <2> SUFFICES ASSUME NEW c \in Credentials, status'[c] # NoRow
               PROVE  status'[c].index \in lists'[KeyOf(status'[c])].revoked <=> intent'[c]
    BY DEF BitsAreIntent, KeyOf
  <2>1. CASE c = r
    BY <1>2, <1>6, <1>7, <1>16, <2>1 DEF ListInv, IntentIsGiven
  <2>2. CASE c # r
    BY <1>2, <1>3, <1>6, <2>2 DEF ListInv, BitsAreIntent, StatusResolves
  <2> QED
    BY <2>1, <2>2
<1> QED
  BY <1>8, <1>10, <1>11, <1>13, <1>14, <1>15, <1>17 DEF ListInv

-----------------------------------------------------------------------------
(* The theorems.                                                           *)

LEMMA ListInvInit == StoreAssumption /\ Init => ListInv
<1> SUFFICES ASSUME StoreAssumption, Init PROVE ListInv
  OBVIOUS
<1>1. Seeded = Issuers /\ Issuers \cap Requests = {} /\ SeedLength \in Nat \ {0}
  BY ConstantsAssumption DEF StoreAssumption
<1>2. /\ data = [i \in Issuers |-> FirstRow(SeedLength)]
      /\ lists = [k \in Issuers \X {0} |-> [len |-> SeedLength, revoked |-> {}]]
      /\ intent = [c \in Credentials |-> FALSE]
  BY <1>1 DEF Init
<1>3. \A c \in Credentials : status[c] # NoRow =>
        c \in Issuers /\ status[c].issuer = c /\ status[c].list = 0 /\ status[c].index = 0
  BY <1>1 DEF Init, Credentials
<1>4. \A r \in Requests : ListPoint(r)
  <2>1. \A r \in Requests : pc[r] = "idle" /\ excl[r] = {} /\ status[r] = NoRow
    BY <1>1 DEF Init, Credentials
  <2> QED
    BY <2>1 DEF ListPoint, IssuePoint, ChangePoint, IssuePCs, SavePCs
<1>5. CurrentList /\ NoLaterList
  BY <1>1, <1>2 DEF CurrentList, NoLaterList, FirstRow
<1>6. BitsAreGiven /\ IntentIsGiven
  BY <1>2 DEF BitsAreGiven, IntentIsGiven
<1>7. StatusResolves /\ BitsAreIntent
  <2> SUFFICES ASSUME NEW c \in Credentials, status[c] # NoRow
               PROVE  /\ KeyOf(status[c]) \in DOMAIN lists
                      /\ status[c].index < lists[KeyOf(status[c])].len
                      /\ status[c].index \in lists[KeyOf(status[c])].revoked <=> intent[c]
    BY DEF StatusResolves, BitsAreIntent
  <2>1. c \in Issuers /\ status[c].issuer = c /\ status[c].list = 0 /\ status[c].index = 0
    BY <1>3
  <2>2. KeyOf(status[c]) = <<c, 0>> /\ <<c, 0>> \in Issuers \X {0}
    BY <2>1 DEF KeyOf
  <2>3. KeyOf(status[c]) \in DOMAIN lists
    BY <1>2, <2>2
  <2>4. lists[KeyOf(status[c])].len = SeedLength /\ lists[KeyOf(status[c])].revoked = {}
    BY <1>2, <2>2
  <2>5. ~intent[c]
    BY <1>2
  <2> QED
    BY <1>1, <2>1, <2>3, <2>4, <2>5
<1> QED
  BY <1>4, <1>5, <1>6, <1>7 DEF ListInv

LEMMA ListInvNext == StoreAssumption /\ TypeInv /\ CounterInv /\ ListInv /\ [Next]_vars => ListInv'
<1> SUFFICES ASSUME StoreAssumption, TypeInv, CounterInv, ListInv, [Next]_vars PROVE ListInv'
  OBVIOUS
<1>1. SlugsDiffer /\ NoRow \notin Statuses
  BY DEF StoreAssumption
<1>2. CASE UNCHANGED vars
  BY <1>2 DEF vars, ListInv, ListPoint, IssuePoint, ChangePoint, NewPage, ChangedPage,
              CurrentList, NoLaterList, BitsAreGiven, IntentIsGiven, StatusResolves, BitsAreIntent
<1>3. CASE Next
  <2>1. PICK r \in Requests :
          \/ \E o \in IssueOps \cup ChangeOps : Arrive(r, o)
          \/ Step(r)
          \/ Deadlocked(r)
          \/ Fail(r)
    BY <1>3 DEF Next
  <2>2. CASE \E o \in IssueOps \cup ChangeOps : Arrive(r, o)
    BY <2>2, ArriveLists
  <2>3. CASE Commit(r)
    <3>1. op[r] \in IssueOps \/ op[r] \in ChangeOps
      BY <2>3 DEF Commit, TypeInv, PointOK, SavePCs
    <3> QED
      BY <1>1, <2>3, <3>1, IssueCommitKept, ChangeCommitKept
  <2>4. CASE Step(r) /\ ~Commit(r)
    <3>1. ~InsertRevocationData(r)
      BY DEF InsertRevocationData, CounterInv, CounterPoint
    <3> QED
      BY <1>1, <2>4, <3>1, DataStepLists, LockListLists, FindListLists, InsertListLists,
         SaveListLists, UpdateListLists, CheckLists, LockPathLists, UpdateVCLists DEF Step
  <2>5. CASE Deadlocked(r)
    BY <2>5, DeadlockedLists
  <2>6. CASE Fail(r)
    BY <2>6, ThrowLists DEF Fail
  <2> QED
    BY <2>1, <2>2, <2>3, <2>4, <2>5, <2>6
<1> QED
  BY <1>2, <1>3

\* The invariants that type the requests, keep the counters and keep the lists.
StoreInv == TypeInv /\ CounterInv /\ ListInv

LEMMA StoreInvNext == StoreAssumption /\ StoreInv /\ [Next]_vars => StoreInv'
  BY TypeInvNext, CounterInvNext, ListInvNext DEF StoreInv

LEMMA StoreInvInit == StoreAssumption /\ Init => StoreInv
  BY TypeInvInit, CounterInvInit, ListInvInit DEF StoreInv, StoreAssumption

LEMMA StoreInvAlways == ASSUME StoreAssumption PROVE Spec => []StoreInv
<1>1. Init => StoreInv
  BY StoreInvInit
<1>2. StoreInv /\ [Next]_vars => StoreInv'
  BY StoreInvNext
<1> QED
  BY <1>1, <1>2, PTL DEF Spec

\* A credential's status keeps pointing at a bit that exists, however lists fill up,
\* change their length or are written by other requests (upsertRevocationList).
THEOREM StatusesResolve == ASSUME StoreAssumption PROVE Spec => []StatusResolves
<1>1. StoreInv => StatusResolves
  BY DEF StoreInv, ListInv
<1> QED
  BY <1>1, StoreInvAlways, PTL

\* No revocation or activation is lost to another one of the same list or to an issuance
\* into it, and none reaches another credential (updateRevocationListVC, lockRevocationList).
THEOREM BitsStayIntent == ASSUME StoreAssumption PROVE Spec => []BitsAreIntent
<1>1. StoreInv => BitsAreIntent
  BY DEF StoreInv, ListInv
<1> QED
  BY <1>1, StoreInvAlways, PTL

-----------------------------------------------------------------------------
(* The refinement: a commit is the registry's step, every other step is a  *)
(* stutter.                                                                *)

LEMMA RevokedIsIntent ==
    ListInv => RevokedCredentials = {c \in Credentials : intent[c]}
  BY DEF ListInv, RevokedCredentials, IntentIsGiven, StatusResolves, BitsAreIntent

LEMMA RevokedIsIntentNext ==
    ListInv' => RevokedCredentials' = {c \in Credentials : intent'[c]}
  BY DEF ListInv, RevokedCredentials, IntentIsGiven, StatusResolves, BitsAreIntent

LEMMA RegistryInit == StoreAssumption /\ Init => Registry!Init
<1> SUFFICES ASSUME StoreAssumption, Init PROVE Registry!Init
  OBVIOUS
<1>1. StoreInv
  BY StoreInvInit
<1>2. RevokedCredentials = {}
  BY <1>1, RevokedIsIntent DEF Init, StoreInv
<1>3. status \in [Credentials -> Statuses \cup {NoRow}] /\ UniqueStatus
  BY <1>1 DEF StoreInv, TypeInv, TypeOK, CounterInv
<1> QED
  BY <1>2, <1>3 DEF Registry!Init, Registry!Injective, UniqueStatus

LEMMA RegistryIssue ==
    ASSUME StoreAssumption, StoreInv, StoreInv', NEW r \in Requests, Commit(r), op[r] \in IssueOps
    PROVE  Registry!Next
<1>1. status' = [status EXCEPT ![r] = StatusOf(r)] /\ StatusOf(r) \in Statuses
  BY IssueCommit DEF StoreInv
<1>2. r \in Credentials /\ status[r] = NoRow /\ status'[r] = StatusOf(r)
  BY <1>1 DEF StoreInv, Commit, ListInv, ListPoint, Credentials, TypeInv, TypeOK
<1>3. RevokedCredentials' = RevokedCredentials
  BY IssueCommitLists, RevokedIsIntent, RevokedIsIntentNext DEF StoreInv
<1>4. \A d \in Credentials : status[d] # status'[r]
  <2>1. \A d \in Credentials \ {r} : status'[d] = status[d]
    BY <1>1 DEF StoreInv, TypeInv, TypeOK
  <2>2. UniqueStatus' /\ status'[r] # NoRow
    BY <1>1, <1>2 DEF StoreInv, CounterInv, StoreAssumption
  <2> QED
    BY <1>2, <2>1, <2>2 DEF UniqueStatus
<1>5. Registry!Assign(r)
  BY <1>1, <1>2, <1>3, <1>4 DEF Registry!Assign
<1> QED
  BY <1>2, <1>5 DEF Registry!Next

LEMMA RegistryChange ==
    ASSUME StoreAssumption, StoreInv, StoreInv', NEW r \in Requests, Commit(r), op[r] \in ChangeOps
    PROVE  Registry!Next
<1> DEFINE t == op[r].target
           value == (op[r].kind = "revoke")
<1>1. t \in Credentials /\ status' = status /\ intent' = [intent EXCEPT ![t] = value]
  BY ChangeCommitLists DEF StoreInv
<1>2. value \in BOOLEAN
  OBVIOUS
<1>3. intent'[t] = value /\ \A c \in Credentials \ {t} : intent'[c] = intent[c]
  BY <1>1 DEF StoreInv, TypeInv, TypeOK
<1>4. RevokedCredentials' = IF value THEN RevokedCredentials \cup {t} ELSE RevokedCredentials \ {t}
  BY <1>1, <1>3, RevokedIsIntent, RevokedIsIntentNext DEF StoreInv
<1>5. status[t] # NoRow
  BY ChangeCommitLists DEF StoreInv, StoreAssumption
<1>6. Registry!SetRevoked(t, value)
  BY <1>1, <1>4, <1>5 DEF Registry!SetRevoked
<1> QED
  BY <1>1, <1>2, <1>6 DEF Registry!Next

LEMMA RegistryStep ==
    ASSUME StoreAssumption, StoreInv, StoreInv', [Next]_vars
    PROVE  [Registry!Next]_(Registry!vars)
<1>1. CASE UNCHANGED <<status, intent>>
  <2>1. RevokedCredentials' = RevokedCredentials
    BY <1>1, RevokedIsIntent, RevokedIsIntentNext DEF StoreInv
  <2> QED
    BY <1>1, <2>1 DEF Registry!vars
<1>2. ASSUME NEW r \in Requests, Commit(r) PROVE Registry!Next
  <2>1. op[r] \in IssueOps \/ op[r] \in ChangeOps
    BY <1>2 DEF StoreInv, Commit, TypeInv, PointOK, SavePCs
  <2> QED
    BY <1>2, <2>1, RegistryIssue, RegistryChange
<1>3. CASE ~UNCHANGED <<status, intent>>
  <2>1. PICK r \in Requests : Commit(r)
    BY <1>3 DEF vars, Next, Step, Arrive, LockRevocationData, FindRevocationData,
       InsertRevocationData, SaveRevocationData, UpdateRevocationData, LockRevocationList,
       FindRevocationList, InsertRevocationList, SaveRevocationList, UpdateRevocationList,
       CheckStatus, LockPath, UpdateRevocationListVC, Deadlocked, Fail, Throw, history
  <2> QED
    BY <1>2, <2>1
<1> QED
  BY <1>1, <1>3

\* Rows, locks, retries and lists implement the registry of statuses: to a caller each
\* getRevocationData, revokeCredential and activateCredential that commits is one atomic step.
THEOREM StoreImplementsRegistry == ASSUME StoreAssumption PROVE Spec => ImplementsRegistry
<1>1. Init => Registry!Init
  BY RegistryInit
<1>2. StoreInv /\ StoreInv' /\ [Next]_vars => [Registry!Next]_(Registry!vars)
  BY RegistryStep
<1> QED
  BY <1>1, <1>2, StoreInvAlways, PTL DEF Spec, ImplementsRegistry, Registry!Spec
=============================================================================
