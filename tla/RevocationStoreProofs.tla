------------------------ MODULE RevocationStoreProofs ------------------------
(***************************************************************************)
(* Theorems about RevocationStore, for every set of issuers and requests,  *)
(* every set of list lengths and every number of retries.                  *)
(***************************************************************************)
EXTENDS RevocationStore, TLAPS

-----------------------------------------------------------------------------
(* Type correctness.  What a request holds in its entity, key and page has *)
(* a type only from the step on that fills it, so the type invariant is    *)
(* inductive only together with what each program point implies.           *)

IssuePCs == {"lockData", "findData", "insertData", "saveData", "updateData",
             "lockList", "findList", "insertList", "saveList"}
ChangePCs == {"check", "lockPath", "findPath"}
SavePCs == {"updateList", "commit"}

PointOK(r) ==
    /\ pc[r] \in IssuePCs => op[r] \in IssueOps
    /\ pc[r] \in ChangePCs => op[r] \in ChangeOps
    /\ pc[r] \in SavePCs => op[r] \in IssueOps \cup ChangeOps
    /\ pc[r] \in (IssuePCs \cup SavePCs) \ {"lockData", "findData"} /\ op[r] \in IssueOps
          => entity[r] \in DataRows
    /\ pc[r] \in {"findList", "insertList", "saveList"} \cup SavePCs => key[r] \in ListKeys
    /\ pc[r] \in {"insertList", "saveList"} \cup SavePCs => page[r] \in ListRows
    /\ pc[r] = "saveData" => op[r].issuer \in DOMAIN data
    /\ pc[r] = "saveList" => key[r] \in DOMAIN lists
    /\ pc[r] \in ChangePCs \cup SavePCs /\ op[r] \in ChangeOps
          => status[op[r].target] \in Statuses

TypeInv == TypeOK /\ \A r \in Requests : PointOK(r)

\* The counters of a row and those that follow it are counters.
LEMMA NextRowType ==
    ASSUME NEW row \in DataRows, NEW len \in BitLengths
    PROVE  NextRow(row, len) \in DataRows
BY DEF NextRow, DataRows

LEMMA FirstRowType ==
    ASSUME NEW len \in BitLengths
    PROVE  FirstRow(len) \in DataRows
BY DEF FirstRow, DataRows

LEMMA LockDataType ==
    ASSUME TypeInv, NEW r \in Requests, LockRevocationData(r)
    PROVE  TypeInv'
<1> DEFINE i == op[r].issuer
<1>1. op[r] \in IssueOps /\ i \in Issuers
  BY DEF TypeInv, PointOK, LockRevocationData, IssuePCs, IssueOps
<1>2. TypeOK'
  <2>1. shared' \in [Requests -> SUBSET Rows]
    BY <1>1 DEF TypeInv, TypeOK, LockRevocationData, Rows, DataRow
  <2>2. pc' \in [Requests -> PCs]
    BY DEF TypeInv, TypeOK, LockRevocationData, PCs
  <2> QED
    BY <2>1, <2>2 DEF TypeInv, TypeOK, LockRevocationData, tables, local, history
<1>3. \A q \in Requests : PointOK(q)'
  BY <1>1 DEF TypeInv, TypeOK, PointOK, LockRevocationData, IssuePCs, ChangePCs, SavePCs,
              tables, local, history
<1> QED
  BY <1>2, <1>3 DEF TypeInv

LEMMA FindDataType ==
    ASSUME TypeInv, NEW r \in Requests, FindRevocationData(r)
    PROVE  TypeInv'
<1> DEFINE i == op[r].issuer
<1>1. op[r] \in IssueOps /\ i \in Issuers /\ op[r].len \in BitLengths
  BY DEF TypeInv, PointOK, FindRevocationData, IssuePCs, IssueOps
<1>2. entity'[r] \in DataRows
  BY <1>1, NextRowType, FirstRowType DEF TypeInv, TypeOK, FindRevocationData
<1>3. TypeOK'
  <2>1. entity' \in [Requests -> DataRows \cup {NoRow}]
    BY <1>2 DEF TypeInv, TypeOK, FindRevocationData
  <2>2. pc' \in [Requests -> PCs]
    BY DEF TypeInv, TypeOK, FindRevocationData, PCs
  <2> QED
    BY <2>1, <2>2 DEF TypeInv, TypeOK, FindRevocationData, tables, locks, history
<1>4. \A q \in Requests : PointOK(q)'
  BY <1>1, <1>2 DEF TypeInv, TypeOK, PointOK, FindRevocationData, IssuePCs, ChangePCs,
              SavePCs, tables, locks, history
<1> QED
  BY <1>3, <1>4 DEF TypeInv

LEMMA ThrowType ==
    ASSUME TypeInv, NEW r \in Requests, NEW answer \in {"already", "error"},
           Throw(r, answer)
    PROVE  TypeInv'
<1>1. TypeOK'
  BY DEF TypeInv, TypeOK, Throw, Finish, Release, PCs, tables, local, history
<1>2. \A q \in Requests : PointOK(q)'
  BY DEF TypeInv, TypeOK, PointOK, Throw, Finish, Release, IssuePCs, ChangePCs, SavePCs,
         tables, local, history
<1> QED
  BY <1>1, <1>2 DEF TypeInv

LEMMA ArriveType ==
    ASSUME TypeInv, NEW r \in Requests, NEW o \in IssueOps \cup ChangeOps, Arrive(r, o)
    PROVE  TypeInv'
<1>1. TypeOK'
  BY DEF TypeInv, TypeOK, Arrive, Entry, PCs, tables, locks, local, history
<1>2. \/ o \in IssueOps /\ o.kind = "issue"
      \/ o \in ChangeOps /\ o.kind # "issue" /\ status[o.target] \in Statuses
  <2>1. CASE o \in IssueOps
    BY <2>1 DEF IssueOps
  <2>2. CASE o \in ChangeOps
    <3>1. o.kind # "issue" /\ o.target \in Credentials
      BY <2>2 DEF ChangeOps
    <3> QED
      BY <2>2, <3>1 DEF TypeInv, TypeOK, Arrive
  <2> QED
    BY <2>1, <2>2
<1>3. PointOK(r)'
  <2>1. op'[r] = o /\ pc'[r] = Entry(o.kind) /\ status' = status
    BY DEF TypeInv, TypeOK, Arrive, history
  <2> QED
    BY <1>2, <2>1 DEF PointOK, Entry, IssuePCs, ChangePCs, SavePCs, ChangeOps, IssueOps
<1>4. \A q \in Requests \ {r} : PointOK(q)'
  BY DEF TypeInv, TypeOK, PointOK, Arrive, tables, local, history
<1> QED
  BY <1>1, <1>3, <1>4 DEF TypeInv

LEMMA InsertDataType ==
    ASSUME TypeInv, NEW r \in Requests, InsertRevocationData(r)
    PROVE  TypeInv'
<1>1. CASE op[r].issuer \in DOMAIN data
  BY <1>1, ThrowType DEF InsertRevocationData
<1>2. CASE op[r].issuer \notin DOMAIN data
  <2>1. op[r] \in IssueOps /\ op[r].issuer \in Issuers
    BY DEF TypeInv, PointOK, InsertRevocationData, IssuePCs, IssueOps
  <2>2. TypeOK'
    BY <1>2, <2>1 DEF TypeInv, TypeOK, InsertRevocationData, PCs, Rows, DataRow, Columns,
                      tables, history
  <2>3. \A q \in Requests : PointOK(q)'
    BY <1>2, <2>1 DEF TypeInv, TypeOK, PointOK, InsertRevocationData, IssuePCs, ChangePCs,
                      SavePCs, tables, history
  <2> QED
    BY <2>2, <2>3 DEF TypeInv
<1> QED
  BY <1>1, <1>2

LEMMA SaveDataType ==
    ASSUME TypeInv, NEW r \in Requests, SaveRevocationData(r)
    PROVE  TypeInv'
<1>1. TypeOK'
  BY DEF TypeInv, TypeOK, SaveRevocationData, PCs, tables, locks, history
<1>2. \A q \in Requests : PointOK(q)'
  BY DEF TypeInv, TypeOK, PointOK, SaveRevocationData, IssuePCs, ChangePCs, SavePCs,
         tables, locks, history
<1> QED
  BY <1>1, <1>2 DEF TypeInv

LEMMA UpdateDataType ==
    ASSUME TypeInv, NEW r \in Requests, UpdateRevocationData(r)
    PROVE  TypeInv'
<1>1. op[r] \in IssueOps /\ op[r].issuer \in Issuers
  BY DEF TypeInv, PointOK, UpdateRevocationData, IssuePCs, IssueOps
<1>2. TypeOK'
  BY <1>1 DEF TypeInv, TypeOK, UpdateRevocationData, PCs, Rows, DataRow, tables, local,
              history
<1>3. \A q \in Requests : PointOK(q)'
  BY <1>1 DEF TypeInv, TypeOK, PointOK, UpdateRevocationData, IssuePCs, ChangePCs,
              SavePCs, tables, local, history
<1> QED
  BY <1>2, <1>3 DEF TypeInv

LEMMA LockListType ==
    ASSUME TypeInv, NEW r \in Requests, LockRevocationList(r)
    PROVE  TypeInv'
<1> DEFINE k == <<op[r].issuer, entity[r].list>>
<1>1. op[r] \in IssueOps /\ op[r].issuer \in Issuers
  BY DEF TypeInv, PointOK, LockRevocationList, IssuePCs, IssueOps
<1>2. entity[r] \in DataRows /\ entity[r].list \in Nat
  BY <1>1 DEF TypeInv, PointOK, LockRevocationList, IssuePCs, SavePCs, DataRows
<1>3. k \in ListKeys
  BY <1>1, <1>2 DEF ListKeys
<1>4. TypeOK'
  <2>1. ListRow(k) \in Rows
    BY <1>3 DEF Rows, ListRow
  <2>2. shared' \in [Requests -> SUBSET Rows]
    BY <2>1 DEF TypeInv, TypeOK, LockRevocationList
  <2>3. key' \in [Requests -> ListKeys \cup {NoRow}] /\ pc' \in [Requests -> PCs]
    BY <1>3 DEF TypeInv, TypeOK, LockRevocationList, PCs
  <2> QED
    BY <2>2, <2>3 DEF TypeInv, TypeOK, LockRevocationList, tables, history
<1>5. PointOK(r)'
  <2>1. /\ pc'[r] = "findList" /\ key'[r] \in ListKeys
        /\ op' = op /\ entity' = entity
    BY <1>3 DEF TypeInv, TypeOK, LockRevocationList
  <2> QED
    BY <1>1, <1>2, <2>1 DEF PointOK, IssuePCs, ChangePCs, SavePCs
<1>6. \A q \in Requests \ {r} : PointOK(q)'
  BY DEF TypeInv, TypeOK, PointOK, LockRevocationList, tables, history
<1> QED
  BY <1>4, <1>5, <1>6 DEF TypeInv

LEMMA FindListType ==
    ASSUME TypeInv, NEW r \in Requests, FindRevocationList(r)
    PROVE  TypeInv'
<1>1. op[r] \in IssueOps /\ op[r].len \in BitLengths
  BY DEF TypeInv, PointOK, FindRevocationList, IssuePCs, IssueOps
<1>2. [len |-> op[r].len, revoked |-> {}] \in ListRows
  BY <1>1, ConstantsAssumption DEF ListRows
<1>3. TypeOK'
  BY <1>2 DEF TypeInv, TypeOK, FindRevocationList, PCs, tables, locks, history
<1>4. PointOK(r)'
  <2>1. op' = op /\ entity' = entity /\ key' = key /\ lists' = lists
    BY DEF FindRevocationList, tables
  <2>2. page'[r] \in ListRows
    BY <1>2 DEF TypeInv, TypeOK, FindRevocationList
  <2>3. \/ pc'[r] = "saveList" /\ key[r] \in DOMAIN lists
        \/ pc'[r] = "insertList"
    BY DEF TypeInv, TypeOK, FindRevocationList
  <2>4. entity[r] \in DataRows /\ key[r] \in ListKeys
    BY <1>1 DEF TypeInv, PointOK, FindRevocationList, IssuePCs, SavePCs
  <2> QED
    BY <1>1, <2>1, <2>2, <2>3, <2>4 DEF PointOK, IssuePCs, ChangePCs, SavePCs
<1>5. \A q \in Requests \ {r} : PointOK(q)'
  BY DEF TypeInv, TypeOK, PointOK, FindRevocationList, tables, history
<1> QED
  BY <1>3, <1>4, <1>5 DEF TypeInv

LEMMA InsertListType ==
    ASSUME TypeInv, NEW r \in Requests, InsertRevocationList(r)
    PROVE  TypeInv'
<1>1. CASE key[r] \in DOMAIN lists
  BY <1>1, ThrowType DEF InsertRevocationList
<1>2. CASE key[r] \notin DOMAIN lists
  <2>1. op[r] \in IssueOps /\ key[r] \in ListKeys
    BY DEF TypeInv, PointOK, InsertRevocationList, IssuePCs
  <2>2. TypeOK'
    BY <1>2, <2>1 DEF TypeInv, TypeOK, InsertRevocationList, PCs, Rows, ListRow, tables,
                      local, history
  <2>3. \A q \in Requests : PointOK(q)'
    BY <1>2, <2>1 DEF TypeInv, TypeOK, PointOK, InsertRevocationList, IssuePCs, ChangePCs,
                      SavePCs, IssueOps, ChangeOps, tables, local, history
  <2> QED
    BY <2>2, <2>3 DEF TypeInv
<1> QED
  BY <1>1, <1>2

LEMMA SaveListType ==
    ASSUME TypeInv, NEW r \in Requests, SaveRevocationList(r)
    PROVE  TypeInv'
<1>1. op[r] \in IssueOps /\ op[r] \notin ChangeOps
  BY DEF TypeInv, PointOK, SaveRevocationList, IssuePCs, IssueOps, ChangeOps
<1>2. TypeOK'
  BY DEF TypeInv, TypeOK, SaveRevocationList, PCs, tables, locks, local, history
<1>3. \A q \in Requests : PointOK(q)'
  BY <1>1 DEF TypeInv, TypeOK, PointOK, SaveRevocationList, IssuePCs, ChangePCs,
              SavePCs, tables, locks, local, history
<1> QED
  BY <1>2, <1>3 DEF TypeInv

LEMMA UpdateListType ==
    ASSUME TypeInv, NEW r \in Requests, UpdateRevocationList(r)
    PROVE  TypeInv'
<1>1. key[r] \in ListKeys
  BY DEF TypeInv, PointOK, UpdateRevocationList, SavePCs
<1>2. TypeOK'
  BY <1>1 DEF TypeInv, TypeOK, UpdateRevocationList, PCs, Rows, ListRow, tables, local,
              history
<1>3. \A q \in Requests : PointOK(q)'
  BY DEF TypeInv, TypeOK, PointOK, UpdateRevocationList, IssuePCs, ChangePCs, SavePCs,
         tables, local, history
<1> QED
  BY <1>2, <1>3 DEF TypeInv

LEMMA CheckType ==
    ASSUME TypeInv, NEW r \in Requests, CheckStatus(r)
    PROVE  TypeInv'
<1>1. CASE Throw(r, "already")
  BY <1>1, ThrowType
<1>2. CASE ~Throw(r, "already")
  <2>1. /\ pc[r] = "check"
        /\ pc' = [pc EXCEPT ![r] = "lockPath"]
        /\ UNCHANGED <<tables, locks, op, retries, local, result, history>>
    BY <1>2 DEF CheckStatus
  <2>2. TypeOK'
    BY <2>1 DEF TypeInv, TypeOK, PCs, tables, locks, local, history
  <2>3. \A q \in Requests : PointOK(q)'
    BY <2>1 DEF TypeInv, TypeOK, PointOK, IssuePCs, ChangePCs, SavePCs, tables, locks,
                local, history
  <2> QED
    BY <2>2, <2>3 DEF TypeInv
<1> QED
  BY <1>1, <1>2

LEMMA LockPathType ==
    ASSUME TypeInv, NEW r \in Requests, LockPath(r)
    PROVE  TypeInv'
<1>1. PICK k \in PathKeys(status[op[r].target]) :
        shared' = [shared EXCEPT ![r] = shared[r] \cup {ListRow(k)}]
  BY DEF LockPath
<1>2. k \in ListKeys /\ ListRow(k) \in Rows
  BY <1>1 DEF TypeInv, TypeOK, PathKeys, Rows, ListRow
<1>3. TypeOK'
  <2>1. shared' \in [Requests -> SUBSET Rows]
    BY <1>1, <1>2 DEF TypeInv, TypeOK
  <2> QED
    BY <2>1 DEF TypeInv, TypeOK, LockPath, PCs, tables, local, history
<1>4. \A q \in Requests : PointOK(q)'
  BY DEF TypeInv, TypeOK, PointOK, LockPath, IssuePCs, ChangePCs, SavePCs, tables, local,
         history
<1> QED
  BY <1>3, <1>4 DEF TypeInv

LEMMA UpdateVCType ==
    ASSUME TypeInv, NEW r \in Requests, UpdateRevocationListVC(r)
    PROVE  TypeInv'
<1> DEFINE s == status[op[r].target]
           flipped(k) == [lists[k] EXCEPT !.revoked =
                            IF op[r].kind = "revoke" THEN @ \cup {s.index}
                                                     ELSE @ \ {s.index}]
<1>1. CASE Throw(r, "error")
  BY <1>1, ThrowType
<1>2. CASE ~Throw(r, "error")
  <2>1. PICK k \in PathKeys(s) :
          /\ key' = [key EXCEPT ![r] = k]
          /\ page' = [page EXCEPT ![r] = flipped(k)]
          /\ pc' = [pc EXCEPT ![r] = "updateList"]
          /\ UNCHANGED <<tables, locks, op, retries, entity, dirty, result, history>>
    BY <1>2 DEF UpdateRevocationListVC
  <2>2. op[r] \in ChangeOps /\ op[r] \notin IssueOps /\ s \in Statuses
    BY DEF TypeInv, PointOK, UpdateRevocationListVC, ChangePCs, ChangeOps, IssueOps
  <2>3. k \in ListKeys /\ lists[k] \in ListRows
    BY DEF TypeInv, TypeOK, PathKeys
  <2>4. flipped(k) \in ListRows
    BY <2>2, <2>3 DEF ListRows, Statuses
  <2>5. TypeOK'
    BY <2>1, <2>3, <2>4 DEF TypeInv, TypeOK, PCs, tables, locks, history
  <2>6. PointOK(r)'
    <3>1. pc'[r] = "updateList" /\ key'[r] \in ListKeys /\ page'[r] \in ListRows
      BY <2>1, <2>3, <2>4 DEF TypeInv, TypeOK
    <3> QED
      BY <2>1, <2>2, <3>1 DEF PointOK, IssuePCs, ChangePCs, SavePCs, history
  <2>7. \A q \in Requests \ {r} : PointOK(q)'
    BY <2>1 DEF TypeInv, TypeOK, PointOK, tables, history
  <2> QED
    BY <2>5, <2>6, <2>7 DEF TypeInv
<1> QED
  BY <1>1, <1>2

LEMMA OverlayType ==
    ASSUME NEW row \in DataRows, NEW new \in DataRows, NEW columns
    PROVE  Overlay(row, new, columns) \in DataRows
BY DEF Overlay, DataRows, Columns

LEMMA CommitType ==
    ASSUME TypeInv, NEW r \in Requests, Commit(r)
    PROVE  TypeInv'
<1> DEFINE i == op[r].issuer
<1>1. /\ op[r] \in IssueOps \cup ChangeOps
      /\ key[r] \in ListKeys /\ page[r] \in ListRows
  BY DEF TypeInv, PointOK, Commit, SavePCs
<1>2. op[r] \in IssueOps => i \in Issuers /\ entity[r] \in DataRows /\ op[r].kind = "issue"
  BY DEF TypeInv, PointOK, Commit, SavePCs, IssueOps
<1>3. op[r] \in ChangeOps => op[r].target \in Credentials /\ op[r].kind # "issue"
  BY DEF ChangeOps
<1>4. /\ DOMAIN data' \subseteq Issuers /\ DOMAIN data \subseteq DOMAIN data'
      /\ \A j \in DOMAIN data' : data'[j] \in DataRows
  <2>1. CASE data' = data
    BY <2>1 DEF TypeInv, TypeOK
  <2>2. CASE data' # data
    <3>1. op[r] \in IssueOps
      BY <1>1, <1>3, <2>2 DEF Commit
    <3>2. PICK new \in DataRows : data' = Put(data, i, new)
      BY <1>2, <2>2, <3>1, OverlayType DEF Commit, TypeInv, TypeOK
    <3> QED
      BY <1>2, <3>1, <3>2 DEF Put, TypeInv, TypeOK
  <2> QED
    BY <2>1, <2>2
<1>5. /\ DOMAIN lists' \subseteq ListKeys /\ DOMAIN lists \subseteq DOMAIN lists'
      /\ \A k \in DOMAIN lists' : lists'[k] \in ListRows
  BY <1>1 DEF Commit, Put, TypeInv, TypeOK
<1>6. status' \in [Credentials -> Statuses \cup {NoRow}]
  <2>1. CASE op[r] \in IssueOps
    <3>1. StatusOf(r) \in Statuses
      BY <1>2, <2>1 DEF StatusOf, Statuses, DataRows
    <3> QED
      BY <1>2, <2>1, <3>1 DEF Commit, TypeInv, TypeOK
  <2>2. CASE op[r] \in ChangeOps
    BY <1>3, <2>2 DEF Commit, TypeInv, TypeOK
  <2> QED
    BY <1>1, <2>1, <2>2
<1>7. intent' \in [Credentials -> BOOLEAN]
  BY <1>1, <1>2, <1>3 DEF Commit, TypeInv, TypeOK
<1>8. TypeOK'
  BY <1>4, <1>5, <1>6, <1>7 DEF Commit, Finish, Release, TypeInv, TypeOK, PCs, local
<1>9. \A q \in Requests : PointOK(q)'
  <2>1. \A c \in Credentials : status[c] \in Statuses => status'[c] \in Statuses
    <3>1. CASE op[r] \in IssueOps
      <4>1. StatusOf(r) \in Statuses
        BY <1>2, <3>1 DEF StatusOf, Statuses, DataRows
      <4> QED
        BY <1>2, <3>1, <4>1 DEF Commit, TypeInv, TypeOK
    <3>2. CASE op[r] \in ChangeOps
      BY <1>3, <3>2 DEF Commit
    <3> QED
      BY <1>1, <3>1, <3>2
  <2>2. \A q \in Requests : op[q] \in ChangeOps => op[q].target \in Credentials
    BY DEF ChangeOps
  <2>3. PointOK(r)'
    BY DEF PointOK, Commit, Finish, TypeInv, TypeOK, IssuePCs, ChangePCs, SavePCs
  <2>4. \A q \in Requests \ {r} : PointOK(q)'
    BY <1>4, <1>5, <2>1, <2>2 DEF PointOK, Commit, Finish, TypeInv, TypeOK, local
  <2> QED
    BY <2>3, <2>4
<1> QED
  BY <1>8, <1>9 DEF TypeInv

LEMMA DeadlockedType ==
    ASSUME TypeInv, NEW r \in Requests, Deadlocked(r)
    PROVE  TypeInv'
<1>1. pc[r] \notin {"idle", "done"}
  <2> SUFFICES ASSUME pc[r] \in {"idle", "done"} PROVE FALSE
    OBVIOUS
  <2>1. Blockers(r) = {}
    BY DEF Blockers
  <2> QED
    BY <2>1 DEF Deadlocked, InDeadlock
<1>2. op[r] \in IssueOps \cup ChangeOps
  BY <1>1 DEF TypeInv, TypeOK, PointOK, PCs, IssuePCs, ChangePCs, SavePCs
<1>3. Entry(op[r].kind) \in {"lockData", "check"}
  BY DEF Entry
<1>4. TypeOK'
  BY <1>3 DEF Deadlocked, Finish, Release, TypeInv, TypeOK, PCs, tables, local, history
<1>5. PointOK(r)'
  <2>1. op' = op /\ status' = status
    BY DEF Deadlocked, history
  <2>2. CASE pc'[r] = "done"
    BY <2>2 DEF PointOK, IssuePCs, ChangePCs, SavePCs
  <2>3. CASE pc'[r] = Entry(op[r].kind)
    <3>1. CASE op[r] \in IssueOps
      <4>1. op[r].kind = "issue"
        BY <3>1 DEF IssueOps
      <4> QED
        BY <2>1, <2>3, <3>1, <4>1 DEF PointOK, Entry, IssuePCs, ChangePCs, SavePCs
    <3>2. CASE op[r] \in ChangeOps
      <4>1. op[r].kind # "issue"
        BY <3>2 DEF ChangeOps
      <4>2. pc[r] \in ChangePCs \cup SavePCs
        <5>1. pc[r] \notin IssuePCs
          BY <3>2 DEF TypeInv, PointOK, IssueOps, ChangeOps
        <5> QED
          BY <1>1, <5>1 DEF TypeInv, TypeOK, PCs, IssuePCs, ChangePCs, SavePCs
      <4> QED
        BY <2>1, <2>3, <3>2, <4>1, <4>2
           DEF TypeInv, PointOK, Entry, IssuePCs, ChangePCs, SavePCs
    <3> QED
      BY <1>2, <3>1, <3>2
  <2> QED
    BY <2>2, <2>3 DEF Deadlocked, Finish, TypeInv, TypeOK
<1>6. \A q \in Requests \ {r} : PointOK(q)'
  BY DEF Deadlocked, Finish, TypeInv, TypeOK, PointOK, tables, local, history
<1> QED
  BY <1>4, <1>5, <1>6 DEF TypeInv

LEMMA TypeInvInit == Init => TypeInv
<1> SUFFICES ASSUME Init PROVE TypeInv
  OBVIOUS
<1> USE ConstantsAssumption
<1>1. FirstRow(SeedLength) \in DataRows
  BY FirstRowType
<1>2. [len |-> SeedLength, revoked |-> {}] \in ListRows
  BY DEF ListRows
<1>3. DOMAIN data \subseteq Issuers /\ \A i \in DOMAIN data : data[i] \in DataRows
  BY <1>1 DEF Init
<1>4. DOMAIN lists \subseteq ListKeys /\ \A k \in DOMAIN lists : lists[k] \in ListRows
  BY <1>2 DEF Init, ListKeys
<1>5. status \in [Credentials -> Statuses \cup {NoRow}]
  <2>1. \A c \in Seeded : [issuer |-> c, list |-> 0, index |-> 0] \in Statuses
    BY DEF Statuses
  <2> QED
    BY <2>1 DEF Init, Credentials
<1>6. TypeOK
  BY <1>3, <1>4, <1>5 DEF Init, TypeOK, PCs
<1>7. \A r \in Requests : PointOK(r)
  BY DEF Init, PointOK, IssuePCs, ChangePCs, SavePCs
<1> QED
  BY <1>6, <1>7 DEF TypeInv

LEMMA TypeInvNext == TypeInv /\ [Next]_vars => TypeInv'
<1> SUFFICES ASSUME TypeInv, [Next]_vars PROVE TypeInv'
  OBVIOUS
<1>1. CASE UNCHANGED vars
  BY <1>1 DEF vars, TypeInv, TypeOK, PointOK
<1>2. CASE Next
  <2>1. PICK r \in Requests :
          \/ \E o \in IssueOps \cup ChangeOps : Arrive(r, o)
          \/ Step(r)
          \/ Deadlocked(r)
          \/ Fail(r)
    BY <1>2 DEF Next
  <2>2. ASSUME NEW o \in IssueOps \cup ChangeOps, Arrive(r, o) PROVE TypeInv'
    BY <2>2, ArriveType
  <2>3. CASE Step(r)
    BY <2>3, LockDataType, FindDataType, InsertDataType, SaveDataType, UpdateDataType,
       LockListType, FindListType, InsertListType, SaveListType, UpdateListType,
       CheckType, LockPathType, UpdateVCType, CommitType DEF Step
  <2>4. CASE Deadlocked(r)
    BY <2>4, DeadlockedType
  <2>5. CASE Fail(r)
    BY <2>5, ThrowType DEF Fail
  <2> QED
    BY <2>1, <2>2, <2>3, <2>4, <2>5
<1> QED
  BY <1>1, <1>2

\* Whatever requests interleave, fail and start over, the tables, the locks and the
\* state of every request keep their types (RevocationDataStore, its callers).
THEOREM TypeCorrect == Spec => []TypeOK
<1>1. Spec => []TypeInv
  BY TypeInvInit, TypeInvNext, PTL DEF Spec
<1>2. TypeInv => TypeOK
  BY DEF TypeInv
<1> QED
  BY <1>1, <1>2, PTL

-----------------------------------------------------------------------------
(* Why the row locks keep statuses apart, for issuers whose rows exist     *)
(* when the behaviour starts (Seeded = Issuers): a row that does not exist *)
(* yet cannot be locked, and without a lock two of the theorems are false  *)
(* (run first_issue_race).                                                 *)
(*                                                                         *)
(* What holds at each program point of an issuance: it shares the row from *)
(* the lock to the update and holds it alone from the update to the end,   *)
(* so the counters it computed still follow those in the table.            *)

HeldPCs == {"lockList", "findList", "insertList", "saveList", "updateList", "commit"}

EntityIsNext(r) == entity[r] = NextRow(data[op[r].issuer], op[r].len)
DirtyCovers(r) == \A f \in Columns \ dirty[r] : entity[r][f] = data[op[r].issuer][f]

CounterPoint(r) ==
    /\ pc[r] # "insertData"
    /\ pc[r] \in {"findData", "saveData", "updateData"} => DataRow(op[r].issuer) \in shared[r]
    /\ pc[r] \in {"saveData", "updateData"} => EntityIsNext(r)
    /\ pc[r] = "updateData" => DirtyCovers(r)
    /\ pc[r] \in HeldPCs /\ op[r] \in IssueOps =>
          DataRow(op[r].issuer) \in excl[r] /\ EntityIsNext(r) /\ DirtyCovers(r)

\* A written row is held by nobody else.
Exclusive ==
    \A r, q \in Requests : r # q =>
        \A row \in excl[r] : row \notin shared[q] /\ row \notin excl[q]

\* Only rows that exist are shared.
PresentRows == {DataRow(i) : i \in DOMAIN data} \cup {ListRow(k) : k \in DOMAIN lists}
SharedExist == \A r \in Requests : shared[r] \subseteq PresentRows

\* The counters have reached every status that was given.
Reached(s, row) == s.list < row.list \/ (s.list = row.list /\ s.index <= row.index)

StatusesReached ==
    \A c \in Credentials : status[c] # NoRow => Reached(status[c], data[status[c].issuer])

CounterInv ==
    /\ DOMAIN data = Issuers
    /\ Exclusive
    /\ SharedExist
    /\ \A r \in Requests : CounterPoint(r)
    /\ StatusesReached
    /\ UniqueStatus

-----------------------------------------------------------------------------
(* A step of one request leaves the state of the others alone.             *)

OthersKept(r) ==
    \A q \in Requests \ {r} :
        /\ pc'[q] = pc[q] /\ op'[q] = op[q]
        /\ shared'[q] = shared[q] /\ excl'[q] = excl[q]
        /\ entity'[q] = entity[q] /\ dirty'[q] = dirty[q]
        /\ key'[q] = key[q] /\ page'[q] = page[q]

\* No row r may hold is held by another request in a way that conflicts.
NoConflict(r) ==
    \A q \in Requests \ {r} :
        /\ \A row \in excl'[r] : row \notin shared[q] /\ row \notin excl[q]
        /\ \A row \in shared'[r] : row \notin excl[q]

LEMMA ExclusiveKept ==
    ASSUME Exclusive, NEW r \in Requests, OthersKept(r), NoConflict(r)
    PROVE  Exclusive'
BY DEF Exclusive, OthersKept, NoConflict

LEMMA OtherPointsKept ==
    ASSUME \A q \in Requests : CounterPoint(q), NEW r \in Requests, OthersKept(r), data' = data
    PROVE  \A q \in Requests \ {r} : CounterPoint(q)'
BY DEF CounterPoint, OthersKept, EntityIsNext, DirtyCovers

\* A step that changes neither tables nor statuses need only answer for its own
\* request.
LEMMA QuietStep ==
    ASSUME CounterInv, NEW r \in Requests, OthersKept(r), NoConflict(r),
           UNCHANGED <<data, lists, status>>,
           shared'[r] \subseteq PresentRows,
           CounterPoint(r)'
    PROVE  CounterInv'
<1>1. Exclusive'
  BY ExclusiveKept DEF CounterInv
<1>2. SharedExist'
  BY DEF CounterInv, SharedExist, OthersKept, PresentRows
<1>3. \A q \in Requests : CounterPoint(q)'
  BY OtherPointsKept DEF CounterInv
<1> QED
  BY <1>1, <1>2, <1>3 DEF CounterInv, StatusesReached, UniqueStatus

\* A step that also takes no lock.
LEMMA LocklessStep ==
    ASSUME CounterInv, NEW r \in Requests, OthersKept(r),
           UNCHANGED <<data, lists, status, shared, excl>>, CounterPoint(r)'
    PROVE  CounterInv'
<1>1. NoConflict(r)
  BY DEF CounterInv, Exclusive, NoConflict
<1>2. shared'[r] \subseteq PresentRows
  BY DEF CounterInv, SharedExist
<1> QED
  BY <1>1, <1>2, QuietStep

-----------------------------------------------------------------------------
(* Each action keeps CounterInv.                                           *)

LEMMA ThrowCounters ==
    ASSUME TypeInv, CounterInv, NEW r \in Requests, NEW answer, Throw(r, answer)
    PROVE  CounterInv'
<1>1. OthersKept(r) /\ UNCHANGED <<data, lists, status>>
  BY DEF Throw, Finish, Release, TypeInv, TypeOK, OthersKept, tables, local, history
<1>2. shared'[r] = {} /\ excl'[r] = {} /\ pc'[r] = "done"
  BY DEF Throw, Finish, Release, TypeInv, TypeOK
<1>3. NoConflict(r) /\ CounterPoint(r)'
  BY <1>2 DEF NoConflict, CounterPoint, HeldPCs
<1> QED
  BY <1>1, <1>2, <1>3, QuietStep

LEMMA ArriveCounters ==
    ASSUME TypeInv, CounterInv, NEW r \in Requests, NEW o, Arrive(r, o)
    PROVE  CounterInv'
<1>1. OthersKept(r) /\ UNCHANGED <<data, lists, status, shared, excl>>
  BY DEF Arrive, TypeInv, TypeOK, OthersKept, tables, locks, local, history
<1>2. pc'[r] \in {"lockData", "check"}
  BY DEF Arrive, Entry, TypeInv, TypeOK
<1>3. CounterPoint(r)'
  BY <1>2 DEF CounterPoint, HeldPCs
<1> QED
  BY <1>1, <1>3, LocklessStep

LEMMA LockDataCounters ==
    ASSUME TypeInv, CounterInv, NEW r \in Requests, LockRevocationData(r)
    PROVE  CounterInv'
<1> DEFINE i == op[r].issuer
<1>1. op[r] \in IssueOps /\ i \in DOMAIN data
  BY DEF TypeInv, PointOK, LockRevocationData, CounterInv, IssuePCs, IssueOps
<1>2. OthersKept(r) /\ UNCHANGED <<data, lists, status>> /\ excl' = excl
  BY DEF LockRevocationData, TypeInv, TypeOK, OthersKept, tables, local, history
<1>3. shared'[r] = shared[r] \cup {DataRow(i)}
  BY <1>1 DEF LockRevocationData, TypeInv, TypeOK
<1>4. \A q \in Requests \ {r} : DataRow(i) \notin excl[q]
  BY DEF LockRevocationData, Blockers, Writers
<1>5. NoConflict(r)
  BY <1>2, <1>3, <1>4 DEF NoConflict, CounterInv, Exclusive
<1>6. shared'[r] \subseteq PresentRows
  BY <1>1, <1>3 DEF PresentRows, CounterInv, SharedExist
<1>7. CounterPoint(r)'
  <2>1. pc'[r] = "findData" /\ op' = op
    BY DEF LockRevocationData, TypeInv, TypeOK
  <2> QED
    BY <1>3, <2>1 DEF CounterPoint, HeldPCs
<1> QED
  BY <1>2, <1>5, <1>6, <1>7, QuietStep

LEMMA FindDataCounters ==
    ASSUME TypeInv, CounterInv, NEW r \in Requests, FindRevocationData(r)
    PROVE  CounterInv'
<1>1. op[r] \in IssueOps /\ op[r].issuer \in DOMAIN data
  BY DEF TypeInv, PointOK, FindRevocationData, CounterInv, IssuePCs, IssueOps
<1>2. OthersKept(r) /\ UNCHANGED <<data, lists, status, shared, excl>>
  BY DEF FindRevocationData, TypeInv, TypeOK, OthersKept, tables, locks, history
<1>3. CounterPoint(r)'
  <2>1. /\ pc'[r] = "saveData" /\ op' = op /\ data' = data /\ shared' = shared
        /\ entity'[r] = NextRow(data[op[r].issuer], op[r].len)
    BY <1>1 DEF FindRevocationData, TypeInv, TypeOK, tables, locks
  <2>2. DataRow(op[r].issuer) \in shared[r]
    BY DEF FindRevocationData, CounterInv, CounterPoint
  <2> QED
    BY <2>1, <2>2 DEF CounterPoint, HeldPCs, EntityIsNext
<1> QED
  BY <1>2, <1>3, LocklessStep

LEMMA InsertDataCounters ==
    ASSUME TypeInv, CounterInv, NEW r \in Requests, InsertRevocationData(r)
    PROVE  CounterInv'
BY DEF InsertRevocationData, CounterInv, CounterPoint

\* The next counters are always beyond the present ones.
LEMMA NextRowBeyond ==
    ASSUME NEW row \in DataRows, NEW len \in BitLengths
    PROVE  Before(row, NextRow(row, len))
BY DEF NextRow, DataRows, Before

LEMMA SaveDataCounters ==
    ASSUME TypeInv, CounterInv, NEW r \in Requests, SaveRevocationData(r)
    PROVE  CounterInv'
<1> DEFINE row == data[op[r].issuer]
           changed == {f \in Columns : entity[r][f] # row[f]}
<1>1. op[r] \in IssueOps /\ row \in DataRows /\ op[r].len \in BitLengths
  BY DEF TypeInv, TypeOK, PointOK, SaveRevocationData, IssuePCs, IssueOps
<1>2. OthersKept(r) /\ UNCHANGED <<data, lists, status, shared, excl>>
  BY DEF SaveRevocationData, TypeInv, TypeOK, OthersKept, tables, locks, history
<1>3. EntityIsNext(r) /\ DataRow(op[r].issuer) \in shared[r]
  BY DEF SaveRevocationData, CounterInv, CounterPoint
<1>4. changed # {}
  <2>1. Before(row, entity[r])
    BY <1>1, <1>3, NextRowBeyond DEF EntityIsNext
  <2>2. entity[r].list # row.list \/ entity[r].index # row.index
    BY <1>1, <2>1 DEF Before, DataRows
  <2> QED
    BY <2>2 DEF Columns
<1>5. CounterPoint(r)'
  <2>1. /\ pc'[r] = "updateData" /\ dirty'[r] = changed
        /\ op' = op /\ data' = data /\ shared' = shared /\ entity' = entity
    BY <1>4 DEF SaveRevocationData, TypeInv, TypeOK, tables, locks
  <2> QED
    BY <1>3, <2>1 DEF CounterPoint, HeldPCs, EntityIsNext, DirtyCovers
<1> QED
  BY <1>2, <1>5, LocklessStep

LEMMA UpdateDataCounters ==
    ASSUME TypeInv, CounterInv, NEW r \in Requests, UpdateRevocationData(r)
    PROVE  CounterInv'
<1> DEFINE row == DataRow(op[r].issuer)
<1>1. OthersKept(r) /\ UNCHANGED <<data, lists, status>> /\ shared' = shared
  BY DEF UpdateRevocationData, TypeInv, TypeOK, OthersKept, tables, local, history
<1>2. excl'[r] = excl[r] \cup {row}
  BY DEF UpdateRevocationData, TypeInv, TypeOK
<1>3. \A q \in Requests \ {r} : row \notin excl[q] /\ row \notin shared[q]
  BY DEF UpdateRevocationData, Blockers, Sharers, Writers
<1>4. NoConflict(r)
  BY <1>1, <1>2, <1>3 DEF NoConflict, CounterInv, Exclusive
<1>5. CounterPoint(r)'
  <2>1. /\ pc'[r] = "lockList" /\ op' = op /\ data' = data
        /\ entity' = entity /\ dirty' = dirty
    BY DEF UpdateRevocationData, TypeInv, TypeOK, tables, local
  <2>2. EntityIsNext(r) /\ DirtyCovers(r)
    BY DEF UpdateRevocationData, CounterInv, CounterPoint
  <2> QED
    BY <1>2, <2>1, <2>2 DEF CounterPoint, HeldPCs, EntityIsNext, DirtyCovers
<1>6. shared'[r] \subseteq PresentRows
  BY <1>1 DEF CounterInv, SharedExist
<1> QED
  BY <1>1, <1>4, <1>5, <1>6, QuietStep

\* Between its update and its commit a request keeps the row it has written and the
\* counters it has computed.
LEMMA HeldPointKept ==
    ASSUME NEW r \in Requests, CounterPoint(r), pc[r] \in HeldPCs, pc'[r] \in HeldPCs,
           op' = op, data' = data, entity' = entity, dirty' = dirty,
           excl[r] \subseteq excl'[r]
    PROVE  CounterPoint(r)'
BY DEF CounterPoint, HeldPCs, EntityIsNext, DirtyCovers

LEMMA LockListCounters ==
    ASSUME TypeInv, CounterInv, NEW r \in Requests, LockRevocationList(r)
    PROVE  CounterInv'
<1> DEFINE k == <<op[r].issuer, entity[r].list>>
<1>1. OthersKept(r) /\ UNCHANGED <<data, lists, status>> /\ excl' = excl
  BY DEF LockRevocationList, TypeInv, TypeOK, OthersKept, tables, history
<1>2. shared'[r] = IF k \in DOMAIN lists THEN shared[r] \cup {ListRow(k)} ELSE shared[r]
  BY DEF LockRevocationList, TypeInv, TypeOK
<1>3. \A q \in Requests \ {r} : ListRow(k) \notin excl[q]
  BY DEF LockRevocationList, Blockers, Writers
<1>4. NoConflict(r)
  BY <1>1, <1>2, <1>3 DEF NoConflict, CounterInv, Exclusive
<1>5. shared'[r] \subseteq PresentRows
  BY <1>2 DEF PresentRows, CounterInv, SharedExist
<1>6. CounterPoint(r)'
  BY <1>1, HeldPointKept
     DEF LockRevocationList, HeldPCs, TypeInv, TypeOK, CounterInv, tables
<1> QED
  BY <1>1, <1>4, <1>5, <1>6, QuietStep

LEMMA FindListCounters ==
    ASSUME TypeInv, CounterInv, NEW r \in Requests, FindRevocationList(r)
    PROVE  CounterInv'
<1>1. OthersKept(r) /\ UNCHANGED <<data, lists, status, shared, excl>>
  BY DEF FindRevocationList, TypeInv, TypeOK, OthersKept, tables, locks, history
<1>2. pc[r] = "findList" /\ pc'[r] \in {"saveList", "insertList"}
  BY DEF FindRevocationList, TypeInv, TypeOK
<1>3. CounterPoint(r)'
  BY <1>1, <1>2, HeldPointKept DEF FindRevocationList, HeldPCs, CounterInv
<1> QED
  BY <1>1, <1>3, LocklessStep

LEMMA InsertListCounters ==
    ASSUME TypeInv, CounterInv, NEW r \in Requests, InsertRevocationList(r)
    PROVE  CounterInv'
<1> DEFINE k == key[r]
<1>1. CASE k \in DOMAIN lists
  BY <1>1, ThrowCounters DEF InsertRevocationList
<1>2. CASE k \notin DOMAIN lists
  <2>1. OthersKept(r) /\ UNCHANGED <<data, lists, status>> /\ shared' = shared
    BY <1>2 DEF InsertRevocationList, TypeInv, TypeOK, OthersKept, tables, local, history
  <2>2. excl'[r] = excl[r] \cup {ListRow(k)}
    BY <1>2 DEF InsertRevocationList, TypeInv, TypeOK
  <2>3. \A q \in Requests \ {r} : ListRow(k) \notin excl[q]
    BY DEF InsertRevocationList, Blockers, Writers
  <2>4. \A q \in Requests \ {r} : ListRow(k) \notin shared[q]
    <3>1. ListRow(k) \notin PresentRows
      BY <1>2 DEF PresentRows, ListRow, DataRow
    <3> QED
      BY <3>1 DEF CounterInv, SharedExist
  <2>5. NoConflict(r)
    BY <2>1, <2>2, <2>3, <2>4 DEF NoConflict, CounterInv, Exclusive
  <2>6. CounterPoint(r)'
    BY <1>2, <2>1, <2>2, HeldPointKept
       DEF InsertRevocationList, HeldPCs, TypeInv, TypeOK, CounterInv, local
  <2>7. shared'[r] \subseteq PresentRows
    BY <2>1 DEF CounterInv, SharedExist
  <2> QED
    BY <2>1, <2>5, <2>6, <2>7, QuietStep
<1> QED
  BY <1>1, <1>2

LEMMA SaveListCounters ==
    ASSUME TypeInv, CounterInv, NEW r \in Requests, SaveRevocationList(r)
    PROVE  CounterInv'
<1>1. OthersKept(r) /\ UNCHANGED <<data, lists, status, shared, excl>>
  BY DEF SaveRevocationList, TypeInv, TypeOK, OthersKept, tables, locks, local, history
<1>2. pc[r] = "saveList" /\ pc'[r] \in {"commit", "updateList"}
  BY DEF SaveRevocationList, TypeInv, TypeOK
<1>3. CounterPoint(r)'
  BY <1>1, <1>2, HeldPointKept DEF SaveRevocationList, HeldPCs, CounterInv, local
<1> QED
  BY <1>1, <1>3, LocklessStep

LEMMA UpdateListCounters ==
    ASSUME TypeInv, CounterInv, NEW r \in Requests, UpdateRevocationList(r)
    PROVE  CounterInv'
<1> DEFINE row == ListRow(key[r])
<1>1. OthersKept(r) /\ UNCHANGED <<data, lists, status>> /\ shared' = shared
  BY DEF UpdateRevocationList, TypeInv, TypeOK, OthersKept, tables, local, history
<1>2. excl'[r] = excl[r] \cup {row}
  BY DEF UpdateRevocationList, TypeInv, TypeOK
<1>3. \A q \in Requests \ {r} : row \notin excl[q] /\ row \notin shared[q]
  BY DEF UpdateRevocationList, Blockers, Sharers, Writers
<1>4. NoConflict(r)
  BY <1>1, <1>2, <1>3 DEF NoConflict, CounterInv, Exclusive
<1>5. CounterPoint(r)'
  BY <1>1, <1>2, HeldPointKept
     DEF UpdateRevocationList, HeldPCs, TypeInv, TypeOK, CounterInv, local
<1>6. shared'[r] \subseteq PresentRows
  BY <1>1 DEF CounterInv, SharedExist
<1> QED
  BY <1>1, <1>4, <1>5, <1>6, QuietStep

LEMMA CheckCounters ==
    ASSUME TypeInv, CounterInv, NEW r \in Requests, CheckStatus(r)
    PROVE  CounterInv'
<1>1. CASE Throw(r, "already")
  BY <1>1, ThrowCounters
<1>2. CASE ~Throw(r, "already")
  <2>1. /\ pc' = [pc EXCEPT ![r] = "lockPath"]
        /\ UNCHANGED <<tables, locks, op, retries, local, result, history>>
    BY <1>2 DEF CheckStatus
  <2>2. OthersKept(r) /\ UNCHANGED <<data, lists, status, shared, excl>>
    BY <2>1 DEF TypeInv, TypeOK, OthersKept, tables, locks, local, history
  <2>3. CounterPoint(r)'
    BY <2>1 DEF TypeInv, TypeOK, CounterPoint, HeldPCs
  <2> QED
    BY <2>2, <2>3, LocklessStep
<1> QED
  BY <1>1, <1>2

LEMMA LockPathCounters ==
    ASSUME TypeInv, CounterInv, NEW r \in Requests, LockPath(r)
    PROVE  CounterInv'
<1>1. PICK k \in PathKeys(status[op[r].target]) :
        /\ Writers(r, ListRow(k)) = {}
        /\ shared' = [shared EXCEPT ![r] = shared[r] \cup {ListRow(k)}]
  BY DEF LockPath
<1>2. OthersKept(r) /\ UNCHANGED <<data, lists, status>> /\ excl' = excl
  BY DEF LockPath, TypeInv, TypeOK, OthersKept, tables, local, history
<1>3. shared'[r] = shared[r] \cup {ListRow(k)} /\ k \in DOMAIN lists
  BY <1>1 DEF TypeInv, TypeOK, PathKeys
<1>4. NoConflict(r)
  BY <1>1, <1>2, <1>3 DEF NoConflict, Writers, CounterInv, Exclusive
<1>5. shared'[r] \subseteq PresentRows
  BY <1>3 DEF PresentRows, CounterInv, SharedExist
<1>6. CounterPoint(r)'
  BY DEF LockPath, TypeInv, TypeOK, CounterPoint, HeldPCs
<1> QED
  BY <1>2, <1>4, <1>5, <1>6, QuietStep

LEMMA UpdateVCCounters ==
    ASSUME TypeInv, CounterInv, NEW r \in Requests, UpdateRevocationListVC(r)
    PROVE  CounterInv'
<1>1. CASE Throw(r, "error")
  BY <1>1, ThrowCounters
<1>2. CASE ~Throw(r, "error")
  <2>1. PICK k, list :
          /\ key' = [key EXCEPT ![r] = k]
          /\ page' = [page EXCEPT ![r] = list]
          /\ pc' = [pc EXCEPT ![r] = "updateList"]
          /\ UNCHANGED <<tables, locks, op, retries, entity, dirty, result, history>>
    BY <1>2 DEF UpdateRevocationListVC
  <2>2. OthersKept(r) /\ UNCHANGED <<data, lists, status, shared, excl>>
    BY <2>1 DEF TypeInv, TypeOK, OthersKept, tables, locks, history
  <2>3. op'[r] \notin IssueOps /\ pc'[r] = "updateList"
    BY <2>1 DEF UpdateRevocationListVC, TypeInv, TypeOK, PointOK, ChangePCs, ChangeOps,
                IssueOps
  <2>4. CounterPoint(r)'
    BY <2>3 DEF CounterPoint, HeldPCs
  <2> QED
    BY <2>2, <2>4, LocklessStep
<1> QED
  BY <1>1, <1>2

LEMMA DeadlockedCounters ==
    ASSUME TypeInv, CounterInv, NEW r \in Requests, Deadlocked(r)
    PROVE  CounterInv'
<1>1. OthersKept(r) /\ UNCHANGED <<data, lists, status>>
  BY DEF Deadlocked, Finish, Release, TypeInv, TypeOK, OthersKept, tables, local, history
<1>2. shared'[r] = {} /\ excl'[r] = {} /\ pc'[r] \in {"lockData", "check", "done"}
  BY DEF Deadlocked, Finish, Release, Entry, TypeInv, TypeOK
<1>3. NoConflict(r) /\ CounterPoint(r)'
  BY <1>2 DEF NoConflict, CounterPoint, HeldPCs
<1> QED
  BY <1>1, <1>2, <1>3, QuietStep

-----------------------------------------------------------------------------
(* The commit of an issuance moves the counters of its issuer to the ones  *)
(* the request computed, past every status that was given before.          *)

LEMMA ReachedTrans ==
    ASSUME NEW s \in Statuses, NEW row \in DataRows, NEW next \in DataRows,
           Reached(s, row), Before(row, next)
    PROVE  /\ Reached(s, next)
           /\ ~(s.list = next.list /\ s.index = next.index)
BY DEF Statuses, DataRows, Reached, Before

LEMMA OverlayCovers ==
    ASSUME NEW row \in DataRows, NEW new \in DataRows, NEW columns,
           \A f \in Columns \ columns : new[f] = row[f]
    PROVE  Overlay(row, new, columns) = new
<1>1. Overlay(row, new, columns) = [f \in Columns |-> new[f]]
  BY DEF Overlay
<1> QED
  BY <1>1 DEF DataRows, Columns

\* What the commit of an issuance does to counters and statuses.
LEMMA IssueCommit ==
    ASSUME TypeInv, CounterInv, NEW r \in Requests, Commit(r), op[r] \in IssueOps
    PROVE  /\ op[r].issuer \in Issuers /\ op[r].len \in BitLengths /\ entity[r] \in DataRows
           /\ EntityIsNext(r) /\ DataRow(op[r].issuer) \in excl[r]
           /\ Before(data[op[r].issuer], entity[r])
           /\ data' = [data EXCEPT ![op[r].issuer] = entity[r]]
           /\ status' = [status EXCEPT ![r] = StatusOf(r)] /\ StatusOf(r) \in Statuses
<1> DEFINE i == op[r].issuer
<1>1. i \in Issuers /\ op[r].len \in BitLengths /\ op[r].kind = "issue"
  BY DEF IssueOps
<1>2. entity[r] \in DataRows
  BY DEF Commit, TypeInv, PointOK, IssuePCs, SavePCs
<1>3. DataRow(i) \in excl[r] /\ EntityIsNext(r) /\ DirtyCovers(r)
  BY DEF Commit, CounterInv, CounterPoint, HeldPCs
<1>4. i \in DOMAIN data /\ data[i] \in DataRows
  BY <1>1 DEF CounterInv, TypeInv, TypeOK
<1>5. Before(data[i], entity[r])
  BY <1>1, <1>3, <1>4, NextRowBeyond DEF EntityIsNext
<1>6. data' = [data EXCEPT ![i] = entity[r]]
  <2>1. Overlay(data[i], entity[r], dirty[r]) = entity[r]
    BY <1>2, <1>3, <1>4, OverlayCovers DEF DirtyCovers
  <2>2. data' = Put(data, i, entity[r])
    BY <1>1, <1>3, <1>4, <2>1 DEF Commit
  <2>3. DOMAIN data \cup {i} = DOMAIN data
    BY <1>4
  <2>4. Put(data, i, entity[r]) = [y \in DOMAIN data |-> IF y = i THEN entity[r] ELSE data[y]]
    BY <2>3 DEF Put
  <2> QED
    BY <2>2, <2>4
<1>7. status' = [status EXCEPT ![r] = StatusOf(r)]
  BY <1>1 DEF Commit
<1>8. StatusOf(r) \in Statuses
  BY <1>1, <1>2 DEF StatusOf, Statuses, DataRows
<1> QED
  BY <1>1, <1>2, <1>3, <1>5, <1>6, <1>7, <1>8

LEMMA ChangeCommit ==
    ASSUME TypeInv, NEW r \in Requests, Commit(r), op[r] \notin IssueOps
    PROVE  /\ op[r] \in ChangeOps /\ op[r].kind # "issue" /\ op[r].target \in Credentials
           /\ UNCHANGED <<data, status>>
<1>1. op[r] \in ChangeOps
  BY DEF Commit, TypeInv, PointOK, SavePCs
<1>2. op[r].kind # "issue" /\ op[r].target \in Credentials
  BY <1>1 DEF ChangeOps
<1> QED
  BY <1>1, <1>2 DEF Commit

LEMMA CommitCounters ==
    ASSUME TypeInv, CounterInv, NEW r \in Requests, Commit(r)
    PROVE  CounterInv'
<1> DEFINE i == op[r].issuer
<1>1. OthersKept(r) /\ op' = op
  BY DEF Commit, Finish, Release, TypeInv, TypeOK, OthersKept, local
<1>2. shared'[r] = {} /\ excl'[r] = {} /\ pc'[r] = "done"
  BY DEF Commit, Finish, Release, TypeInv, TypeOK
<1>3. Exclusive' /\ CounterPoint(r)'
  BY <1>1, <1>2, ExclusiveKept DEF NoConflict, CounterPoint, HeldPCs, CounterInv
<1>4. DOMAIN lists \subseteq DOMAIN lists'
  BY DEF Commit, Put
<1>5. CASE op[r] \notin IssueOps
  <2>1. data' = data /\ status' = status
    BY <1>5, ChangeCommit
  <2>2. SharedExist'
    BY <1>1, <1>2, <1>4, <2>1 DEF CounterInv, SharedExist, OthersKept, PresentRows
  <2>3. \A q \in Requests \ {r} : CounterPoint(q)'
    BY <1>1, <2>1, OtherPointsKept DEF CounterInv
  <2> QED
    BY <1>3, <2>1, <2>2, <2>3 DEF CounterInv, StatusesReached, UniqueStatus
<1>6. CASE op[r] \in IssueOps
  <2>1. /\ i \in Issuers /\ entity[r] \in DataRows /\ DataRow(i) \in excl[r]
        /\ data' = [data EXCEPT ![i] = entity[r]]
        /\ status' = [status EXCEPT ![r] = StatusOf(r)]
        /\ Before(data[i], entity[r])
    BY <1>6, IssueCommit
  <2>2. DOMAIN data' = Issuers
    BY <2>1 DEF CounterInv
  <2>3. SharedExist'
    BY <1>1, <1>2, <1>4, <2>1 DEF CounterInv, SharedExist, OthersKept, PresentRows
  <2>4. \A q \in Requests \ {r} : CounterPoint(q)'
    <3> SUFFICES ASSUME NEW q \in Requests \ {r} PROVE CounterPoint(q)'
      OBVIOUS
    <3>1. DataRow(i) \notin shared[q] /\ DataRow(i) \notin excl[q]
      BY <2>1 DEF CounterInv, Exclusive
    <3>2. CASE op[q].issuer = i
      BY <1>1, <3>1, <3>2 DEF CounterInv, CounterPoint, OthersKept
    <3>3. CASE op[q].issuer # i
      <4>1. data'[op[q].issuer] = data[op[q].issuer]
        BY <2>1, <3>3
      <4> QED
        BY <1>1, <4>1 DEF CounterInv, CounterPoint, OthersKept, EntityIsNext, DirtyCovers
    <3> QED
      BY <3>2, <3>3
  <2>5. \A c \in Credentials \ {r} : status[c] # NoRow =>
          Reached(status[c], data'[status[c].issuer]) /\ status[c] # StatusOf(r)
    <3> SUFFICES ASSUME NEW c \in Credentials \ {r}, status[c] # NoRow
                 PROVE  Reached(status[c], data'[status[c].issuer]) /\ status[c] # StatusOf(r)
      OBVIOUS
    <3>1. status[c] \in Statuses /\ Reached(status[c], data[status[c].issuer])
      BY DEF CounterInv, StatusesReached, TypeInv, TypeOK
    <3>2. CASE status[c].issuer = i
      <4>1. data[i] \in DataRows /\ data'[i] = entity[r]
        BY <2>1 DEF CounterInv, TypeInv, TypeOK
      <4> QED
        BY <2>1, <3>1, <3>2, <4>1, ReachedTrans DEF StatusOf
    <3>3. CASE status[c].issuer # i
      BY <2>1, <3>1, <3>3 DEF StatusOf
    <3> QED
      BY <3>2, <3>3
  <2>6. r \in Credentials /\ status'[r] = StatusOf(r)
    BY <2>1 DEF Credentials, TypeInv, TypeOK
  <2>7. StatusesReached'
    <3>1. Reached(status'[r], data'[status'[r].issuer])
      BY <2>1, <2>2, <2>6 DEF StatusOf, Reached, DataRows, CounterInv
    <3> QED
      BY <2>1, <2>5, <3>1 DEF StatusesReached, TypeInv, TypeOK
  <2>8. UniqueStatus'
    BY <2>1, <2>5, <2>6 DEF UniqueStatus, CounterInv, TypeInv, TypeOK
  <2> QED
    BY <1>3, <2>2, <2>3, <2>4, <2>7, <2>8 DEF CounterInv
<1> QED
  BY <1>5, <1>6

-----------------------------------------------------------------------------
(* The theorems.                                                           *)

LEMMA CounterInvInit == Seeded = Issuers /\ Init => CounterInv
<1> SUFFICES ASSUME Seeded = Issuers, Init PROVE CounterInv
  OBVIOUS
<1>1. DOMAIN data = Issuers
  BY DEF Init
<1>2. Exclusive /\ SharedExist
  BY DEF Init, Exclusive, SharedExist
<1>3. \A r \in Requests : CounterPoint(r)
  BY DEF Init, CounterPoint, HeldPCs
<1>4. \A c \in Credentials : status[c] # NoRow =>
        /\ c \in Issuers
        /\ status[c].issuer = c /\ status[c].list = 0 /\ status[c].index = 0
  BY DEF Init, Credentials
<1>5. StatusesReached
  <2> SUFFICES ASSUME NEW c \in Credentials, status[c] # NoRow
               PROVE  Reached(status[c], data[status[c].issuer])
    BY DEF StatusesReached
  <2>1. data = [i \in Issuers |-> FirstRow(SeedLength)]
    BY DEF Init
  <2>2. data[c].list = 0 /\ data[c].index = 0
    BY <1>4, <2>1 DEF FirstRow
  <2>3. status[c].issuer = c /\ status[c].list = 0 /\ status[c].index = 0
    BY <1>4
  <2> QED
    BY <2>2, <2>3 DEF Reached
<1>6. UniqueStatus
  BY <1>4 DEF UniqueStatus
<1> QED
  BY <1>1, <1>2, <1>3, <1>5, <1>6 DEF CounterInv

LEMMA CounterInvNext == TypeInv /\ CounterInv /\ [Next]_vars => CounterInv'
<1> SUFFICES ASSUME TypeInv, CounterInv, [Next]_vars PROVE CounterInv'
  OBVIOUS
<1>1. CASE UNCHANGED vars
  BY <1>1 DEF vars, CounterInv, Exclusive, SharedExist, PresentRows, CounterPoint,
              EntityIsNext, DirtyCovers, StatusesReached, UniqueStatus
<1>2. CASE Next
  <2>1. PICK r \in Requests :
          \/ \E o \in IssueOps \cup ChangeOps : Arrive(r, o)
          \/ Step(r)
          \/ Deadlocked(r)
          \/ Fail(r)
    BY <1>2 DEF Next
  <2>2. CASE \E o \in IssueOps \cup ChangeOps : Arrive(r, o)
    BY <2>2, ArriveCounters
  <2>3. CASE Step(r)
    BY <2>3, LockDataCounters, FindDataCounters, InsertDataCounters, SaveDataCounters,
       UpdateDataCounters, LockListCounters, FindListCounters, InsertListCounters,
       SaveListCounters, UpdateListCounters, CheckCounters, LockPathCounters,
       UpdateVCCounters, CommitCounters DEF Step
  <2>4. CASE Deadlocked(r)
    BY <2>4, DeadlockedCounters
  <2>5. CASE Fail(r)
    BY <2>5, ThrowCounters DEF Fail
  <2> QED
    BY <2>1, <2>2, <2>3, <2>4, <2>5
<1> QED
  BY <1>1, <1>2

LEMMA CounterInvAlways == ASSUME Seeded = Issuers PROVE Spec => [](TypeInv /\ CounterInv)
<1>1. Init => TypeInv /\ CounterInv
  BY TypeInvInit, CounterInvInit
<1>2. TypeInv /\ CounterInv /\ [Next]_vars => (TypeInv /\ CounterInv)'
  BY TypeInvNext, CounterInvNext
<1> QED
  BY <1>1, <1>2, PTL DEF Spec

\* Once an issuer has its row, no interleaving of issuances, revocations, deadlocks
\* and failures gives two credentials the same bit (lockRevocationData,
\* upsertRevocationData).
THEOREM StatusesUnique == ASSUME Seeded = Issuers PROVE Spec => []UniqueStatus
<1>1. TypeInv /\ CounterInv => UniqueStatus
  BY DEF CounterInv
<1> QED
  BY <1>1, CounterInvAlways, PTL

LEMMA CountersStepHolds ==
    ASSUME TypeInv, CounterInv, [Next]_vars
    PROVE  [CountersStep]_vars
<1>1. CASE UNCHANGED vars
  BY <1>1
<1>2. CASE data' = data
  BY <1>2 DEF CountersStep
<1>3. ASSUME NEW r \in Requests, Commit(r) PROVE CountersStep
  <2>1. CASE op[r] \in IssueOps
    BY <1>3, <2>1, IssueCommit DEF CountersStep
  <2>2. CASE op[r] \notin IssueOps
    BY <1>3, <2>2, ChangeCommit DEF CountersStep
  <2> QED
    BY <2>1, <2>2
<1>4. CASE Next /\ data' # data
  <2>1. PICK r \in Requests : Commit(r)
    BY <1>4 DEF Next, Step, Arrive, LockRevocationData, FindRevocationData,
       InsertRevocationData, SaveRevocationData, UpdateRevocationData, LockRevocationList,
       FindRevocationList, InsertRevocationList, SaveRevocationList, UpdateRevocationList,
       CheckStatus, LockPath, UpdateRevocationListVC, Deadlocked, Fail, Throw, tables
  <2> QED
    BY <1>3, <2>1
<1> QED
  BY <1>1, <1>2, <1>4

\* Nor does an issuer's pair of counters ever go back, so an older entity is never
\* saved over a newer row (upsertRevocationData's save).
THEOREM CountersOnlyAdvance == ASSUME Seeded = Issuers PROVE Spec => CountersAdvance
<1>1. TypeInv /\ CounterInv /\ [Next]_vars => [CountersStep]_vars
  BY CountersStepHolds
<1> QED
  BY <1>1, CounterInvAlways, PTL DEF Spec, CountersAdvance

=============================================================================
