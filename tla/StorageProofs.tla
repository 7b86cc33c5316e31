---------------------------- MODULE StorageProofs ----------------------------
(***************************************************************************)
(* What keeps a status in the database, for every value of the constants   *)
(* of Storage.                                                             *)
(*                                                                         *)
(* What a client of the service holds stays usable: AnsweredIsKept and     *)
(* StatusIsRevocable, by an invariant that has a part for the tables (the  *)
(* foreign keys) and one for every request (what it asked for and what it  *)
(* has written by the time it is at a statement).                          *)
(*                                                                         *)
(* What a serial call on SQLite was answered stays: SharedConnectionProofs *)
(* shows it of the connection, and Storage takes no other steps with it.   *)
(***************************************************************************)
EXTENDS Storage, TLAPS

\* The foreign keys of the credential-encrypted-data table.
Keys ==
    /\ DOMAIN pointers \subseteq credentials
    /\ \A c \in DOMAIN pointers : pointers[c] \in documents

IssuePCs == {"create", "save"}
ChangePCs == {"lookup", "remove", "find", "change"}
PointerPCs == {"findPointer", "insertPointer", "updatePointer"}

\* What is known of a request at each point of its handler.
ServicePoint(r) ==
    /\ pc[r] = "idle" => given[r] = None /\ answer[r] = "none"
    /\ pc[r] # "idle" => order[r] \in Orders
    /\ pc[r] = "middleware" => Intercepted(r)
    /\ pc[r] \in IssuePCs => order[r].kind = "issue"
    /\ pc[r] \in InterceptPCs => Intercepted(r) \/ order[r].kind = "encrypt"
    /\ pc[r] \in ChangePCs => order[r].kind # "issue"
    /\ pc[r] \in PointerPCs => r \in documents
    /\ pc[r] = "updatePointer" => Subject(r) \in DOMAIN pointers
    /\ pc[r] = "change" => order[r].target \in Requests /\ given[order[r].target] # None
    /\ given[r] # None => Intercepted(r)
    /\ answer[r] = "created" => ~Intercepted(r)
    /\ answer[r] = "stored" => r \in documents /\ r \in DOMAIN pointers

KeepInv ==
    /\ TypeOK
    /\ Keys
    /\ \A r \in Requests : ServicePoint(r)

-----------------------------------------------------------------------------

LEMMA KeepInvInit == Init => KeepInv
  BY ServiceAssumption DEF Init, KeepInv, TypeOK, Keys, ServicePoint, PCs, Answers, InterceptPCs,
      IssuePCs, ChangePCs, PointerPCs

LEMMA OrderCases ==
    ASSUME NEW o \in Orders
    PROVE  \/ /\ o.kind = "issue"
              /\ o.route \in {"routeCreation", "agentIssue", "vcApi"}
              /\ o.save \in BOOLEAN
           \/ /\ o.kind \in {"encrypt", "delete", "revoke", "activate"}
              /\ o.target \in Requests
  BY DEF Orders, IssueOrders, TargetOrders

LEMMA SubjectType ==
    ASSUME NEW r \in Requests, order[r] \in Orders
    PROVE  Subject(r) \in Requests
  BY OrderCases DEF Subject

\* What a step of r must show: the rest follows from its frame.
Frame(r) ==
    /\ \A q \in Requests \ {r} :
          /\ order'[q] = order[q]
          /\ pc'[q] = pc[q]
          /\ answer'[q] = answer[q]
          /\ given'[q] = given[q]
    /\ \A q \in Requests : given[q] # None => given'[q] # None
    /\ documents \subseteq documents'
    /\ DOMAIN pointers \subseteq DOMAIN pointers'

LEMMA StepKept ==
    ASSUME KeepInv, NEW r \in Requests, Frame(r), TypeOK', Keys', ServicePoint(r)'
    PROVE  KeepInv'
<1>1. ASSUME NEW q \in Requests, q # r PROVE ServicePoint(q)'
  BY <1>1 DEF KeepInv, Frame, ServicePoint, Intercepted, Subject
<1> QED
  BY <1>1 DEF KeepInv

\* The process ends: no handler is at a statement any more.
LEMMA EndProcessKept ==
    ASSUME KeepInv, EndProcess,
           UNCHANGED <<given, revoked, credentials, documents, pointers, order>>
    PROVE  KeepInv'
<1>1. TypeOK'
  BY DEF KeepInv, TypeOK, EndProcess, InFlight, PCs, Answers
<1>2. Keys'
  BY DEF KeepInv, Keys
<1>3. ASSUME NEW q \in Requests PROVE ServicePoint(q)'
  <2>1. \/ pc'[q] = pc[q] /\ answer'[q] = answer[q]
        \/ pc'[q] = "done" /\ answer'[q] = "lost"
    BY DEF EndProcess, InFlight
  <2>2. pc'[q] = "idle" <=> pc[q] = "idle"
    BY DEF EndProcess, InFlight
  <2> QED
    BY <2>1, <2>2 DEF KeepInv, ServicePoint, Intercepted, Subject, IssuePCs, ChangePCs,
       PointerPCs, InterceptPCs
<1> QED
  BY <1>1, <1>2, <1>3 DEF KeepInv

\* An answer that promises nothing about the tables.
LEMMA ReplyKept ==
    ASSUME KeepInv, NEW r \in Requests, pc[r] # "idle", NEW a \in Answers,
           Reply(r, a), a \notin {"created", "stored"},
           UNCHANGED <<given, documents, pointers, order>>,
           revoked' \subseteq Statuses, credentials' \subseteq Requests,
           DOMAIN pointers \subseteq credentials'
    PROVE  KeepInv'
<1>1. TypeOK'
  BY DEF KeepInv, TypeOK, Reply, PCs
<1>2. Keys'
  BY DEF KeepInv, Keys
<1>3. pc'[r] = "done" /\ answer'[r] = a
  BY DEF Reply, KeepInv, TypeOK
<1>4. ServicePoint(r)'
  BY <1>3 DEF KeepInv, ServicePoint, Intercepted, Subject, IssuePCs, ChangePCs, PointerPCs,
     InterceptPCs
<1>5. Frame(r)
  BY DEF Frame, Reply, KeepInv, TypeOK
<1> QED
  BY <1>1, <1>2, <1>4, <1>5, StepKept

\* A handler that moves on to its next statement.
LEMMA MoveKept ==
    ASSUME KeepInv, NEW r \in Requests, NEW p \in PCs, pc' = [pc EXCEPT ![r] = p],
           UNCHANGED <<given, revoked, credentials, documents, pointers, order, answer>>,
           ServicePoint(r)'
    PROVE  KeepInv'
<1>1. TypeOK' /\ Keys' /\ Frame(r)
  BY DEF KeepInv, TypeOK, Keys, Frame
<1> QED
  BY <1>1, StepKept

LEMMA StorageErrorKept ==
    ASSUME KeepInv, NEW r \in Requests, pc[r] # "idle", StorageError(r),
           UNCHANGED <<given, revoked, credentials, documents, pointers, order>>
    PROVE  KeepInv'
<1>1. CASE EndProcess
  BY <1>1, EndProcessKept
<1>2. CASE Reply(r, "error")
  <2>1. DOMAIN pointers \subseteq credentials' /\ "error" \in Answers
    BY DEF KeepInv, Keys, Answers
  <2> QED
    BY <1>2, <2>1, ReplyKept DEF KeepInv, TypeOK
<1> QED
  BY <1>1, <1>2 DEF StorageError

-----------------------------------------------------------------------------
(* One lemma per action.                                                   *)

LEMMA ArriveKept ==
    ASSUME KeepInv, NEW r \in Requests, NEW o \in Orders, Arrive(r, o)
    PROVE  KeepInv'
<1>1. pc'[r] = Entry(o) /\ order'[r] = o /\ pc[r] = "idle"
  BY DEF Arrive, KeepInv, TypeOK
<1>2. Entry(o) \in PCs
  BY OrderCases DEF Entry, PCs, InterceptPCs
<1>3. TypeOK' /\ Keys' /\ Frame(r)
  BY <1>2 DEF Arrive, KeepInv, TypeOK, Keys, Frame, registry, storage
<1>4. given'[r] = None /\ answer'[r] = "none"
  BY <1>1 DEF Arrive, KeepInv, ServicePoint, registry
<1>5. ServicePoint(r)'
  BY <1>1, <1>4, OrderCases DEF ServicePoint, Entry, Intercepted, Subject, IssuePCs,
     ChangePCs, PointerPCs, InterceptPCs
<1> QED
  BY <1>3, <1>5, StepKept

LEMMA RevocationMiddlewareKept ==
    ASSUME KeepInv, NEW r \in Requests, RevocationMiddleware(r)
    PROVE  KeepInv'
<1>1. TypeOK' /\ Keys' /\ Frame(r)
  <2>1. given' = given \/ \E s \in Statuses : given' = [given EXCEPT ![r] = s]
    BY DEF RevocationMiddleware
  <2>2. \A s \in Statuses : s # None
    BY ServiceAssumption
  <2> QED
    BY <2>1, <2>2 DEF RevocationMiddleware, KeepInv, TypeOK, Keys, Frame, storage, PCs
<1>2. pc[r] = "middleware" /\ pc'[r] = "create"
  BY DEF RevocationMiddleware, KeepInv, TypeOK
<1>3. Intercepted(r) /\ order[r].kind = "issue"
  BY <1>2 DEF KeepInv, ServicePoint, Intercepted
<1>4. ServicePoint(r)'
  BY <1>2, <1>3 DEF RevocationMiddleware, KeepInv, ServicePoint, Intercepted, Subject,
     IssuePCs, ChangePCs, PointerPCs, InterceptPCs, storage
<1> QED
  BY <1>1, <1>4, StepKept

\* Return: the answer of an intercepted request goes on to the storage.
LEMMA ReturnPoint ==
    ASSUME KeepInv, NEW r \in Requests, pc[r] \in IssuePCs, Return(r),
           UNCHANGED <<given, documents, pointers, order>>
    PROVE  /\ ServicePoint(r)'
           /\ Frame(r)
           /\ pc' \in [Requests -> PCs]
           /\ answer' \in [Requests -> Answers]
<1>1. pc' \in [Requests -> PCs] /\ answer' \in [Requests -> Answers] /\ Frame(r)
  BY DEF Return, Reply, Frame, KeepInv, TypeOK, PCs, Answers, InterceptPCs
<1>2. CASE Intercepted(r)
  <2>1. pc'[r] = "saveDocument" /\ answer' = answer
    BY <1>2 DEF Return, KeepInv, TypeOK
  <2> QED
    BY <1>1, <1>2, <2>1 DEF KeepInv, ServicePoint, Intercepted, Subject, IssuePCs, ChangePCs,
       PointerPCs, InterceptPCs
<1>3. CASE ~Intercepted(r)
  <2>1. pc'[r] = "done" /\ answer'[r] = "created"
    BY <1>3 DEF Return, Reply, KeepInv, TypeOK
  <2> QED
    BY <1>1, <1>3, <2>1 DEF KeepInv, ServicePoint, Intercepted, Subject, IssuePCs, ChangePCs,
       PointerPCs, InterceptPCs
<1> QED
  BY <1>2, <1>3

LEMMA CreateCredentialKept ==
    ASSUME KeepInv, NEW r \in Requests, CreateCredential(r)
    PROVE  KeepInv'
<1>1. CASE Return(r)
  <2>1. pc[r] \in IssuePCs /\ UNCHANGED <<given, revoked, credentials, documents, pointers, order>>
    BY DEF CreateCredential, IssuePCs, registry, storage
  <2>2. TypeOK' /\ Keys'
    BY <1>1, <2>1, ReturnPoint DEF KeepInv, TypeOK, Keys
  <2> QED
    BY <1>1, <2>1, <2>2, ReturnPoint, StepKept
<1>2. CASE pc' = [pc EXCEPT ![r] = "save"] /\ UNCHANGED answer
  <2>1. pc[r] = "create" /\ pc'[r] = "save"
    BY <1>2 DEF CreateCredential, KeepInv, TypeOK
  <2>2. ServicePoint(r)'
    BY <1>2, <2>1 DEF CreateCredential, KeepInv, ServicePoint, Intercepted, Subject, IssuePCs,
       ChangePCs, PointerPCs, InterceptPCs, registry, storage
  <2> QED
    BY <1>2, <2>2, MoveKept DEF CreateCredential, registry, storage, PCs
<1> QED
  BY <1>1, <1>2 DEF CreateCredential

LEMMA SaveCredentialKept ==
    ASSUME KeepInv, NEW r \in Requests, SaveCredential(r)
    PROVE  KeepInv'
<1>1. pc[r] \in IssuePCs /\ UNCHANGED <<given, revoked, documents, pointers, order>>
  BY DEF SaveCredential, IssuePCs, registry, storage
<1>2. TypeOK' /\ Keys'
  BY <1>1, ReturnPoint DEF SaveCredential, KeepInv, TypeOK, Keys
<1> QED
  BY <1>1, <1>2, ReturnPoint, StepKept DEF SaveCredential

LEMMA SaveDocumentKept ==
    ASSUME KeepInv, NEW r \in Requests, SaveDocument(r)
    PROVE  KeepInv'
<1>1. TypeOK' /\ Keys' /\ Frame(r)
  BY DEF SaveDocument, KeepInv, TypeOK, Keys, Frame, registry, PCs, InterceptPCs
<1>2. pc[r] = "saveDocument" /\ pc'[r] = "findPointer" /\ r \in documents'
  BY DEF SaveDocument, KeepInv, TypeOK
<1>3. ServicePoint(r)'
  BY <1>2 DEF SaveDocument, KeepInv, ServicePoint, Intercepted, Subject, IssuePCs, ChangePCs,
     PointerPCs, InterceptPCs, registry
<1> QED
  BY <1>1, <1>3, StepKept

LEMMA FindPointerKept ==
    ASSUME KeepInv, NEW r \in Requests, FindPointer(r)
    PROVE  KeepInv'
<1> DEFINE p == IF Subject(r) \in DOMAIN pointers THEN "updatePointer" ELSE "insertPointer"
<1>1. pc[r] = "findPointer" /\ pc' = [pc EXCEPT ![r] = p] /\ pc'[r] = p
  BY DEF FindPointer, KeepInv, TypeOK
<1>2. UNCHANGED <<given, revoked, credentials, documents, pointers, order, answer>>
  BY DEF FindPointer, registry, storage
<1>3. p \in PCs /\ p \in InterceptPCs /\ p \in PointerPCs
  BY DEF PCs, InterceptPCs, PointerPCs
<1>4. p = "updatePointer" => Subject(r) \in DOMAIN pointers
  OBVIOUS
<1>5. ServicePoint(r)'
  BY <1>1, <1>2, <1>4 DEF KeepInv, ServicePoint, Intercepted, Subject, IssuePCs,
     ChangePCs, PointerPCs, InterceptPCs
<1> QED
  BY <1>1, <1>2, <1>3, <1>5, MoveKept

\* The row of the credential now leads to r's document.
LEMMA PointKept ==
    ASSUME KeepInv, NEW r \in Requests, pc[r] \in PointerPCs, Point(Subject(r), r), Stored(r),
           Subject(r) \in credentials,
           UNCHANGED <<given, revoked, credentials, documents, order>>
    PROVE  KeepInv'
<1>1. r \in documents /\ order[r] \in Orders
  BY DEF KeepInv, ServicePoint, PointerPCs
<1>2. Subject(r) \in Requests
  BY <1>1, SubjectType
<1>3. /\ DOMAIN pointers' = DOMAIN pointers \cup {Subject(r)}
      /\ \A c \in DOMAIN pointers' :
            \/ pointers'[c] = r
            \/ c \in DOMAIN pointers /\ pointers'[c] = pointers[c]
  BY DEF Point
<1>4. Keys'
  BY <1>1, <1>3 DEF KeepInv, Keys
<1>5. pc' \in [Requests -> PCs] /\ answer' \in [Requests -> Answers]
  BY DEF Stored, Reply, KeepInv, TypeOK, PCs, Answers
<1>6. TypeOK'
  BY <1>2, <1>3, <1>5 DEF KeepInv, TypeOK
<1>7. Frame(r)
  BY <1>3 DEF Frame, Stored, Reply, KeepInv, TypeOK
<1>8. pc'[r] = "done" /\ answer'[r] = IF Intercepted(r) THEN "stored" ELSE "encrypted"
  BY DEF Stored, Reply, KeepInv, TypeOK
<1>9. Intercepted(r) => Subject(r) = r
  BY DEF Intercepted, Subject
<1>10. ServicePoint(r)'
  BY <1>1, <1>3, <1>8, <1>9 DEF KeepInv, ServicePoint, Intercepted, IssuePCs, ChangePCs,
     PointerPCs, InterceptPCs
<1> QED
  BY <1>4, <1>6, <1>7, <1>10, StepKept

LEMMA InsertPointerKept ==
    ASSUME KeepInv, NEW r \in Requests, InsertPointer(r)
    PROVE  KeepInv'
<1>1. pc[r] = "insertPointer" /\ UNCHANGED <<given, revoked, credentials, documents, order>>
  BY DEF InsertPointer, registry
<1>2. CASE Subject(r) \in credentials \ DOMAIN pointers
  BY <1>1, <1>2, PointKept DEF InsertPointer, PointerPCs
<1>3. CASE Subject(r) \notin credentials \ DOMAIN pointers
  BY <1>1, <1>3, StorageErrorKept DEF InsertPointer
<1> QED
  BY <1>2, <1>3

LEMMA UpdatePointerKept ==
    ASSUME KeepInv, NEW r \in Requests, UpdatePointer(r)
    PROVE  KeepInv'
<1>1. pc[r] = "updatePointer" /\ UNCHANGED <<given, revoked, credentials, documents, order>>
  BY DEF UpdatePointer, registry
<1>2. Subject(r) \in credentials
  BY <1>1 DEF KeepInv, ServicePoint, Keys
<1> QED
  BY <1>1, <1>2, PointKept DEF UpdatePointer, PointerPCs

LEMMA FindToDeleteKept ==
    ASSUME KeepInv, NEW r \in Requests, FindToDelete(r)
    PROVE  KeepInv'
<1>1. /\ pc[r] = "lookup"
      /\ UNCHANGED <<given, revoked, credentials, documents, pointers, order>>
  BY DEF FindToDelete, registry, storage
<1>2. CASE pc' = [pc EXCEPT ![r] = "remove"] /\ UNCHANGED answer
  <2>1. pc'[r] = "remove"
    BY <1>2 DEF KeepInv, TypeOK
  <2>2. ServicePoint(r)'
    BY <1>1, <1>2, <2>1 DEF KeepInv, ServicePoint, Intercepted, Subject, IssuePCs, ChangePCs,
       PointerPCs, InterceptPCs
  <2> QED
    BY <1>1, <1>2, <2>2, MoveKept DEF PCs
<1>3. CASE Reply(r, "missing")
  BY <1>1, <1>3, ReplyKept DEF KeepInv, TypeOK, Keys, Answers
<1> QED
  BY <1>2, <1>3 DEF FindToDelete

LEMMA DeleteCredentialKept ==
    ASSUME KeepInv, NEW r \in Requests, DeleteCredential(r)
    PROVE  KeepInv'
<1> DEFINE c == order[r].target
<1>1. pc[r] = "remove" /\ UNCHANGED <<given, revoked, documents, pointers, order>>
  BY DEF DeleteCredential, registry, storage
<1>2. CASE /\ c \in credentials \ DOMAIN pointers
           /\ credentials' = credentials \ {c}
           /\ Reply(r, "deleted")
  BY <1>1, <1>2, ReplyKept DEF KeepInv, TypeOK, Keys, Answers
<1>3. CASE Reply(r, "error") /\ UNCHANGED credentials
  BY <1>1, <1>3, ReplyKept DEF KeepInv, TypeOK, Keys, Answers
<1>4. CASE Reply(r, "missing") /\ UNCHANGED credentials
  BY <1>1, <1>4, ReplyKept DEF KeepInv, TypeOK, Keys, Answers
<1> QED
  BY <1>2, <1>3, <1>4 DEF DeleteCredential

LEMMA FindToChangeKept ==
    ASSUME KeepInv, NEW r \in Requests, FindToChange(r)
    PROVE  KeepInv'
<1>1. /\ pc[r] = "find"
      /\ UNCHANGED <<given, revoked, credentials, documents, pointers, order>>
  BY DEF FindToChange, registry, storage
<1>2. CASE pc' = [pc EXCEPT ![r] = "change"] /\ UNCHANGED answer
  <2>1. pc'[r] = "change" /\ order[r].target \in credentials /\ given[order[r].target] # None
    BY <1>1, <1>2 DEF FindToChange, Reply, KeepInv, TypeOK
  <2>2. ServicePoint(r)'
    BY <1>1, <1>2, <2>1 DEF TypeOK, KeepInv, ServicePoint, Intercepted, Subject, IssuePCs, ChangePCs,
       PointerPCs, InterceptPCs
  <2> QED
    BY <1>1, <1>2, <2>2, MoveKept DEF PCs
<1>3. CASE Reply(r, "error")
  BY <1>1, <1>3, ReplyKept DEF KeepInv, TypeOK, Keys, Answers
<1> QED
  BY <1>2, <1>3 DEF FindToChange

LEMMA ChangeStatusKept ==
    ASSUME KeepInv, NEW r \in Requests, ChangeStatus(r)
    PROVE  KeepInv'
<1>1. pc[r] = "change" /\ UNCHANGED <<given, credentials, documents, pointers, order>>
  BY DEF ChangeStatus, storage
<1>2. given[order[r].target] \in Statuses
  BY <1>1 DEF KeepInv, TypeOK, ServicePoint
<1>3. revoked' \subseteq Statuses /\ Reply(r, "changed")
  BY <1>2 DEF ChangeStatus, KeepInv, TypeOK
<1> QED
  BY <1>1, <1>3, ReplyKept DEF KeepInv, TypeOK, Keys, Answers

LEMMA FailKept ==
    ASSUME KeepInv, NEW r \in Requests, Fail(r)
    PROVE  KeepInv'
<1>1. /\ pc[r] # "idle"
      /\ UNCHANGED <<given, revoked, credentials, documents, pointers, order>>
  BY DEF Fail, InFlight, registry, storage
<1>2. CASE StorageError(r)
  BY <1>1, <1>2, StorageErrorKept
<1>3. CASE Reply(r, "error")
  BY <1>1, <1>3, ReplyKept DEF KeepInv, TypeOK, Keys, Answers
<1> QED
  BY <1>2, <1>3 DEF Fail

-----------------------------------------------------------------------------

LEMMA KeepInvNext == KeepInv /\ [Next]_vars => KeepInv'
<1> SUFFICES ASSUME KeepInv, [Next]_vars
             PROVE  KeepInv'
  OBVIOUS
<1>1. ASSUME NEW r \in Requests, NEW o \in Orders, Arrive(r, o)
      PROVE  KeepInv'
  BY <1>1, ArriveKept
<1>2. ASSUME NEW r \in Requests, Step(r)
      PROVE  KeepInv'
  BY <1>2, RevocationMiddlewareKept, CreateCredentialKept, SaveCredentialKept,
     SaveDocumentKept, FindPointerKept, InsertPointerKept, UpdatePointerKept,
     FindToDeleteKept, DeleteCredentialKept, FindToChangeKept, ChangeStatusKept DEF Step
<1>3. ASSUME NEW r \in Requests, Fail(r)
      PROVE  KeepInv'
  BY <1>3, FailKept
<1>4. CASE Crash
  BY <1>4, EndProcessKept DEF Crash, registry, storage
<1>5. CASE UNCHANGED vars
  BY <1>5 DEF vars, KeepInv, TypeOK, Keys, ServicePoint, Intercepted, Subject
<1> QED
  BY <1>1, <1>2, <1>3, <1>4, <1>5 DEF Next

LEMMA KeepInvAlways == StorageSpec => []KeepInv
<1>1. StorageInit => Init
  BY DEF StorageInit
<1>2. [StorageNext]_storageVars => [Next]_vars
  BY DEF StorageNext, storageVars
<1> QED
  BY <1>1, <1>2, KeepInvInit, KeepInvNext, PTL DEF StorageSpec

\* encryptAndStoreData and deleteCredential: what a client was answered an id and a key
\* for is kept, however many requests delete, encrypt or fail around it.
THEOREM AnsweredStaysKept == StorageSpec => []AnsweredIsKept
<1>1. KeepInv => AnsweredIsKept
  BY DEF KeepInv, ServicePoint, Keys, AnsweredIsKept
<1> QED
  BY <1>1, KeepInvAlways, PTL

\* revocationList2020Middleware and the two foreign keys: a credential that was answered
\* with a status is one that revokeCredential finds.
THEOREM StatusStaysRevocable == StorageSpec => []StatusIsRevocable
<1>1. KeepInv => StatusIsRevocable
  BY DEF KeepInv, ServicePoint, Keys, StatusIsRevocable
<1> QED
  BY <1>1, KeepInvAlways, PTL

\* The tables and the requests keep their types.
THEOREM ServiceTypeCorrect == StorageSpec => []TypeOK
<1>1. KeepInv => TypeOK
  BY DEF KeepInv
<1> QED
  BY <1>1, KeepInvAlways, PTL

-----------------------------------------------------------------------------
(* The connection of SQLite.                                               *)

Connection == INSTANCE SharedConnectionProofs WITH pc <- at, given <- index

\* Every step of Storage is one of the connection or leaves it alone.  The instance here is of
\* the theorems, that in Storage of the model: each definition of one is that of the other.
LEMMA StorageStepsConnection ==
    /\ StorageInit => Connection!Init
    /\ [StorageNext]_storageVars => [Connection!Next]_(Connection!vars)
<1>1. StorageInit => Connection!Init
  BY DEF StorageInit, Sqlite!Init, Connection!Init, Sqlite!NoIndex, Connection!NoIndex
<1>2. [StorageNext]_storageVars => [Sqlite!Next]_(Sqlite!vars)
  BY DEF StorageNext, storageVars, connectionVars, Sqlite!vars, Sqlite!runner, Sqlite!request,
     Sqlite!history
<1>3. [Sqlite!Next]_(Sqlite!vars) => [Connection!Next]_(Connection!vars)
  <2>1. ASSUME NEW r \in Requests, NEW k, NEW i, Sqlite!Begin(r, k, i)
        PROVE  Connection!Begin(r, k, i)
    BY <2>1 DEF Sqlite!Begin, Connection!Begin, Sqlite!runner, Connection!runner, Sqlite!NoIndex,
       Connection!NoIndex, Sqlite!Open, Connection!Open, Sqlite!AtRest, Connection!AtRest,
       Sqlite!Goto, Connection!Goto, Sqlite!Send, Connection!Send, Sqlite!StartTransaction,
       Connection!StartTransaction
  <2>2. ASSUME NEW r \in Requests, Sqlite!Began(r) PROVE Connection!Began(r)
    BY <2>2 DEF Sqlite!Began, Connection!Began, Sqlite!runner, Connection!runner, Sqlite!request,
       Connection!request, Sqlite!history, Connection!history, Sqlite!Goto, Connection!Goto,
       Sqlite!Send, Connection!Send, Sqlite!Run, Connection!Run, Sqlite!Innermost,
       Connection!Innermost, Sqlite!Throw, Connection!Throw, Sqlite!Written, Connection!Written,
       Sqlite!Entry, Connection!Entry
  <2>3. ASSUME NEW r \in Requests, Sqlite!FindRevocationData(r)
        PROVE  Connection!FindRevocationData(r)
    BY <2>3 DEF Sqlite!FindRevocationData, Connection!FindRevocationData, Sqlite!runner,
       Connection!runner, Sqlite!history, Connection!history, Sqlite!Goto, Connection!Goto,
       Sqlite!Send, Connection!Send, Sqlite!Run, Connection!Run
  <2>4. ASSUME NEW r \in Requests, Sqlite!SaveRevocationData(r)
        PROVE  Connection!SaveRevocationData(r)
    BY <2>4 DEF Sqlite!SaveRevocationData, Connection!SaveRevocationData, Sqlite!runner,
       Connection!runner, Sqlite!request, Connection!request, Sqlite!history, Connection!history,
       Sqlite!Goto, Connection!Goto, Sqlite!Send, Connection!Send, Sqlite!Run, Connection!Run,
       Sqlite!StartTransaction, Connection!StartTransaction, Sqlite!Save, Connection!Save
  <2>5. ASSUME NEW r \in Requests, Sqlite!UpdateRevocationData(r)
        PROVE  Connection!UpdateRevocationData(r)
    BY <2>5 DEF Sqlite!UpdateRevocationData, Connection!UpdateRevocationData, Sqlite!runner,
       Connection!runner, Sqlite!request, Connection!request, Sqlite!history, Connection!history,
       Sqlite!Goto, Connection!Goto, Sqlite!Send, Connection!Send, Sqlite!Run, Connection!Run,
       Sqlite!Innermost, Connection!Innermost, Sqlite!CommitTransaction,
       Connection!CommitTransaction
  <2>6. ASSUME NEW r \in Requests, Sqlite!FindRevocationList(r)
        PROVE  Connection!FindRevocationList(r)
    BY <2>6 DEF Sqlite!FindRevocationList, Connection!FindRevocationList, Sqlite!runner,
       Connection!runner, Sqlite!history, Connection!history, Sqlite!Goto, Connection!Goto,
       Sqlite!Send, Connection!Send, Sqlite!Run, Connection!Run
  <2>7. ASSUME NEW r \in Requests, Sqlite!SaveRevocationList(r)
        PROVE  Connection!SaveRevocationList(r)
    BY <2>7 DEF Sqlite!SaveRevocationList, Connection!SaveRevocationList, Sqlite!runner,
       Connection!runner, Sqlite!request, Connection!request, Sqlite!history, Connection!history,
       Sqlite!Goto, Connection!Goto, Sqlite!Send, Connection!Send, Sqlite!Run, Connection!Run,
       Sqlite!StartTransaction, Connection!StartTransaction, Sqlite!Innermost,
       Connection!Innermost, Sqlite!CommitTransaction, Connection!CommitTransaction, Sqlite!Save,
       Connection!Save
  <2>8. ASSUME NEW r \in Requests, Sqlite!UpdateRevocationList(r)
        PROVE  Connection!UpdateRevocationList(r)
    BY <2>8 DEF Sqlite!UpdateRevocationList, Connection!UpdateRevocationList, Sqlite!runner,
       Connection!runner, Sqlite!request, Connection!request, Sqlite!history, Connection!history,
       Sqlite!Goto, Connection!Goto, Sqlite!Send, Connection!Send, Sqlite!Run, Connection!Run,
       Sqlite!Innermost, Connection!Innermost, Sqlite!CommitTransaction,
       Connection!CommitTransaction
  <2>9. ASSUME NEW r \in Requests, Sqlite!CheckStatus(r) PROVE Connection!CheckStatus(r)
    BY <2>9 DEF Sqlite!CheckStatus, Connection!CheckStatus, Sqlite!runner, Connection!runner,
       Sqlite!request, Connection!request, Sqlite!history, Connection!history, Sqlite!Goto,
       Connection!Goto, Sqlite!Send, Connection!Send, Sqlite!Run, Connection!Run,
       Sqlite!Innermost, Connection!Innermost, Sqlite!Throw, Connection!Throw
  <2>10. ASSUME NEW r \in Requests, Sqlite!UpdateRevocationListVC(r)
        PROVE  Connection!UpdateRevocationListVC(r)
    BY <2>10 DEF Sqlite!UpdateRevocationListVC, Connection!UpdateRevocationListVC, Sqlite!runner,
       Connection!runner, Sqlite!history, Connection!history, Sqlite!Goto, Connection!Goto,
       Sqlite!Send, Connection!Send, Sqlite!Run, Connection!Run, Sqlite!StartTransaction,
       Connection!StartTransaction, Sqlite!Save, Connection!Save
  <2>11. ASSUME NEW r \in Requests, Sqlite!Committed(r) PROVE Connection!Committed(r)
    BY <2>11 DEF Sqlite!Committed, Connection!Committed, Sqlite!runner, Connection!runner,
       Sqlite!NoIndex, Connection!NoIndex, Sqlite!Goto, Connection!Goto, Sqlite!Send,
       Connection!Send, Sqlite!Run, Connection!Run, Sqlite!Innermost, Connection!Innermost,
       Sqlite!Throw, Connection!Throw, Sqlite!CommitTransaction, Connection!CommitTransaction,
       Sqlite!Ended, Connection!Ended, Sqlite!Answer, Connection!Answer, Sqlite!After,
       Connection!After, Sqlite!Ends, Connection!Ends
  <2>12. ASSUME NEW r \in Requests, Sqlite!RolledBack(r) PROVE Connection!RolledBack(r)
    BY <2>12 DEF Sqlite!RolledBack, Connection!RolledBack, Sqlite!runner, Connection!runner,
       Sqlite!request, Connection!request, Sqlite!history, Connection!history, Sqlite!Goto,
       Connection!Goto, Sqlite!Send, Connection!Send, Sqlite!Run, Connection!Run,
       Sqlite!Innermost, Connection!Innermost, Sqlite!Throw, Connection!Throw, Sqlite!Ended,
       Connection!Ended, Sqlite!Ends, Connection!Ends
  <2>13. ASSUME NEW r \in Requests, Sqlite!Fail(r) PROVE Connection!Fail(r)
    BY <2>13 DEF Sqlite!Fail, Connection!Fail, Sqlite!runner, Connection!runner, Sqlite!request,
       Connection!request, Sqlite!history, Connection!history, Sqlite!Goto, Connection!Goto,
       Sqlite!Send, Connection!Send, Sqlite!Run, Connection!Run, Sqlite!Innermost,
       Connection!Innermost, Sqlite!Throw, Connection!Throw, Sqlite!Ended, Connection!Ended
  <2>14. Sqlite!Restart => Connection!Restart
    BY DEF Sqlite!Restart, Connection!Restart, Sqlite!request, Connection!request, Sqlite!history,
       Connection!history, Sqlite!Open, Connection!Open, Sqlite!Disk, Connection!Disk
  <2>15. UNCHANGED Sqlite!vars => UNCHANGED Connection!vars
    BY DEF Sqlite!vars, Connection!vars, Sqlite!runner, Connection!runner, Sqlite!request,
       Connection!request, Sqlite!history, Connection!history
  <2>16. Sqlite!Indices = Connection!Indices
    BY DEF Sqlite!Indices, Connection!Indices, Sqlite!Cardinality, Connection!Cardinality
  <2>17. ASSUME NEW r \in Requests, Sqlite!Step(r) PROVE Connection!Step(r)
    BY <2>2, <2>3, <2>4, <2>5, <2>6, <2>7, <2>8, <2>9, <2>10, <2>11, <2>12, <2>17
       DEF Sqlite!Step, Connection!Step
  <2>18. Sqlite!Next => Connection!Next
    <3>1. CASE Sqlite!Restart
      BY <2>14, <3>1 DEF Connection!Next
    <3>2. ASSUME NEW r \in Requests, Sqlite!Begin(r, "issue", Sqlite!NoIndex)
          PROVE  Connection!Next
      <4>1. Connection!Begin(r, "issue", Connection!NoIndex)
        BY <2>1, <3>2 DEF Sqlite!NoIndex, Connection!NoIndex
      <4> QED
        BY <4>1 DEF Connection!Next
    <3>3. ASSUME NEW r \in Requests, NEW k \in Sqlite!Kinds \ {"issue"}, NEW i \in Sqlite!Indices,
                 Sqlite!Begin(r, k, i)
          PROVE  Connection!Next
      <4>1. Connection!Begin(r, k, i) /\ k \in Connection!Kinds \ {"issue"}
        BY <2>1, <3>3 DEF Sqlite!Kinds, Connection!Kinds
      <4> QED
        BY <2>16, <4>1 DEF Connection!Next
    <3>4. ASSUME NEW r \in Requests, Sqlite!Step(r) \/ Sqlite!Fail(r)
          PROVE  Connection!Next
      BY <2>13, <2>17, <3>4 DEF Connection!Next
    <3> QED
      BY <3>1, <3>2, <3>3, <3>4 DEF Sqlite!Next
  <2> QED
    BY <2>15, <2>18
<1> QED
  BY <1>1, <1>2, <1>3

\* getRevocationData on the shared connection: the index of a call that began at rest and
\* was not overlapped is on disk, is given to no other such call, and is not lost to the
\* rollbacks, the refused commits and the restarts that come later.
THEOREM SerialIndicesAreKept == StorageSpec => []SerialCallsKeepTheirIndex
<1>1. Connection!SerialCallsKeepTheirIndex => SerialCallsKeepTheirIndex
  BY DEF SerialCallsKeepTheirIndex, Sqlite!SerialCallsKeepTheirIndex,
     Connection!SerialCallsKeepTheirIndex, Sqlite!Serial, Connection!Serial, Sqlite!Disk,
     Connection!Disk, Sqlite!NoIndex, Connection!NoIndex
<1> QED
  BY <1>1, StorageStepsConnection, Connection!SerialIndicesAreKept, PTL
     DEF StorageSpec, Connection!Spec

\* revokeCredential and activateCredential on the shared connection: the bit that such a
\* call has changed is on disk until another call for it begins, although issuances and
\* the revocations of other credentials write whole lists back and undo each other.
THEOREM SerialBitsAreKept == StorageSpec => []SerialCallsKeepTheirBit
<1>1. Connection!SerialCallsKeepTheirBit => SerialCallsKeepTheirBit
  BY DEF SerialCallsKeepTheirBit, Sqlite!SerialCallsKeepTheirBit,
     Connection!SerialCallsKeepTheirBit, Sqlite!Disk, Connection!Disk
<1> QED
  BY <1>1, StorageStepsConnection, Connection!SerialBitsAreKept, PTL
     DEF StorageSpec, Connection!Spec
=============================================================================
