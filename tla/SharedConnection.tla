--------------------------- MODULE SharedConnection ---------------------------
(***************************************************************************)
(* The revocation store in the configuration the agent ships with: SQLite. *)
(* The driver has no row locks (lockRevocationData and lockRevocationList  *)
(* swallow LockNotSupportedOnGivenDriverError) and a single connection     *)
(* with a single query runner, so the transactions of concurrent calls are *)
(* not apart: TypeORM counts how deep they are nested, BEGINs the first,   *)
(* opens savepoints for the others, and a commit or rollback ends the one  *)
(* that the count names.  The count is read when a statement is sent and   *)
(* changed when its result comes back.                                     *)
(*                                                                         *)
(* An action is the execution of the statement a call has sent, with the   *)
(* code up to the next one sent: results come back in the order the        *)
(* statements were executed, and nothing else runs in between.             *)
(*                                                                         *)
(* One issuer, whose rows exist and whose list is long enough for every    *)
(* call (RevocationStore models how lists fill up).  Index 0 was given to  *)
(* a credential before the behaviour starts.                               *)
(***************************************************************************)
EXTENDS Integers, Sequences, FiniteSets

CONSTANT Requests   \* calls of getRevocationData, revokeCredential, activateCredential

VARIABLES
    mem,      \* what every statement of the connection sees: the counter, the list
    stack,    \* BEGIN and the open savepoints: their number, mem as it was then
    depth,    \* transactionDepth of the query runner
    active,   \* isTransactionActive of the query runner
    pc,       \* the statement a call has sent
    level,    \* the number in it: 0 is the transaction, n the savepoint typeorm_<n>
    within,   \* whose transaction it is of: the call's, or one that a save() has begun
    kind,
    target,   \* the index a revocation or activation is about
    entity,   \* the indexCounter being saved
    page,     \* the list being saved
    given,    \* the index an issuance was answered with
    alone,    \* history: which calls were not overlapped, and which of them began at rest
    settled   \* history: the bits that such a call has changed, and no call since

runner == <<depth, active>>
request == <<kind, target, entity, page, given>>
history == <<alone, settled>>
vars == <<mem, stack, runner, pc, level, within, request, history>>

NoIndex == -1
Kinds == {"issue", "revoke", "activate"}
Open == {r \in Requests : pc[r] \notin {"idle", "done"}}

\* No call is open and none has left a transaction or a count behind.
AtRest == Open = {} /\ stack = <<>> /\ depth = 0

\* What is left if the process ends now.
Disk == IF stack = <<>> THEN mem ELSE stack[1].was

Goto(r, where) == pc' = [pc EXCEPT ![r] = where]

-----------------------------------------------------------------------------
(* The query runner: what is sent.                                         *)

Send(r, statement, n, w) ==
    /\ Goto(r, statement)
    /\ level' = [level EXCEPT ![r] = n]
    /\ within' = [within EXCEPT ![r] = w]

\* Statements of the callback and of a save(), in the transaction w.
Run(r, statement, w) == Send(r, statement, 0, w)

\* startTransaction: BEGIN TRANSACTION, or SAVEPOINT typeorm_<depth>.
StartTransaction(r, w) == active' = TRUE /\ Send(r, "begin", depth, w)

\* commitTransaction and rollbackTransaction address the savepoint below a depth d.
Innermost(d) == IF d > 1 THEN d - 1 ELSE 0

\* What w encloses throws: rollbackTransaction, which throws without an active
\* transaction.  The error of the rollback is swallowed, the first one goes on.
Throw(r, w, isActive, d) ==
    IF isActive THEN Send(r, "rollback", Innermost(d), w) ELSE Run(r, "done", "call")

\* commitTransaction, which throws without an active transaction, as the rollback
\* that follows does.
CommitTransaction(r, w, isActive, d) ==
    IF isActive THEN Send(r, "commit", Innermost(d), w) ELSE Run(r, "done", "call")

\* save() of a changed row: in a transaction of its own when none is active.
Save(r, statement, own) ==
    IF active THEN Run(r, statement, "call") /\ UNCHANGED active
    ELSE StartTransaction(r, own)

Written == [data |-> "updateData", list |-> "updateList"]

-----------------------------------------------------------------------------
(* The query runner: what comes back.                                      *)

\* What a COMMIT, RELEASE or ROLLBACK ends: the whole transaction, or the last savepoint
\* of that name and all above it.  SQLite refuses it when there is none.
Ended(r) ==
    IF level[r] = 0 THEN {1} \cap DOMAIN stack
    ELSE {i \in DOMAIN stack :
             /\ stack[i].name = level[r]
             /\ \A j \in DOMAIN stack : stack[j].name = level[r] => j <= i}

Entry(r) == IF kind[r] = "issue" THEN "findData" ELSE "check"

\* BEGIN is refused inside a transaction, and typeorm_-1 is no name.
Began(r) ==
    /\ pc[r] = "begin"
    /\ IF IF level[r] = 0 THEN stack = <<>> ELSE level[r] > 0
       THEN /\ stack' = Append(stack, [name |-> level[r], was |-> mem])
            /\ depth' = depth + 1
            /\ Run(r, IF within[r] = "call" THEN Entry(r) ELSE Written[within[r]], within[r])
       ELSE /\ Throw(r, within[r], active, depth)
            /\ UNCHANGED <<stack, depth>>
    /\ UNCHANGED <<mem, active, request, history>>

\* The answer of a call, and what it settles.
Answer(r) ==
    /\ Run(r, "done", "call")
    /\ given' = [given EXCEPT ![r] = IF kind[r] = "issue" THEN entity[r] ELSE NoIndex]
    /\ settled' = IF alone[r] = "atRest" /\ kind[r] # "issue"
                  THEN settled \cup {[index |-> target[r], revoked |-> kind[r] = "revoke"]}
                  ELSE settled

\* What follows a commit: the answer, the list after the counter, the end of the call.
After(r, isActive, d) ==
    \/ within[r] = "call" /\ Answer(r)
    \/ /\ \/ within[r] = "data" /\ Run(r, "findList", "call")
          \/ within[r] = "list" /\ CommitTransaction(r, "call", isActive, d)
       /\ UNCHANGED <<given, settled>>

\* COMMIT and ROLLBACK end the transaction for the runner, whoever is in it.
Ends(r) == depth' = depth - 1 /\ active' = (active /\ level[r] # 0)

\* Mutant: the transaction is left open.
CommittedNothing(r) ==
    /\ pc[r] = "commit"
    /\ \/ Ended(r) # {} /\ Ends(r) /\ After(r, active', depth')
       \/ /\ Ended(r) = {}
          /\ Throw(r, within[r], active, depth)
          /\ UNCHANGED <<runner, given, settled>>
    /\ UNCHANGED <<mem, stack, kind, target, entity, page, alone>>

\* COMMIT, or RELEASE.
Committed(r) ==
    /\ pc[r] = "commit"
    /\ \/ /\ \E i \in Ended(r) : stack' = SubSeq(stack, 1, i - 1)
          /\ Ends(r)
          /\ After(r, active', depth')
       \/ /\ Ended(r) = {}
          /\ Throw(r, within[r], active, depth)
          /\ UNCHANGED <<stack, runner, given, settled>>
    /\ UNCHANGED <<mem, kind, target, entity, page, alone>>

\* ROLLBACK, or ROLLBACK TO, which leaves the savepoint open, whoever opened it.  The
\* save() whose transaction it was throws on; the call is answered an error.
RolledBack(r) ==
    /\ pc[r] = "rollback"
    /\ \/ /\ \E i \in Ended(r) :
                /\ mem' = stack[i].was
                /\ stack' = IF level[r] = 0 THEN <<>> ELSE SubSeq(stack, 1, i)
          /\ Ends(r)
       \/ Ended(r) = {} /\ UNCHANGED <<mem, stack, runner>>
    /\ IF within[r] = "call" THEN Run(r, "done", "call")
       ELSE Throw(r, "call", active', depth')
    /\ UNCHANGED <<request, history>>

-----------------------------------------------------------------------------
Begin(r, k, i) ==
    /\ pc[r] = "idle"
    /\ k # "issue" => i \in {0} \cup ({given[q] : q \in Requests} \ {NoIndex})
    /\ kind' = [kind EXCEPT ![r] = k]
    /\ target' = [target EXCEPT ![r] = i]
    /\ StartTransaction(r, "call")
    /\ alone' = [q \in Requests |->
                   IF q = r THEN IF AtRest THEN "atRest" ELSE IF Open = {} THEN "yes" ELSE "no"
                   ELSE IF q \in Open THEN "no" ELSE alone[q]]
    /\ settled' = {s \in settled : k = "issue" \/ s.index # i}
    /\ UNCHANGED <<mem, stack, depth, entity, page, given>>

(* getRevocationData.                                                      *)

FindRevocationData(r) ==
    /\ pc[r] = "findData"
    /\ entity' = [entity EXCEPT ![r] = mem.index + 1]
    /\ Run(r, "saveData", "call")
    /\ UNCHANGED <<mem, stack, runner, kind, target, page, given, history>>

\* save() selects the row again and updates it when it differs.
SaveRevocationData(r) ==
    /\ pc[r] = "saveData"
    /\ IF entity[r] = mem.index THEN Run(r, "findList", "call") /\ UNCHANGED active
       ELSE Save(r, "updateData", "data")
    /\ UNCHANGED <<mem, stack, depth, request, history>>

\* A save() that has begun a transaction commits it.
UpdateRevocationData(r) ==
    /\ pc[r] = "updateData"
    /\ mem' = [mem EXCEPT !.index = entity[r]]
    /\ IF within[r] = "call" THEN Run(r, "findList", "call")
       ELSE CommitTransaction(r, "data", active, depth)
    /\ UNCHANGED <<stack, runner, request, history>>

\* Mutant: an issuance creates the list anew.
FindRevocationListAnew(r) ==
    /\ pc[r] = "findList"
    /\ page' = [page EXCEPT ![r] = {}]
    /\ Run(r, "saveList", "call")
    /\ UNCHANGED <<mem, stack, runner, kind, target, entity, given, history>>

FindRevocationList(r) ==
    /\ pc[r] = "findList"
    /\ page' = [page EXCEPT ![r] = mem.revoked]
    /\ Run(r, "saveList", "call")
    /\ UNCHANGED <<mem, stack, runner, kind, target, entity, given, history>>

\* The list is saved as it was found, which is an UPDATE if it has changed meanwhile.
SaveRevocationList(r) ==
    /\ pc[r] = "saveList"
    /\ IF page[r] = mem.revoked
       THEN CommitTransaction(r, "call", active, depth) /\ UNCHANGED active
       ELSE Save(r, "updateList", "list")
    /\ UNCHANGED <<mem, stack, depth, request, history>>

UpdateRevocationList(r) ==
    /\ pc[r] = "updateList"
    /\ mem' = [mem EXCEPT !.revoked = page[r]]
    /\ CommitTransaction(r, within[r], active, depth)
    /\ UNCHANGED <<stack, runner, request, history>>

-----------------------------------------------------------------------------
(* revokeCredential and activateCredential.                                *)

\* _checkStatus reads the list with the same connection: what is not committed too.
CheckStatus(r) ==
    /\ pc[r] = "check"
    /\ IF (target[r] \in mem.revoked) = (kind[r] = "revoke")
       THEN Throw(r, "call", active, depth)
       ELSE Run(r, "findPath", "call")
    /\ UNCHANGED <<mem, stack, runner, request, history>>

\* getRevocationList, and the list with the bit changed and a new signature: save()
\* always finds it different.
UpdateRevocationListVC(r) ==
    /\ pc[r] = "findPath"
    /\ page' = [page EXCEPT ![r] =
                  IF kind[r] = "revoke" THEN mem.revoked \cup {target[r]}
                                        ELSE mem.revoked \ {target[r]}]
    /\ Save(r, "updateList", "list")
    /\ UNCHANGED <<mem, stack, depth, kind, target, entity, given, history>>

-----------------------------------------------------------------------------
\* Signing fails, the credential is unknown, the status check fails, the file is locked
\* by another connection: of the statements before the end, and of the COMMIT.
Fail(r) ==
    /\ pc[r] \notin {"idle", "begin", "rollback", "done"}
    /\ pc[r] = "commit" => Ended(r) = {1}
    /\ Throw(r, within[r], active, depth)
    /\ UNCHANGED <<mem, stack, runner, request, history>>

\* The process ends and is started again, with a new connection.
Restart ==
    /\ mem' = Disk
    /\ stack' = <<>>
    /\ depth' = 0 /\ active' = FALSE
    /\ pc' = [r \in Requests |-> IF r \in Open THEN "done" ELSE pc[r]]
    /\ UNCHANGED <<level, within, request, history>>

Init ==
    /\ mem = [index |-> 0, revoked |-> {}]
    /\ stack = <<>>
    /\ depth = 0 /\ active = FALSE
    /\ pc = [r \in Requests |-> "idle"]
    /\ level = [r \in Requests |-> 0]
    /\ within = [r \in Requests |-> "call"]
    /\ kind = [r \in Requests |-> "issue"]
    /\ target = [r \in Requests |-> NoIndex]
    /\ entity = [r \in Requests |-> NoIndex]
    /\ page = [r \in Requests |-> {}]
    /\ given = [r \in Requests |-> NoIndex]
    /\ alone = [r \in Requests |-> "no"]
    /\ settled = {}

Step(r) ==
    \/ Began(r)
    \/ FindRevocationData(r)
    \/ SaveRevocationData(r)
    \/ UpdateRevocationData(r)
    \/ FindRevocationList(r)
    \/ SaveRevocationList(r)
    \/ UpdateRevocationList(r)
    \/ CheckStatus(r)
    \/ UpdateRevocationListVC(r)
    \/ Committed(r)
    \/ RolledBack(r)

Indices == 0..Cardinality(Requests)

Next ==
    \/ \E r \in Requests :
          \/ Begin(r, "issue", NoIndex)
          \/ \E k \in Kinds \ {"issue"}, i \in Indices : Begin(r, k, i)
          \/ Step(r)
          \/ Fail(r)
    \/ Restart

Spec == Init /\ [][Next]_vars

-----------------------------------------------------------------------------
(* Properties.                                                             *)

\* An issuance begun at rest and not overlapped keeps what it was answered with, whatever
\* overlapping, failing and rolled back calls, refused commits and restarts come later:
\* its index is on disk and stays counted, and no two such calls, nor the credential
\* before them, share one.
Serial == {r \in Requests : pc[r] = "done" /\ alone[r] = "atRest" /\ given[r] # NoIndex}
SerialCallsKeepTheirIndex ==
    /\ \A r \in Serial : 0 < given[r] /\ given[r] <= Disk.index
    /\ \A q, r \in Serial : q # r => given[q] # given[r]

\* A bit changed by a revocation or activation begun at rest and not overlapped is on disk
\* until another call for that bit begins: no issuance or revocation of another credential
\* writes back a list from before it, and no rollback or restart takes it away.
SerialCallsKeepTheirBit ==
    \A s \in settled : (s.index \in Disk.revoked) = s.revoked

\* No two issuances are answered one index.
UniqueStatus ==
    \A q, r \in Requests : q # r /\ given[q] # NoIndex => given[q] # given[r]

\* Every issuance gets its status that no other call overlaps and nothing from outside
\* makes fail, whatever calls there were before it.
LoneIssuanceIsAnswered ==
    \A r \in Requests :
        pc[r] = "done" /\ kind[r] = "issue" /\ alone[r] # "no" => given[r] # NoIndex
=============================================================================
