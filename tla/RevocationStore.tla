--------------------------- MODULE RevocationStore ---------------------------
(***************************************************************************)
(* The store behind the revocation-list-2020 plugin, on PostgreSQL:        *)
(* RevocationDataStore and the three plugin methods that write through it  *)
(* (getRevocationData, revokeCredential, activateCredential).              *)
(*                                                                         *)
(* Every request runs its callback in a READ COMMITTED transaction.  A     *)
(* SELECT ... FOR SHARE (lockRevocationData, lockRevocationList) locks the *)
(* row it finds and nothing when there is no row; an INSERT or UPDATE      *)
(* takes the row exclusively until the transaction ends; a cycle of        *)
(* waiting transactions loses one of them to the deadlock detector, and    *)
(* that one runs its callback again.  TypeORM's save() of a loaded entity  *)
(* first selects the row again and then updates only the columns that      *)
(* differ from what it selected.                                           *)
(*                                                                         *)
(* A credential carries the name of the request that issued it.  An        *)
(* issuer in Seeded has issued one credential before the behaviour starts, *)
(* named like the issuer: its rows exist already.                          *)
(***************************************************************************)
EXTENDS Naturals

CONSTANTS
    Issuers,      \* DIDs managed by the agent
    Requests,     \* calls of getRevocationData, revokeCredential, activateCredential
    Slug,         \* issuer -> its DID with every ":" replaced by "_"
    BitLengths,   \* values of bitStringLength among the server's configurations
    MaxRetries,   \* maxRetries of runTransactionWithExponentialBackoff (5)
    Seeded,       \* issuers that have issued before
    SeedLength,   \* bitStringLength those first credentials were issued under
    NoRow         \* no such row, nothing chosen yet

ASSUME ConstantsAssumption ==
    /\ DOMAIN Slug = Issuers
    /\ BitLengths \subseteq Nat \ {0}
    /\ MaxRetries \in Nat \ {0}
    /\ Seeded \subseteq Issuers
    /\ SeedLength \in BitLengths
    /\ Seeded \cap Requests = {}

VARIABLES
    data,      \* committed RevocationData rows, by issuer
    lists,     \* committed RevocationList rows, by issuer and list counter
    shared,    \* rows a request's transaction holds FOR SHARE
    excl,      \* rows a request's transaction has written
    pc,        \* where a request is
    op,        \* what a request asks for
    retries,   \* retries of runTransactionWithExponentialBackoff so far
    entity,    \* the RevocationData entity being saved
    dirty,     \* the columns of it that save() found to differ
    key,       \* the RevocationList row being saved
    page,      \* the list in the verifiable credential being saved there
    result,    \* what the caller is told
    status,    \* history: the credentialStatus a credential was given
    intent,    \* history: whether a credential was last revoked or activated
    applied    \* history: the requests whose transaction committed

tables == <<data, lists>>
locks == <<shared, excl>>
local == <<entity, dirty, key, page>>
history == <<status, intent, applied>>
vars == <<data, lists, shared, excl, pc, op, retries, entity, dirty, key, page,
          result, status, intent, applied>>

-----------------------------------------------------------------------------
(* Rows, statuses and operations.                                          *)

Columns == {"list", "index", "len"}
DataRows == [list : Nat, index : Nat, len : BitLengths]
ListKeys == Issuers \X Nat
ListRows == [len : BitLengths, revoked : SUBSET Nat]

Credentials == Seeded \cup Requests
Statuses == [issuer : Issuers, list : Nat, index : Nat]
KeyOf(s) == <<s.issuer, s.list>>

IssueOps == [kind : {"issue"}, issuer : Issuers, len : BitLengths]
ChangeOps == [kind : {"revoke", "activate"}, target : Credentials]

\* The names of lockable rows.
DataRow(i) == <<"data", i>>
ListRow(k) == <<"list", k>>
Rows == ({"data"} \X Issuers) \cup ({"list"} \X ListKeys)

\* The list rows found under the path of a status: getRevocationList and
\* getRevocationListVC look a list up by path alone, which names the issuer by slug.
PathKeys(s) ==
    {k \in DOMAIN lists : Slug[k[1]] = Slug[s.issuer] /\ k[2] = s.list}

\* Mutants of NextRow: the last index of a list is used once too often; the index of
\* a new list starts before the first.
NextRowPastEnd(row, len) ==
    IF len # row.len \/ row.index + 1 > row.len
    THEN [list |-> row.list + 1, index |-> 0, len |-> len]
    ELSE [row EXCEPT !.index = row.index + 1]

NextRowBelowZero(row, len) ==
    IF len # row.len \/ row.index + 1 >= row.len
    THEN [list |-> row.list + 1, index |-> 0 - 1, len |-> len]
    ELSE [row EXCEPT !.index = row.index + 1]

\* The counters upsertRevocationData gives a new row, and those after row.
FirstRow(len) == [list |-> 0, index |-> 0, len |-> len]
NextRow(row, len) ==
    IF len # row.len \/ row.index + 1 >= row.len
    THEN [list |-> row.list + 1, index |-> 0, len |-> len]
    ELSE [row EXCEPT !.index = row.index + 1]

\* A table with the row at x inserted or replaced.
Put(table, x, row) ==
    [y \in DOMAIN table \cup {x} |-> IF y = x THEN row ELSE table[y]]

\* The committed row with the columns the UPDATE names overwritten.
Overlay(row, new, columns) ==
    [f \in Columns |-> IF f \in columns THEN new[f] ELSE row[f]]

-----------------------------------------------------------------------------
(* Row locks, waiting and deadlock.                                        *)

\* A request waits for a row only while another transaction holds it in a way
\* that conflicts with the statement it is at.
Sharers(r, row) == {q \in Requests \ {r} : row \in shared[q]}
Writers(r, row) == {q \in Requests \ {r} : row \in excl[q]}

Blockers(r) ==
    CASE pc[r] = "lockData"   -> Writers(r, DataRow(op[r].issuer))
      [] pc[r] = "insertData" -> Writers(r, DataRow(op[r].issuer))
      [] pc[r] = "updateData" -> Sharers(r, DataRow(op[r].issuer))
                                 \cup Writers(r, DataRow(op[r].issuer))
      [] pc[r] = "lockList"   -> Writers(r, ListRow(<<op[r].issuer, entity[r].list>>))
      [] pc[r] = "insertList" -> Writers(r, ListRow(key[r]))
      [] pc[r] = "updateList" -> Sharers(r, ListRow(key[r]))
                                 \cup Writers(r, ListRow(key[r]))
      [] pc[r] = "lockPath"   ->
            LET found == PathKeys(status[op[r].target])
            IN  IF \E k \in found : Writers(r, ListRow(k)) = {} THEN {}
                ELSE UNION {Writers(r, ListRow(k)) : k \in found}
      [] OTHER -> {}

\* r is on a cycle of the waits-for graph: it is in every set of requests that
\* holds those it waits for and, with a request, those that one waits for.
InDeadlock(r) ==
    \A D \in SUBSET Requests :
        (Blockers(r) \subseteq D /\ \A d \in D : Blockers(d) \subseteq D) => r \in D

Finish(r, answer) ==
    /\ pc' = [pc EXCEPT ![r] = "done"]
    /\ result' = [result EXCEPT ![r] = answer]

\* Mutant: a transaction that ends keeps its row locks.
ReleaseNothing(r) == r \in Requests /\ UNCHANGED locks

Release(r) ==
    /\ shared' = [shared EXCEPT ![r] = {}]
    /\ excl' = [excl EXCEPT ![r] = {}]

\* A statement or the callback throws: ROLLBACK, and the error reaches the caller.
Throw(r, answer) ==
    /\ Finish(r, answer)
    /\ Release(r)
    /\ UNCHANGED <<tables, op, retries, local, history>>

-----------------------------------------------------------------------------
(* getRevocationData: upsertRevocationData, then upsertRevocationList.     *)

Entry(kind) == IF kind = "issue" THEN "lockData" ELSE "check"

\* A call arrives.  A credential is revoked or activated by its holder's hash, so
\* only once it has been issued.
Arrive(r, o) ==
    /\ pc[r] = "idle"
    /\ o \in ChangeOps => status[o.target] # NoRow
    /\ op' = [op EXCEPT ![r] = o]
    /\ pc' = [pc EXCEPT ![r] = Entry(o.kind)]
    /\ UNCHANGED <<tables, locks, retries, local, result, history>>

\* Mutant: the row is not locked before it is read.
LockRevocationDataSkipped(r) ==
    /\ pc[r] = "lockData"
    /\ pc' = [pc EXCEPT ![r] = "findData"]
    /\ UNCHANGED <<tables, locks, op, retries, local, result, history>>

LockRevocationData(r) ==
    LET i == op[r].issuer IN
    /\ pc[r] = "lockData"
    /\ Blockers(r) = {}
    /\ shared' = [shared EXCEPT ![r] =
                     IF i \in DOMAIN data THEN @ \cup {DataRow(i)} ELSE @]
    /\ pc' = [pc EXCEPT ![r] = "findData"]
    /\ UNCHANGED <<tables, excl, op, retries, local, result, history>>

\* findOne, and the next counters computed in the entity it returned.
FindRevocationData(r) ==
    LET i == op[r].issuer IN
    /\ pc[r] = "findData"
    /\ IF i \in DOMAIN data
       THEN /\ entity' = [entity EXCEPT ![r] = NextRow(data[i], op[r].len)]
            /\ pc' = [pc EXCEPT ![r] = "saveData"]
       ELSE /\ entity' = [entity EXCEPT ![r] = FirstRow(op[r].len)]
            /\ pc' = [pc EXCEPT ![r] = "insertData"]
    /\ UNCHANGED <<tables, locks, op, retries, dirty, key, page, result, history>>

\* Mutant: no unique index; the second row replaces the first.
InsertRevocationDataUnchecked(r) ==
    /\ pc[r] = "insertData"
    /\ Blockers(r) = {}
    /\ excl' = [excl EXCEPT ![r] = @ \cup {DataRow(op[r].issuer)}]
    /\ dirty' = [dirty EXCEPT ![r] = Columns]
    /\ pc' = [pc EXCEPT ![r] = "lockList"]
    /\ UNCHANGED <<tables, shared, op, retries, entity, key, page, result, history>>

\* The unique index on path and issuer refuses a second row; the error is none
\* of DB_ERRORS, so nothing is tried again.
InsertRevocationData(r) ==
    LET i == op[r].issuer IN
    /\ pc[r] = "insertData"
    /\ Blockers(r) = {}
    /\ IF i \in DOMAIN data
       THEN Throw(r, "error")
       ELSE /\ excl' = [excl EXCEPT ![r] = @ \cup {DataRow(i)}]
            /\ dirty' = [dirty EXCEPT ![r] = Columns]
            /\ pc' = [pc EXCEPT ![r] = "lockList"]
            /\ UNCHANGED <<tables, shared, op, retries, entity, key, page, result,
                           history>>

\* save() of a loaded entity selects the row again; no difference, no UPDATE.
SaveRevocationData(r) ==
    LET row == data[op[r].issuer]
        changed == {f \in Columns : entity[r][f] # row[f]}
    IN
    /\ pc[r] = "saveData"
    /\ dirty' = [dirty EXCEPT ![r] = changed]
    /\ pc' = [pc EXCEPT ![r] = IF changed = {} THEN "lockList" ELSE "updateData"]
    /\ UNCHANGED <<tables, locks, op, retries, entity, key, page, result, history>>

UpdateRevocationData(r) ==
    /\ pc[r] = "updateData"
    /\ Blockers(r) = {}
    /\ excl' = [excl EXCEPT ![r] = @ \cup {DataRow(op[r].issuer)}]
    /\ pc' = [pc EXCEPT ![r] = "lockList"]
    /\ UNCHANGED <<tables, shared, op, retries, local, result, history>>

\* Mutant: the row is not locked before it is read and saved back.
LockRevocationListSkipped(r) ==
    /\ pc[r] = "lockList"
    /\ key' = [key EXCEPT ![r] = <<op[r].issuer, entity[r].list>>]
    /\ pc' = [pc EXCEPT ![r] = "findList"]
    /\ UNCHANGED <<tables, locks, op, retries, entity, dirty, page, result, history>>

LockRevocationList(r) ==
    LET k == <<op[r].issuer, entity[r].list>> IN
    /\ pc[r] = "lockList"
    /\ Blockers(r) = {}
    /\ shared' = [shared EXCEPT ![r] =
                     IF k \in DOMAIN lists THEN @ \cup {ListRow(k)} ELSE @]
    /\ key' = [key EXCEPT ![r] = k]
    /\ pc' = [pc EXCEPT ![r] = "findList"]
    /\ UNCHANGED <<tables, excl, op, retries, entity, dirty, page, result, history>>

\* findOne; a missing list becomes a new credential with every bit clear.
FindRevocationList(r) ==
    /\ pc[r] = "findList"
    /\ IF key[r] \in DOMAIN lists
       THEN /\ page' = [page EXCEPT ![r] = lists[key[r]]]
            /\ pc' = [pc EXCEPT ![r] = "saveList"]
       ELSE /\ page' = [page EXCEPT ![r] = [len |-> op[r].len, revoked |-> {}]]
            /\ pc' = [pc EXCEPT ![r] = "insertList"]
    /\ UNCHANGED <<tables, locks, op, retries, entity, dirty, key, result, history>>

InsertRevocationList(r) ==
    /\ pc[r] = "insertList"
    /\ Blockers(r) = {}
    /\ IF key[r] \in DOMAIN lists
       THEN Throw(r, "error")
       ELSE /\ excl' = [excl EXCEPT ![r] = @ \cup {ListRow(key[r])}]
            /\ pc' = [pc EXCEPT ![r] = "commit"]
            /\ UNCHANGED <<tables, shared, op, retries, local, result, history>>

\* The list that was found is saved as it was read: an UPDATE when the row has
\* another content by now, nothing otherwise.
SaveRevocationList(r) ==
    /\ pc[r] = "saveList"
    /\ pc' = [pc EXCEPT ![r] =
                 IF page[r] = lists[key[r]] THEN "commit" ELSE "updateList"]
    /\ UNCHANGED <<tables, locks, op, retries, local, result, history>>

UpdateRevocationList(r) ==
    /\ pc[r] = "updateList"
    /\ Blockers(r) = {}
    /\ excl' = [excl EXCEPT ![r] = @ \cup {ListRow(key[r])}]
    /\ pc' = [pc EXCEPT ![r] = "commit"]
    /\ UNCHANGED <<tables, shared, op, retries, local, result, history>>

-----------------------------------------------------------------------------
(* revokeCredential and activateCredential.                                *)

\* _checkStatus reads the committed list over HTTP, outside the transaction, and
\* takes a check that fails (no connection, bad proof) for a revoked credential.
CheckStatus(r) ==
    LET s == status[op[r].target] IN
    /\ pc[r] = "check"
    /\ \E revoked \in {TRUE} \cup {(s.index \in lists[k].revoked) : k \in PathKeys(s)} :
          IF revoked = (op[r].kind = "revoke")
          THEN Throw(r, "already")
          ELSE /\ pc' = [pc EXCEPT ![r] = "lockPath"]
               /\ UNCHANGED <<tables, locks, op, retries, local, result, history>>

\* Mutant: the list is not locked before it is read, changed and saved.
LockPathSkipped(r) ==
    /\ pc[r] = "lockPath"
    /\ pc' = [pc EXCEPT ![r] = "findPath"]
    /\ UNCHANGED <<tables, locks, op, retries, local, result, history>>

\* The lock query is an EXISTS: it stops at the first row it finds under the path.
\* Lists are never deleted, so a credential that was issued here has one.
LockPath(r) ==
    /\ pc[r] = "lockPath"
    /\ \E k \in PathKeys(status[op[r].target]) :
          /\ Writers(r, ListRow(k)) = {}
          /\ shared' = [shared EXCEPT ![r] = @ \cup {ListRow(k)}]
    /\ pc' = [pc EXCEPT ![r] = "findPath"]
    /\ UNCHANGED <<tables, excl, op, retries, local, result, history>>

\* getRevocationList and the list with the bit set or cleared, signed anew; the
\* new signature makes the following save() an UPDATE whatever the bits are.
UpdateRevocationListVC(r) ==
    LET s == status[op[r].target] IN
    /\ pc[r] = "findPath"
    /\ \E k \in PathKeys(s) :
          IF s.index < lists[k].len
          THEN /\ key' = [key EXCEPT ![r] = k]
               /\ page' = [page EXCEPT ![r] =
                             [lists[k] EXCEPT !.revoked =
                                IF op[r].kind = "revoke" THEN @ \cup {s.index}
                                                         ELSE @ \ {s.index}]]
               /\ pc' = [pc EXCEPT ![r] = "updateList"]
               /\ UNCHANGED <<tables, locks, op, retries, entity, dirty, result, history>>
          ELSE Throw(r, "error")

-----------------------------------------------------------------------------
(* runTransactionWithExponentialBackoff.                                   *)

StatusOf(r) ==
    [issuer |-> op[r].issuer, list |-> entity[r].list, index |-> entity[r].index]

Commit(r) ==
    /\ pc[r] = "commit"
    /\ data' = IF op[r].kind = "issue" /\ DataRow(op[r].issuer) \in excl[r]
               THEN LET i == op[r].issuer IN
                    Put(data, i, IF i \in DOMAIN data
                                 THEN Overlay(data[i], entity[r], dirty[r])
                                 ELSE entity[r])
               ELSE data
    /\ lists' = IF ListRow(key[r]) \in excl[r] THEN Put(lists, key[r], page[r]) ELSE lists
    /\ IF op[r].kind = "issue"
       THEN /\ status' = [status EXCEPT ![r] = StatusOf(r)]
            /\ UNCHANGED intent
       ELSE /\ intent' = [intent EXCEPT ![op[r].target] = (op[r].kind = "revoke")]
            /\ UNCHANGED status
    /\ applied' = applied \cup {r}
    /\ Finish(r, "ok")
    /\ Release(r)
    /\ UNCHANGED <<op, retries, local>>

\* The deadlock detector aborts r.  The callback is run again while retries are
\* left; after the last one the loop ends and the function returns: revoke and
\* activate answer as usual, and the middleware fails on an undefined result.
Deadlocked(r) ==
    /\ InDeadlock(r)
    /\ retries' = [retries EXCEPT ![r] = @ + 1]
    /\ Release(r)
    /\ IF retries[r] + 1 < MaxRetries
       THEN /\ pc' = [pc EXCEPT ![r] = Entry(op[r].kind)]
            /\ UNCHANGED result
       ELSE Finish(r, IF op[r].kind = "issue" THEN "error" ELSE "ok")
    /\ UNCHANGED <<tables, op, local, history>>

\* Any other error inside the callback: the issuer is not managed by the agent,
\* the credential is not found, signing fails, the connection or the process dies.
Fail(r) ==
    /\ pc[r] \notin {"idle", "done"}
    /\ Throw(r, "error")

-----------------------------------------------------------------------------
(* The behaviours.                                                         *)

Init ==
    /\ data = [i \in Seeded |-> FirstRow(SeedLength)]
    /\ lists = [k \in Seeded \X {0} |-> [len |-> SeedLength, revoked |-> {}]]
    /\ shared = [r \in Requests |-> {}]
    /\ excl = [r \in Requests |-> {}]
    /\ pc = [r \in Requests |-> "idle"]
    /\ op = [r \in Requests |-> NoRow]
    /\ retries = [r \in Requests |-> 0]
    /\ entity = [r \in Requests |-> NoRow]
    /\ dirty = [r \in Requests |-> {}]
    /\ key = [r \in Requests |-> NoRow]
    /\ page = [r \in Requests |-> NoRow]
    /\ result = [r \in Requests |-> "none"]
    /\ status = [c \in Credentials |->
                   IF c \in Seeded THEN [issuer |-> c, list |-> 0, index |-> 0]
                                   ELSE NoRow]
    /\ intent = [c \in Credentials |-> FALSE]
    /\ applied = {}

\* One step of the server and the database on behalf of r.
Step(r) ==
    \/ LockRevocationData(r)
    \/ FindRevocationData(r)
    \/ InsertRevocationData(r)
    \/ SaveRevocationData(r)
    \/ UpdateRevocationData(r)
    \/ LockRevocationList(r)
    \/ FindRevocationList(r)
    \/ InsertRevocationList(r)
    \/ SaveRevocationList(r)
    \/ UpdateRevocationList(r)
    \/ CheckStatus(r)
    \/ LockPath(r)
    \/ UpdateRevocationListVC(r)
    \/ Commit(r)

Next ==
    \E r \in Requests :
        \/ \E o \in IssueOps \cup ChangeOps : Arrive(r, o)
        \/ Step(r)
        \/ Deadlocked(r)
        \/ Fail(r)

Spec == Init /\ [][Next]_vars

\* Node.js runs every continuation that is ready and PostgreSQL resolves every
\* deadlock; nothing makes a call arrive or an error happen.
Fairness == \A r \in Requests : WF_vars(Step(r)) /\ WF_vars(Deadlocked(r))

FairSpec == Spec /\ Fairness

-----------------------------------------------------------------------------
(* Properties.                                                             *)

PCs == {"idle", "lockData", "findData", "insertData", "saveData", "updateData",
        "lockList", "findList", "insertList", "saveList", "updateList", "check",
        "lockPath", "findPath", "commit", "done"}

\* Type correctness of the two tables, the lock table and every request.
TypeOK ==
    /\ DOMAIN data \subseteq Issuers
    /\ \A i \in DOMAIN data : data[i] \in DataRows
    /\ DOMAIN lists \subseteq ListKeys
    /\ \A k \in DOMAIN lists : lists[k] \in ListRows
    /\ shared \in [Requests -> SUBSET Rows]
    /\ excl \in [Requests -> SUBSET Rows]
    /\ pc \in [Requests -> PCs]
    /\ op \in [Requests -> IssueOps \cup ChangeOps \cup {NoRow}]
    /\ retries \in [Requests -> Nat]
    /\ entity \in [Requests -> DataRows \cup {NoRow}]
    /\ dirty \in [Requests -> SUBSET Columns]
    /\ key \in [Requests -> ListKeys \cup {NoRow}]
    /\ page \in [Requests -> ListRows \cup {NoRow}]
    /\ result \in [Requests -> {"none", "ok", "already", "error"}]
    /\ status \in [Credentials -> Statuses \cup {NoRow}]
    /\ intent \in [Credentials -> BOOLEAN]
    /\ applied \subseteq Requests

\* No two credentials are ever given the same bit of the same list, whatever
\* issuances interleave: what lockRevocationData is for.
UniqueStatus ==
    \A c, d \in Credentials :
        c # d /\ status[c] # NoRow => status[c] # status[d]

\* A credential's status points into a list that exists and has that bit.
StatusResolves ==
    \A c \in Credentials :
        status[c] # NoRow =>
            /\ KeyOf(status[c]) \in DOMAIN lists
            /\ status[c].index < lists[KeyOf(status[c])].len

\* A credential's bit is what the last committed revocation or activation of that
\* credential made it: no revocation is lost to another one of the list, or to an
\* issuance that saves the list as it found it, and none reaches another credential.
BitsAreIntent ==
    \A c \in Credentials :
        status[c] # NoRow =>
            (status[c].index \in lists[KeyOf(status[c])].revoked <=> intent[c])

\* A caller told of success had its transaction committed.
SuccessIsCommitted == \A r \in Requests : result[r] = "ok" => r \in applied

\* A revocation is refused as "already revoked" only when the credential is.
RefusalIsTrue ==
    [][\A r \in Requests :
          result'[r] = "already" /\ result[r] = "none" /\ op[r].kind = "revoke"
              => intent[op[r].target]]_vars

\* The counters of an issuer only move forward: an older entity is never saved
\* over a newer row.
Before(a, b) == a.list < b.list \/ (a.list = b.list /\ a.index < b.index)

CountersStep ==
    \A i \in DOMAIN data :
        i \in DOMAIN data' /\ (data'[i] = data[i] \/ Before(data[i], data'[i]))

CountersAdvance == [][CountersStep]_vars

\* The tables implement the registry of statuses: every step of a transaction but
\* its commit is invisible, and a commit assigns one fresh, active status or changes
\* the bit of one credential.
RevokedCredentials ==
    {c \in Credentials :
        /\ status[c] # NoRow
        /\ KeyOf(status[c]) \in DOMAIN lists
        /\ status[c].index \in lists[KeyOf(status[c])].revoked}

Registry == INSTANCE StatusRegistry
    WITH Unassigned <- NoRow, given <- status, revoked <- RevokedCredentials

ImplementsRegistry == Registry!Spec

\* Every call is answered: waiting transactions, deadlocks and retries end.
EveryCallAnswered == \A r \in Requests : pc[r] # "idle" ~> pc[r] = "done"

=============================================================================
