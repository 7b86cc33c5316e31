-------------------------- MODULE CredentialService --------------------------
(***************************************************************************)
(* The requests that the default server configuration lets meet on one     *)
(* credential: issuing through the agent route (revocation middleware,     *)
(* credential router, data store, encrypted storage's interceptor),        *)
(* through the VC API or through the agent's /credentials/issue, deleting  *)
(* through the VC API, encrypting, revoking and activating through the     *)
(* agent.                                                                  *)
(*                                                                         *)
(* Each handler is a state machine over four tables; a step is one         *)
(* statement on one of them.  The revocation store appears as the statuses  *)
(* it hands out and the bits that are set: which status an issuance is     *)
(* given is the store's matter, on SQLite (modules RevocationStore and     *)
(* SharedConnection) even one that is taken.  A credential and the         *)
(* encrypted document a request makes carry the name of the request.       *)
(*                                                                         *)
(* The interceptor is an async function whose promise nobody awaits: when  *)
(* it throws, Node.js ends the process.  The process manager starts it     *)
(* again with the tables as they were, and the requests in flight are lost.*)
(***************************************************************************)
CONSTANTS
    Requests,     \* HTTP requests
    Statuses,     \* the bits of the revocation lists
    Formats,      \* the values of proofFormat
    Supported,    \* supportedProofFormats of the revocation middleware
    VcApiFormat,  \* the proof format of the VC API's configuration ("lds")
    OAFormat,     \* "OpenAttestationMerkleProofSignature2018"
    None          \* no status, no order

ASSUME ServiceAssumption ==
    /\ Supported \subseteq Formats
    /\ VcApiFormat \in Formats
    /\ OAFormat \in Formats
    /\ None \notin Statuses

VARIABLES
    given,        \* the status given to each credential
    revoked,      \* the statuses whose bit is set
    credentials,  \* the credential table of the data store
    documents,    \* the encrypted-data table
    pointers,     \* the credential-encrypted-data table: credential -> document
    pc,           \* where a request is
    order,        \* what it asks for
    answer        \* what its client was answered

registry == <<given, revoked>>
storage == <<documents, pointers>>
vars == <<given, revoked, credentials, documents, pointers, pc, order, answer>>

-----------------------------------------------------------------------------
(* Orders.                                                                 *)

\* routeCreation: POST /agent/routeCreationVerifiableCredential; agentIssue: POST
\* /agent/credentials/issue, always OpenAttestation; vcApi: POST /credentials/issue,
\* which imposes its configuration.
IssueOrders ==
    [kind : {"issue"}, route : {"routeCreation"}, format : Formats, save : BOOLEAN]
    \cup [kind : {"issue"}, route : {"agentIssue"}, format : {OAFormat}, save : BOOLEAN]
    \cup [kind : {"issue"}, route : {"vcApi"}, format : {VcApiFormat}, save : {TRUE}]

TargetOrders ==
    [kind : {"encrypt", "delete", "revoke", "activate"}, target : Requests]

Orders == IssueOrders \cup TargetOrders

\* The credential that a request stores encrypted.
Subject(r) == IF order[r].kind = "issue" THEN r ELSE order[r].target

\* Only the answers of routeCreation are intercepted.
Intercepted(r) == order[r].kind = "issue" /\ order[r].route = "routeCreation"

InterceptPCs == {"saveDocument", "findPointer", "insertPointer", "updatePointer"}

Reply(r, a) ==
    /\ pc' = [pc EXCEPT ![r] = "done"]
    /\ answer' = [answer EXCEPT ![r] = a]

\* The process ends; every request in flight loses its connection.
InFlight(q) == pc[q] \notin {"idle", "done"}

EndProcess ==
    /\ pc' = [q \in Requests |-> IF InFlight(q) THEN "done" ELSE pc[q]]
    /\ answer' = [q \in Requests |-> IF InFlight(q) THEN "lost" ELSE answer[q]]

\* A statement of encryptAndStoreData fails: thrown out of the interceptor, or
\* caught by the agent router when the method was called itself.
StorageError(r) == IF Intercepted(r) THEN EndProcess ELSE Reply(r, "error")

-----------------------------------------------------------------------------
(* Issuing.                                                                *)

Entry(o) ==
    CASE o.kind = "issue" /\ o.route = "routeCreation" -> "middleware"
      [] o.kind = "issue" /\ o.route # "routeCreation" -> "create"
      [] o.kind = "encrypt" -> "saveDocument"
      [] o.kind = "delete" -> "lookup"
      [] o.kind \in {"revoke", "activate"} -> "find"

Arrive(r, o) ==
    /\ pc[r] = "idle"
    /\ order' = [order EXCEPT ![r] = o]
    /\ pc' = [pc EXCEPT ![r] = Entry(o)]
    /\ UNCHANGED <<registry, credentials, storage, answer>>

\* revocationList2020Middleware: a supported format is given the status the store
\* answers, and the credential to be created carries it; other requests pass.
RevocationMiddleware(r) ==
    /\ pc[r] = "middleware"
    /\ IF order[r].format \in Supported
       THEN \E s \in Statuses : given' = [given EXCEPT ![r] = s]
       ELSE UNCHANGED given
    /\ pc' = [pc EXCEPT ![r] = "create"]
    /\ UNCHANGED <<revoked, credentials, storage, order, answer>>

\* The created credential is the answer; the answer of routeCreation is intercepted.
Return(r) ==
    IF Intercepted(r)
    THEN pc' = [pc EXCEPT ![r] = "saveDocument"] /\ UNCHANGED answer
    ELSE Reply(r, "created")

\* The plugin that the router chose makes and signs the credential; with `save` it
\* goes to the data store before it is returned.
CreateCredential(r) ==
    /\ pc[r] = "create"
    /\ IF order[r].save
       THEN pc' = [pc EXCEPT ![r] = "save"] /\ UNCHANGED answer
       ELSE Return(r)
    /\ UNCHANGED <<registry, credentials, storage, order>>

SaveCredential(r) ==
    /\ pc[r] = "save"
    /\ credentials' = credentials \cup {r}
    /\ Return(r)
    /\ UNCHANGED <<registry, storage, order>>

-----------------------------------------------------------------------------
(* encryptAndStoreData: two save() calls, no transaction around them.      *)

SaveDocument(r) ==
    /\ pc[r] = "saveDocument"
    /\ documents' = documents \cup {r}
    /\ pc' = [pc EXCEPT ![r] = "findPointer"]
    /\ UNCHANGED <<registry, credentials, pointers, order, answer>>

\* save() of a row with a given primary key looks for it first.
FindPointer(r) ==
    /\ pc[r] = "findPointer"
    /\ pc' = [pc EXCEPT ![r] =
                 IF Subject(r) \in DOMAIN pointers THEN "updatePointer" ELSE "insertPointer"]
    /\ UNCHANGED <<registry, credentials, storage, order, answer>>

Point(c, d) ==
    pointers' = [x \in DOMAIN pointers \cup {c} |-> IF x = c THEN d ELSE pointers[x]]

Stored(r) == Reply(r, IF Intercepted(r) THEN "stored" ELSE "encrypted")

\* Mutant: no foreign key to the credential table.
InsertPointerUnchecked(r) ==
    /\ pc[r] = "insertPointer"
    /\ Point(Subject(r), r) /\ Stored(r)
    /\ UNCHANGED <<registry, credentials, documents, order>>

\* The primary key refuses a second row, the foreign key a credential that is not
\* in the credential table.
InsertPointer(r) ==
    /\ pc[r] = "insertPointer"
    /\ IF Subject(r) \in credentials \ DOMAIN pointers
       THEN Point(Subject(r), r) /\ Stored(r)
       ELSE StorageError(r) /\ UNCHANGED pointers
    /\ UNCHANGED <<registry, credentials, documents, order>>

UpdatePointer(r) ==
    /\ pc[r] = "updatePointer"
    /\ Point(Subject(r), r)
    /\ Stored(r)
    /\ UNCHANGED <<registry, credentials, documents, order>>

-----------------------------------------------------------------------------
(* deleteCredential of the VC API.                                         *)

FindToDelete(r) ==
    /\ pc[r] = "lookup"
    /\ IF order[r].target \in credentials
       THEN pc' = [pc EXCEPT ![r] = "remove"] /\ UNCHANGED answer
       ELSE Reply(r, "missing")
    /\ UNCHANGED <<registry, credentials, storage, order>>

\* Mutant: a credential that has an encrypted document can be deleted.
DeleteCredentialUnchecked(r) ==
    /\ pc[r] = "remove"
    /\ credentials' = credentials \ {order[r].target}
    /\ Reply(r, "deleted")
    /\ UNCHANGED <<registry, storage, order>>

\* The data store answers false when the row is gone by now; the foreign key
\* refuses to delete a credential that has an encrypted document.
DeleteCredential(r) ==
    LET c == order[r].target IN
    /\ pc[r] = "remove"
    /\ \/ /\ c \in credentials \ DOMAIN pointers
          /\ credentials' = credentials \ {c}
          /\ Reply(r, "deleted")
       \/ /\ c \notin credentials \ DOMAIN pointers
          /\ Reply(r, IF c \in credentials THEN "error" ELSE "missing")
          /\ UNCHANGED credentials
    /\ UNCHANGED <<registry, storage, order>>

-----------------------------------------------------------------------------
(* revokeCredential and activateCredential.                                *)

\* The credential is read from the data store and its status checked; a check that
\* fails reads as revoked.  Without a status the call throws.
FindToChange(r) ==
    LET c == order[r].target IN
    /\ pc[r] = "find"
    /\ \E seen \in BOOLEAN :
       /\ given[c] \in revoked => seen
       /\ IF c \in credentials /\ given[c] # None /\ seen = (order[r].kind = "activate")
          THEN pc' = [pc EXCEPT ![r] = "change"] /\ UNCHANGED answer
          ELSE Reply(r, "error")
    /\ UNCHANGED <<registry, credentials, storage, order>>

ChangeStatus(r) ==
    LET bit == given[order[r].target] IN
    /\ pc[r] = "change"
    /\ revoked' = IF order[r].kind = "revoke" THEN revoked \cup {bit} ELSE revoked \ {bit}
    /\ Reply(r, "changed")
    /\ UNCHANGED <<given, credentials, storage, order>>

-----------------------------------------------------------------------------
(* The behaviours.                                                         *)

\* A handler's next statement fails: out of the interceptor the error ends the
\* process, elsewhere it becomes the answer.
Fail(r) ==
    /\ InFlight(r)
    /\ IF pc[r] \in InterceptPCs THEN StorageError(r) ELSE Reply(r, "error")
    /\ UNCHANGED <<registry, credentials, storage, order>>

Crash ==
    /\ \E r \in Requests : InFlight(r)
    /\ EndProcess
    /\ UNCHANGED <<registry, credentials, storage, order>>

Init ==
    /\ given = [r \in Requests |-> None]
    /\ revoked = {}
    /\ credentials = {}
    /\ documents = {}
    /\ pointers = [c \in {} |-> None]
    /\ pc = [r \in Requests |-> "idle"]
    /\ order = [r \in Requests |-> None]
    /\ answer = [r \in Requests |-> "none"]

Step(r) ==
    \/ RevocationMiddleware(r)
    \/ CreateCredential(r)
    \/ SaveCredential(r)
    \/ SaveDocument(r)
    \/ FindPointer(r)
    \/ InsertPointer(r)
    \/ UpdatePointer(r)
    \/ FindToDelete(r)
    \/ DeleteCredential(r)
    \/ FindToChange(r)
    \/ ChangeStatus(r)

Next ==
    \/ \E r \in Requests :
          \/ \E o \in Orders : Arrive(r, o)
          \/ Step(r)
          \/ Fail(r)
    \/ Crash

Spec == Init /\ [][Next]_vars

-----------------------------------------------------------------------------
(* Properties.                                                             *)

PCs == InterceptPCs \cup
       {"idle", "middleware", "create", "save", "lookup", "remove", "find", "change",
        "done"}

Answers == {"none", "created", "stored", "encrypted", "deleted", "changed", "missing",
            "error", "lost"}

\* Type correctness of the tables and of every request.
TypeOK ==
    /\ given \in [Requests -> Statuses \cup {None}]
    /\ revoked \subseteq Statuses
    /\ credentials \subseteq Requests
    /\ documents \subseteq Requests
    /\ DOMAIN pointers \subseteq Requests
    /\ \A c \in DOMAIN pointers : pointers[c] \in Requests
    /\ pc \in [Requests -> PCs]
    /\ order \in [Requests -> Orders \cup {None}]
    /\ answer \in [Requests -> Answers]

\* A client that was answered an id and a key can use them for ever: its document is
\* kept, its credential is in the data store and leads to an encrypted document,
\* whatever is deleted, encrypted again or lost with the process.
AnsweredIsKept ==
    \A r \in Requests :
        answer[r] = "stored" =>
            /\ r \in documents
            /\ r \in credentials
            /\ r \in DOMAIN pointers /\ pointers[r] \in documents

\* A credential that a client holds and that claims a status can be revoked: revoking
\* needs the credential in the data store, which nothing but two foreign keys ensures.
StatusIsRevocable ==
    \A r \in Requests :
        answer[r] \in {"created", "stored"} /\ given[r] # None => r \in credentials

\* When nothing fails from outside, an issuance with `save` through the agent route is
\* answered.
SavedIssuanceAnswered ==
    \A r \in Requests :
        answer[r] = "lost" =>
            ~(order[r].kind = "issue" /\ order[r].save /\ Intercepted(r))

=============================================================================
