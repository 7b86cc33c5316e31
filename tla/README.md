# Verification of the VCkit agent

VCkit (`packages/*`) is an agent for verifiable credentials built on Veramo: an
Express server routes HTTP requests through middleware to the methods of agent
plugins, which keep their state in SQL tables through TypeORM. Credentials are
issued with a *status*, a bit in a revocation list that the agent signs and
serves, and may be stored encrypted. A command line tool and an *explorer*, a
React application, are its users' side. This directory holds TLA+ models of the parts
in which things can go wrong that tests hardly reach, the TLC runs that check
them, and the theorems that TLAPS proves about them.

Paths below are relative to `packages/`.

## 1. The system

| Part | Source | State it keeps | Operations | What makes it correct |
|---|---|---|---|---|
| Revocation store | `revocation-list-2020/src/identifier/revocation-list-2020-store.ts`, `revocation-list-2020.ts` | table `revocation-data` (per issuer: list, index, length), table `revocation-list` (per issuer and list: a signed list of bits) | `getRevocationData`, `revokeCredential`, `activateCredential`, `checkStatus`, `getRevocationListVC` | every credential has its own bit; the bit is what was last asked for; every call is answered truthfully |
| Revocation middleware and router | `revocation-list-2020-middleware.ts`, `-router.ts`, `-status.ts` | none (rewrites the request) | adds `credentialStatus` before the credential is created; serves lists | every credential of a configured route and format carries the status allocated for it |
| Encrypted storage | `encrypted-storage/src` | `encrypted-data`, `credential-encrypted-data` | `encryptAndStoreData`, `fetchEncryptedData`, `fetchEncryptedDataByCredentialHash`; an interceptor of responses | what was answered with an id and a key can be fetched again; the client is answered |
| Credential router, OA credentials | `credential-router/src/action-handler.ts`, `credential-oa/src/action-handler.ts` | none | choose the issuer or verifier plugin; wrap, sign, save, verify OpenAttestation documents | creation and verification choose the same kind of document |
| VC API | `vc-api/src` | none (Veramo's data store) | issue, verify, get, delete, prove; error codes | an answer says what was done |
| Renderer | `renderer/src/renderer.ts` | providers | `renderCredential` | a document with a known render method is rendered by its provider |
| Remote server | `remote-server/src` | none | agent router, API keys, default DID, messaging, `did:web` documents, QR codes | only what is exposed runs, and every request is answered; a DID document lists the keys of its identifier |
| Configuration | `cli/src/lib/objectCreator.ts`, `agentCreator.ts`, `config.ts`, `server.ts` | the memo of created objects | resolve `$ref`, `$require`, `$env` pointers of the YAML file | a part that is pointed to twice is made once, and complete |
| Commands | `cli/src/*.ts` | none (the agent's database) | `did`, `credential`, `presentation`, `sdr`, `message` dialogues, each a process | what was chosen from a list is still what is meant when the agent is called; what left is in the store |
| Explorer | `demo-explorer/src` | React state, react-query's cache, the browser's storage | pages over the agent's methods: chats, identifiers, search, disclosure, verifying, issuing, presenting, agents, test data | what is shown is the answer to the last question asked; what was sent is kept; every button comes back |
| Types, examples, React components, OA renderers | `core-types`, `example-documents`, `react-components`, `vckit-oa-renderers` | none | - | - |

How they meet: an HTTP request passes the middleware of `cli/default/default.yml`
in order (API key, `revocationList2020Middleware`, `encryptedStoreMiddleware`,
agent router). The first calls `getRevocationData`, which commits an index; the agent
router creates and perhaps saves the credential; the interceptor then encrypts and
stores the answer. `revokeCredential` reads the saved credential, asks the server
itself for the list over HTTP (`_checkStatus`), and rewrites the list. The explorer
calls the agent's methods one by one over HTTP and reads through a cache; messages to
other agents leave through DIDComm, and a mediator keeps those that arrive.

### What is hard to test

* **Interleavings of transactions.** Every call on the revocation tables is several SQL
  statements with signing and HTTP between them. The locks are shared
  (`pessimistic_read`), so two calls on one row both read it and then deadlock on their
  updates: the deadlock detector and the retry loop are part of the normal path.
* **Locks on rows that do not exist.** They lock nothing.
* **Whole-row write-backs.** `save()` selects again, compares, and updates what differs.
* **Retries** that end without an error, and failures that read as answers.
* **Length boundaries**: the last index of a list, and a configuration that changes the length.
* **Several tables, no transaction.** A credential, its encrypted document and the row that
  joins them are three statements on two connections, with a deletion possible in between.
* **Errors nobody catches.** An interceptor or handler that throws ends the process and every request in it.
* **A pool that waits for itself.** A revocation holds a connection while its own server needs another one for it.
* **One connection for all.** SQLite has no row locks, concurrent transactions are savepoints of one another, and the count that
  tells them apart changes while a statement is under way.
* **Partial objects.** A pointer of the configuration into an object that is half made, or round in a circle.
* **Answers that come late.** Handlers of the explorer compute with what was on display when they
  started, or with what is on display when they go on; requests overlap, and the last answer wins.
* **Dialogues on a database.** A command lists, asks, and acts, while another process changes what it listed.

`PROJECT.json` lists each with its line under `hazards`.

## 2. The modules

| Module | What it is |
|---|---|
| `RevocationStore` | the revocation store on PostgreSQL, statement by statement |
| `StatusRegistry` | what it promises: fresh statuses, and bits that change one credential at a time |
| `RevocationStoreProofs` | the invariant that types every request at every point of its program, and that the shared lock is exclusive in effect; type correctness, unique statuses, advancing counters |
| `RevocationListProofs` | the same for the lists; statuses resolve, bits are intent, and the store implements the registry |
| `CredentialService` | issuing through three routes, encrypting, deleting, revoking: the handlers that meet on one credential |
| `ConnectionPool` | the connections of PostgreSQL, held while the status check needs another |
| `SharedConnection`, `SharedConnectionProofs` | the store on SQLite, statement by statement of the one query runner; what a serial call keeps |
| `Storage` | `CredentialService` and `SharedConnection` together |
| `StorageProofs` | what a client holds stays usable: the foreign keys, and what each handler has written by then; the theorems of the connection as `Storage` has it |
| `VcApi` | the VC API's routes with the credential router and the OpenAttestation plugin |
| `WebDidDoc` | `did:web` documents of identifiers that change, and the default identifier |
| `ConfigObjects` | the making of configured objects |
| `AgentServer` | the remote server's chain in front of the agent: API key, middleware, interceptor, exposed methods; the other routers |
| `CliSessions` | the commands, as processes on one database |
| `Chat` | messages, threads and pickups from the mediator |
| `Identifiers`, `ModalForms`, `Discovery` | the pages on identifiers, their forms, search and names |
| `Disclosure` | requests for credentials and the responses to them |
| `CredentialPages` | verifying, rendering, and the revocation status of one credential |
| `IssuerForms` | issuing from a schema, presenting |
| `AgentSetup`, `Generator` | the explorer's agents; its generator of test data |
| `Server` | `VcApi`, `WebDidDoc` and `ConfigObjects` together |
| `ServerProofs` | an invariant of each of its parts: the VC API's store, the documents, the configured objects |
| `Progress` | `ConnectionPool`, `AgentServer`, `Chat`, `Identifiers`, `AgentSetup` and `Generator` together, each with the fairness of its part |
| `ProgressProofs` | its safety: the pool's accounts, who starves, what makes the generator fail |
| `Clients` | the users' side together: `Disclosure`, `Chat`, `CliSessions` and the pages |
| `ExchangeProofs` | what users send each other: requests and responses, messages, presentations and posts of the commands |
| `PagesProofs` | the pages: quick setup, search and profiles, verifying, status, issuing and presenting, forms |
| `MCRevocationStore`, `MCCredentialService`, `MCSharedConnection`, `MCStorage`, `MCServer`, `MCProgress`, `MCClients` | instances for TLC |

`RevocationStore` implements `StatusRegistry`: with PostgreSQL, once an issuer has its rows, the tables and locks hand out fresh
statuses. `CredentialService` does not rest on that. There the store's answer is any status, also one that is taken, since that is
what the default configuration's SQLite can give (`sqlite_race`); what the service has to keep does not depend on it.

`Storage`, `Server`, `Progress` and `Clients` hold modules that share no modelled state. A behaviour of
them is one of a single part, chosen at the start, while the other parts stay as they began:
nothing is gained from interleaving parts that cannot affect each other, and the state space is the sum of theirs
and not their product. Each extends one module (`CredentialService`, `VcApi`, `ConnectionPool`, `Disclosure`), whose properties are checked as they stand; the others
are instances, whose properties it passes on under their names. Their constants are parameters, so that the theorems about them are
about the very formulas the runs check; the `MC` modules give the constants values, and add the specifications without failures.

### RevocationStore

A *request* is one call of `getRevocationData`, `revokeCredential` or `activateCredential`;
`pc[r]` names the statement it is at. The variables `data` and `lists` are the committed
tables; a request's own writes are the local entity (`entity`, `page`) and the fact that it
holds the row (`excl`), and reach the tables at `Commit`, as READ COMMITTED shows them to
others. `shared` and `excl` are the lock table; `Blockers` says whom a statement waits
for and `InDeadlock` who is on a cycle.

| Action | Code |
|---|---|
| `Arrive` | the agent method is called |
| `LockRevocationData`, `FindRevocationData`, `InsertRevocationData`, `SaveRevocationData`, `UpdateRevocationData` | `upsertRevocationData`: the lock, `findOne` with the counters computed in its entity, and `save()`, which is an INSERT, or a SELECT that finds the changed columns followed by an UPDATE of those |
| `LockRevocationList` .. `UpdateRevocationList` | `upsertRevocationList`, the same four statements |
| `CheckStatus` | `_checkStatus` and the `already revoked / active` refusals |
| `LockPath`, `UpdateRevocationListVC` | `lockRevocationList` by path, `getRevocationList`, `updateRevocationListVC` |
| `Commit`, `Deadlocked`, `Fail` | the three ways out of one pass of `runTransactionWithExponentialBackoff`: commit, an error in `DB_ERRORS`, any other error |

`status`, `intent` and `applied` are history: they record what callers were given and what
was committed, and no guard of the code's steps reads them except to know which credential
exists and where its status points.

Left out: the bit string's encoding and the list's signature (the list is its length and the
set of revoked indices; a new signature is why the update of a changed list always differs),
the delay of the backoff (except in `PromptSpec`), and `revocationListPath`, which is
one value per server. A credential can be revoked from the moment its status is committed,
which is earlier than the code allows (it must be created and saved first): more
interleavings, none fewer.

### CredentialService

A request is one HTTP request of the default configuration (`cli/default/default.yml`).
`Step` holds one action per statement of its handler on one of the tables `credentials` (Veramo's
data store), `documents` and `pointers` (encrypted storage), and on `given` / `revoked`, which stand for the revocation store.
Two requests interleave between any two statements.

| Action | Code |
|---|---|
| `Arrive`, `Entry` | the route: `/agent/routeCreationVerifiableCredential`, `/agent/credentials/issue`, the VC API's `/credentials/issue` and `DELETE /credentials/:id`, `/agent/encryptAndStoreData`, `/agent/revokeCredential`, `/agent/activateCredential` |
| `RevocationMiddleware` | `revocationList2020Middleware`: a status for supported formats, whichever the store answers; `next()` for the rest |
| `CreateCredential`, `SaveCredential` | the credential router's plugin; with `save`, the data store |
| `SaveDocument`, `FindPointer`, `InsertPointer`, `UpdatePointer` | `saveEncryptedData`: one `save()` of the document, then `save()` of a row with a given key, which is a SELECT and an INSERT or UPDATE; the keys of the migration decide |
| `FindToDelete`, `DeleteCredential` | `deleteVerifiableCredential`: lookup by id, deletion by hash |
| `FindToChange`, `ChangeStatus` | `revokeCredential` and `activateCredential` |
| `Fail` | the next statement throws: the router answers 500, the interceptor ends the process |
| `Crash` | the process ends for any other reason; the tables stay, requests in flight are lost |

The hash of a credential is its identity (proofs carry a status, a time or a salt). A document is never deleted and holds no
more than its name. What the data store and Node.js do is taken from how this code uses them and marked external.

### The other modules

* `ConnectionPool`. A request is a transaction with its connection, its nested read of the list is
  a request of its own to the same pool; the queue is first come, first served. A backoff keeps the connection, an HTTP
  client that gave up leaves its read in the queue, and a failed call gives its connection back.
* `SharedConnection`. An action executes the statement that a call has sent, with the code up to the next one it sends. `mem` is what the one
  connection sees, `stack` what SQLite has open (BEGIN, then savepoints, each with `mem` as it was), `depth` and `active` what the query runner believes.
  `StartTransaction` names the savepoint when BEGIN or SAVEPOINT is *sent* and `Began` raises the count when it was *executed*; SQLite refuses a second BEGIN
  and a name it does not know (`Ended`), and TypeORM then rolls back what its count names, whoever opened it. `save()` begins a transaction of its own where none is active. The
  query runner is TypeORM's and not in this repository: those definitions follow how the code reaches it and are marked external.
* `VcApi`. A handler takes one step per call of the agent. Ids are chosen by issuers and need not
  be unique; a stored document also has a name that stands for its hash. A message of an error is the sequence of its parts, since the
  error handler makes a status of the part before the first colon. The agent does not validate arguments (`schemaValidation: false`), so a presentation
  that does not reach the agent's method is a result that is not verified, with status 200.
* `WebDidDoc`. A request reads the identifier and answers later; keys and services change in between. `createDefaultDid`
  runs step by step and may be cut short. (Its caller is the configuration: the `server` command does not run it by itself.)
* `ConfigObjects`. The recursion of `objectFromPointer` and `resolveRefs` is an explicit stack of
  frames, the memo a tree with a value at each path. A `$ref` that leads to an object still being made starts to make it again: without end,
  either until the call stack is exhausted, or, past an awaited part, in microtasks, with no error at all (`outcome` "endless").
* `AgentServer`. A request passes the chain of `default.yml`: the API key, the revocation middleware, the interceptor that stores an answer of the
  agent encrypted, the method. What throws where nobody catches it, the interceptor's storing among it, ends the process with every request in it.
* `CliSessions`. A session is a process: it reads, asks, then calls the agent; it may be killed at any prompt and between any two calls. `sdr respond` passes
  the store's wrapper of a credential on as the credential, which the agent refuses: with a pick the command ends in an error, and only a response without one is sent.
* `Chat`. A send is `pack`, `send`, `save`; a pickup is a status request, a delivery and an acknowledgement,
  started by a timer whether or not the last one has ended. The mail between can be lost.
* `CredentialPages`. `Serve` answers the status check and the changes: a check that fails, or whose list cannot be verified, says *revoked*, and a change can be answered without having been committed.
* `Generator`. The profile service sends as many profiles as it likes, and identifiers are deleted and listed again meanwhile.
* These, and `Identifiers`, `ModalForms`, `Discovery`, `Disclosure`, `IssuerForms`, `AgentSetup`. A task or request is one handler with
  the values its closure took; the query cache holds what was read last. Effects of React run in the step that changes what they depend on.
  `SelectOnce`, `MessageNow` and the like, marked as mutants, are plausible bugs that only the mutants of `PROJECT.json` use.

What the agent's libraries do (Veramo's DID manager, key manager and data store, DIDComm, react-query, TypeORM) is taken from how this code uses it;
definitions that model nothing else are marked external in `PROJECT.json`.

## 3. The runs

In runs without fairness, requests are symmetric where nothing tells them apart; so are statuses in `CredentialService`.

| Run | Instance | Shows |
|---|---|---|
| `seeded_issuer` | one issuer with rows, three requests, lengths 1 and 2, two retries | `TypeOK`, `UniqueStatus`, `StatusResolves`, `BitsAreIntent`, `CountersAdvance`, `ImplementsRegistry` hold |
| `calls_answered` | an issuer with rows and one without, two requests, `FairSpec` | `UniqueStatus` holds for two concurrent first issuances, since the unique index refuses one; `EveryCallAnswered` |
| `storage` | three requests of any kind, two formats of which one is supported, three statuses; or three calls of any kind on SQLite's connection, each statement of which may fail, and restarts | `AnsweredIsKept`, `StatusIsRevocable`; `SerialCallsKeepTheirIndex`, `SerialCallsKeepTheirBit` hold |
| `server` | three requests of the VC API for one id; a `did:web` document under four key mappings; every configuration of three parts | `IssuedIsFound`, `DeletedIsGone`; `KeysAreListed`, `DefaultComplete`; `PointersShareWholes`, `FailsIffBroken` hold |
| `progress` | three calls over a pool of two; two requests of the agent router; three messages and two pickups; a quick setup; two URLs and a change of the wallet; the generator, with one identifier that comes and goes | `ConnectionsAccounted`, `FailuresComeFromOutside`, `StarvedOnlyByChanges` hold; so do, in time, `PoolAnswers`, `EveryRequestAnswered`, `EverythingArrives`, `ButtonComesBack`, `ExplorerComesUp` |
| `clients` | twelve parts: chats; identifiers; commands on keys, and on documents; disclosure; the verifier; the status page; issuing; presenting; search; profiles; forms. Two of whatever may overlap | `RepliesStayInThread`, `StoredWasSent`; `SetupIsWhole`; `KeysAreAccounted`, `PresentedAboutHolder`, `SentIsStored`; `RequestsAreKept`, `ResponseAnswersRequest`; `ShownWasVerified`, `StatusIsCurrent`; `AsClicked`; `FindsWhatIsKnown`; `InputIsSentOnce` hold |
| `retries_exhausted` | three requests, the code's five retries, `PromptSpec` | `SuccessIsCommitted` **fails** |
| `first_issue_race` | three requests, an issuer without rows | `UniqueStatus` **fails** |
| `false_refusal` | a request revokes an active credential | `RefusalIsTrue` **fails** |
| `lost_issuance` | three requests of the service, `CalmSpec`: nothing fails from outside | `SavedIssuanceAnswered` **fails** |
| `sqlite_race` | three calls on SQLite, `CalmSpec` | `UniqueStatus` **fails** |
| `sqlite_stuck` | the same | `LoneIssuanceIsAnswered` **fails** |

Bounds of the revocation store and the service. Three requests are what a lost update between two and a third that observes or
obstructs needs, and the first number at which a request can starve through its retries
while others commit; with lengths 1 and 2 any issuance may fill a list, open the
next by length, or open it by a change of configuration. Two retries exercise
both a retry that succeeds and one that is the last; `retries_exhausted` uses the code's own 5.
Counters need no bound: each request issues once, so they stay below the number of requests.
In `CredentialService` three requests are an issuance, another
request on its credential, and a third that ends the process or deletes; a request runs once, so every run is finite, and as many statuses as
requests let all of them differ, or any two be the same. On SQLite two calls overlap and a third comes when they are over, or is the one that
overlaps nothing while the others' transactions have left theirs behind.

Bounds of the other parts. A pool of two with three calls is the smallest in which changes can hold every
connection while each of them waits for one, and a call that is no change waits behind them. Three requests of the VC API on one id are a creation, a deletion
and a lookup. Four keys of three types fill every row of the key mapping, twice the one that is derived from. Configurations of
three parts, one inside another, contain cycles, sharing and a pointer into a part from outside and inside.
On the users' side, two requests, tasks, sessions, credentials or checks let any two handlers overlap, and the mutants show that two are enough to
break every property. `MessageBound`, `KeyBound`, `MaxPicks`, `MaxClicks`, `MaxChanges`, `MaxFillings`, `MaxCount` and `MaxAgents`
bound what a user could repeat for ever. In `Discovery` one identifier and one change of the data are enough, since what is found of one identifier does not depend on the others.

Deadlock checking is off because a server whose calls are all answered, and a page whose user does nothing, stop.

Fairness. `FairSpec` is weakly fair in each request's own step (Node.js runs every
continuation that is ready, PostgreSQL grants a lock when it is free) and in the deadlock
detector (it runs after `deadlock_timeout` for every wait). Nothing is assumed of arrivals or
failures. Weak fairness is enough: retries are bounded, and within one try a request
only waits for transactions that can themselves move or are on a cycle. In `progress` every part but the generator has
weak fairness of the steps the event loop or the network layer takes (each request of the pool and of the agent router, each task of the setup,
each creation of an agent and each fetch of a schema) and none of what a user may do. An HTTP call
that is under way ends, if only by its client's timeout. The mail is different: the timer and the steps of a pickup are weakly fair, and
losses are assumed to stop at some time (`<>[][no loss]`), since nothing arrives over a network that loses everything.

`PromptSpec` is used by `retries_exhausted` only: it forbids a transaction to start
over while another one's lock is free but not yet granted. The backoff is one second and
more, so the counterexample does not rest on a database that grants nothing for that long.

### What the failing runs show

* `first_issue_race`. `lockRevocationData` finds no row and locks nothing; before the
  following `findOne` another transaction commits the issuer's first row. The call
  has read a row it does not hold, a third call locks the same row, and both give out the
  next index. With rows in place from the start the lock works (`seeded_issuer`, and the
  theorem below).
* `retries_exhausted`. Revocations of a list hold the shared lock and deadlock on
  the update. After the fifth lost deadlock `while (retries < maxRetries)` ends and the function
  returns; `revokeCredential` answers `{ revoked: true }`. The comment in the loop says that
  the error is rethrown then.
* `false_refusal`. `checkStatus` returns `revoked: !result.verified`, and a check that fails
  for any reason is not verified.
* `lost_issuance`. An issuance without `save` has no row in the credential table, so the foreign
  key refuses the row that joins it to its document. `encryptedStoreMiddleware` rethrows inside an `async`
  function that `express-interceptor` does not await: the rejection is unhandled and Node.js ends
  the process, with a saved issuance of another client in flight. The encrypted storage's README
  promises that one an answer.
* `sqlite_race`. SQLite has no row locks; `lockRevocationData` swallows the error and goes on. Two issuances read one counter and are both answered the next index: to
  revoke one of the credentials is to revoke the other. `cli/default/default.yml` configures SQLite.
* `sqlite_stuck`. Two activations of an active credential overlap: BEGIN and SAVEPOINT `typeorm_1` are open and the count is 2. Both are refused by the status check, and
  each sends ROLLBACK TO `typeorm_1`, as the count says until the first has come back. The count ends at 0 with the transaction still open, so the
  BEGIN of a later issuance, alone and with nothing failing from outside, is refused. Its own rollback leaves -1, under which every later SAVEPOINT is refused too.

### What the models show of the code besides

These hold of the models and were met while writing them. They contradict no sentence of the repository that a run could quote, or the properties
are stated so as to leave them out:

* On SQLite calls that overlap may be answered what is undone later; `SerialCallsKeepTheirIndex` and `SerialCallsKeepTheirBit` say what is left to rely on.
* The VC API's `verifyPresentation` passes the presentation on as `credential`; the agent's method, which takes `presentation`, is given none and verifies nothing, so every
  presentation is answered 200 and *not verified* (`NotVerified`).
* A configuration with a circle past an awaited part does not fail: the start-up never ends (`FailsIffBroken` allows it there only).
* `sdr respond` cannot share a credential, since it passes the wrapper of one on; `sdr create` sends a request that it does not keep.
* `add-key` that fails or is killed between its two calls leaves a key without an identifier (`KeysAreAccounted` counts them).
* Two DIDs with one slug share the path of their lists, which is why `BitsAreIntent` needs distinct slugs.
* A pointer into a part of an object that is named elsewhere may get the holder of that part (`Separate` in `PointersShareWholes`).
* As `JsonWebKey2020`, only the first Ed25519 key is published; an Ed25519 key of another type gives no key agreement unless it is the 2018 one; the default DID has no port.
* Deleting by an id that was given twice deletes one of the two.
* In the explorer: the message is cached under a key without its id, so while a list loads a selection made for one request can be sent to another's sender; a failed generation
  leaves its button disabled, and positions drawn at random may repeat; the request form is cleared after a failure and with what was typed meanwhile; answers of searches that come out of order
  show options of an older text; "Add Existing Key" only says that it is not implemented; the question whether to remove a key belongs to a position of the list, so that a refetch can turn it to another key;
  forms are cleared before their call, so that a failed call loses the input; an older creation of the browser's agent can override a newer one; verifications that
  overlap leave documents of an older one; a failed status check leaves the page loading.

## 4. The proofs

TLAPS proves the following for every value of the constants, under assumptions stated with each.
Every action has a lemma for each invariant, and the theorems combine them.

* `TypeCorrect` of `RevocationStore`, for every number of issuers and requests, every set of lengths, any number of
  retries and any slugs (`ConstantsAssumption`). `TypeOK` alone is not inductive: an action reads fields of
  `op[r]`, `entity[r]`, `page[r]`, which are `NoRow` at some points. `TypeInv` adds `PointOK`, which
  says for every `pc` what kind of operation the request has and which locals are set.
* `StatusesUnique` and `CountersOnlyAdvance`, under the further assumption
  `Seeded = Issuers` (every issuer has its rows; without it `first_issue_race` refutes
  both the property and the argument). The inductive invariant `CounterInv` says that the
  shared lock is an exclusive one in effect: a request past `lockData` holds the row
  FOR SHARE, one past `updateData` is its only holder (`Exclusive`), an entity that is about
  to be written is the successor of the row as committed (`CounterPoint`), and every
  status of an issuer is at or behind its row (`StatusesReached`). So the commit that creates a
  status moves the row strictly past all of them.
* `StatusesResolve`, `BitsStayIntent` and `StoreImplementsRegistry`, under `StoreAssumption`: issuers have their rows and distinct
  slugs, without which a list found by its path may be another issuer's. `ListInv` adds to `CounterInv` what a request knows of
  the list at each statement: the page of an issuance or of a change is the list as committed, with the one bit that
  changes (`ListPoint`); the issuer's current list exists and is as long as its row says (`CurrentList`, `NoLaterList`); the bits that are set are those of given
  statuses (`BitsAreGiven`, `IntentIsGiven`). The refinement follows action by action: all steps but `Commit` stutter, and a commit
  is `Allocate` or the change of one bit.
* `ServiceTypeCorrect`, `AnsweredStaysKept` and `StatusStaysRevocable` of `CredentialService`, for any number of requests and any sets of
  statuses and formats (`ServiceAssumption`). The invariant `KeepInv` joins the foreign keys (`Keys`) to what is known of a request at
  each statement (`ServicePoint`): past `SaveDocument` its document exists, at `updatePointer` its row
  exists, a status belongs to an intercepted request, and an intercepted request that was answered has a row. A row
  keeps its credential from being deleted, so a status that was answered can be revoked: without the row's foreign key
  both properties fail, as their mutants show.
* Of `Progress`: `PoolTypeCorrect`, `PoolStaysAccounted` and `ChecksStarveByChangesOnly`, for finitely many requests and any pool and number of retries
  (`PoolAssumption`). `ConnectionsAccounted` is not inductive: a read of the list that was asked for twice under one name would be queued twice. `PoolInv` adds
  that nobody is queued twice, `ChecksFresh`, that a read of a later try has not been asked for, and `ReadsUnderWay`, that a request which fetches has a read queued
  or running. So when a fetch times out and nothing can move, its own read is queued, no connection is free, and every holder is a change in its own check.
  `ThePageNeverFails`, for any number of identifiers and whatever is typed (`GeneratorAssumption`): positions are drawn of the very list they are used with, and one profile is asked for each
  of the list that the answers are matched with, so that only the agent or the profile service makes a generation fail.
* `SerialIndicesAreKept` and `SerialBitsAreKept` of `SharedConnection`, for any number of calls. `SqliteInv` says of a call which began at rest and was not overlapped that, while it runs, the
  connection is in its one transaction and sees what it wrote (`AtRestShape`), and afterwards that no version which a rollback may bring back is behind it (`Respects`), nor what any
  open call has read and is about to write (`Heir`). Only what happens to *others* may be anything: their BEGINs are refused, their savepoints ended by one another.
* `IssuedStaysFound` and `DeletedStaysGone`, for any requests, ids, issuers, formats and plugins. `ApiInv` says of every stored document which creation
  made it, also of one that a deletion has looked up (`FoundWereMade`), that what was saved is stored or its id asked to be deleted (`SavedIsStored`), and that a
  deleted document is not stored again (`DeletedIsRemoved`).
* `KeysStayListed` and `DefaultStaysComplete` of `WebDidDoc`, for any keys, types, mappings and hosts. The keys of an identifier are told apart at
  every moment, so those of the copy a request has found are too (`IdentifiersInv`, `RequestsInv`); from there the answer is computed in one step, and the lemmas on
  the document show that a first Ed25519 key and the derived one get different ids. `DefaultInv` says how far the start-up has come and which
  services the default identifier has by then.
* `SharedPartsAreOne` and `OnlyBrokenFail` of `ConfigObjects`, for configurations of any number of parts and references in which no pointer names a part of what another names
  (`Separate`, the shape of the shipped ones; `ConfigAssumption`: the items of a path are pointers and the configurations of the parts below it). `ObjectsInv` says
  that the calls in progress nest (`CallsNest`: each is the first thing its caller has left, is reached from all its callers, and follows no pointer that one of them
  follows), that what is kept for a pointer is its value or nothing, neither of it nor of its parts (`AllKept`), and that there is a set of paths that have been *worked off*
  (`Progressed`): none of them needs itself or anything outside the set, and every call has the rest of what it needs still before it. A part that is made joins that set; when the
  outermost call has nothing left, all that it needs is in it, so nothing needs itself or is missing.
* `RequestsStayKept` and `ResponsesAnswer` of `Disclosure`, for any requests, claims and clicks. `DisclosureInv` ties each link of the chain to the next: what arrived was saved
  and no longer changes, a list holds claims that its request asks for, a selection those that the request on display needs, and a response was made of such a selection.
* `RepliesAreInThread` and `StoredMessagesWereSent` of `Chat`, for any identities that are not also peers (`ChatAssumption`), any sends and pickups. `ThreadsInv` says of all messages, in whatever field, queue, mailbox or
  store they are, that those of one thread have the same two parties and that no thread has a number not yet given out; `SentInv`, that a message about to be saved was sent and what comes in is from peers.
* `KeysStayAccounted`, `PresentationsAreAboutTheirHolder` and `PostedIsInTheStore` of `CliSessions`, for any sessions, identifiers, keys and credentials (`CliAssumption`). `CliInv` says what a session at each
  question of its dialogue has chosen and listed: its picks and its list are about the identifier it works for, what it is about to send is stored and its own, a response is to a request it has read; and of every key that no identifier has,
  which session took or left it (`KeysInv`).
* `SetupsStayWhole` of `Identifiers`, for any identifiers and tasks (`PagesAssumption`): a setup past its key has the key on its identifier unless a user took it away.
  `KnownIsFound` of `Discovery` (`FinderAssumption`): what a search has collected by each of its questions includes what matched all the while by that kind of name, a better source of a profile than the one being tried is not exposed or came later,
  and the options belong to the text as long as nothing was typed over a search.
* `ShownStaysVerified` and `StatusStaysCurrent` of `CredentialPages` (`ViewerAssumption`): what is shown was verified; verifications that do not overlap are one at a time; a page whose buttons work has no call under way, and shows what the last answer said.
  `ClicksStayOnce` of `IssuerForms` and `InputStaysSentOnce` of `ModalForms`: at most one issuance more than were refused, and only while the button is busy; as many things sent as fillings at most, fewer while something is entered.

The assumptions about `None` say that the value for nothing is no member of the set whose absence it stands for: in the code it is `undefined` or a column's NULL.

With that every invariant and action property that a passing run checks is a theorem. Only model-checked are the liveness properties and their fairness,
which are out of the prover's reach: `EveryCallAnswered`, `PoolAnswers`, `EveryRequestAnswered`, `EverythingArrives`, `ButtonComesBack`, `ExplorerComesUp`. `UniqueStatus` in `calls_answered` is of an instance
that the theorems exclude (`Seeded` smaller than `Issuers`). The failing runs are counterexamples and need no proof.

## 5. What is left

### Not modelled

* React components and OA renderers: presentation of documents and templates, no state beyond what is drawn.
* Types, generated schemas, sample documents, test set-up: nothing executes in the server.
* Cryptography, JSON-LD, OpenAttestation's wrapping and verification, the text of rendered templates and of the API's description: they
  belong to libraries or to layout. The OA plugin and the renderer are therefore modelled in what they decide (`VcApi`, `CredentialPages`).
* Configuration: reading the YAML file, and the machinery of `$require` (module, member and pointer), which is one construction that succeeds.
* Commands: `did add-service` and `remove-service`, which have the shape of `add-key` and `remove-key`; `verify` and listings, which are one call of the agent; the `dev` commands.
* Explorer: layout, tables and pages that show one query; leaving the page while a form of `ModalForms` is open.

And left out of what is modelled, or of what its properties claim:

* `PointersShareWholes` is about configurations that are `Separate`: no pointer names a part of what another names.
* `ButtonComesBack` is about setups that return or are refused; the exception with a `did:peer` leaves the button disabled.
* `ResponseAnswersRequest` is about responses sent when the list of the request on display has been read; not while it loads.
* `ShownWasVerified` claims the documents to be of the credential shown only for verifications that do not overlap.
* `FindsWhatIsKnown` is about options that belong to the text (`OptionsFollowText`), so not about searches whose answers come out of order.
* `InputIsSentOnce` takes the awaited `validateFields` of the forms as one step with the click; a double click before it resolves is not covered.
* `DeletedIsGone` and `IssuedIsFound` are about ids that one document has, `BitsAreIntent` about issuers with distinct slugs.

### Next

1. What bounds the number of tries that liveness rests on, as safety theorems: a measure that each try lowers.
2. The remaining commands as further kinds of `CliSessions`.
3. An abstract mailbox that `Chat` implements: every message of a thread once, in the store of both ends.
