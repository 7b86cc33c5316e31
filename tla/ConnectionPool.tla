---------------------------- MODULE ConnectionPool ----------------------------
(***************************************************************************)
(* The connections of the revocation list's DataSource on PostgreSQL, and  *)
(* who holds one while waiting for another.                                *)
(*                                                                         *)
(* A transaction (getRevocationData, revokeCredential, activateCredential) *)
(* keeps its connection from BEGIN to COMMIT or ROLLBACK, the delay of the *)
(* backoff included.  Inside it, revokeCredential and activateCredential   *)
(* call _checkStatus, which fetches the list over HTTP from this very      *)
(* server; that request (revocationList2020Router, getRevocationListVC)    *)
(* reads it with a second connection of the same pool.  A fetch without an *)
(* answer ends with the HTTP client's own timeout.                         *)
(***************************************************************************)
EXTENDS Naturals, Sequences, FiniteSets, SequencesExt

CONSTANTS
    Requests,    \* calls from outside: issue, change, or read of a list
    PoolSize,    \* connections of the pool
    MaxRetries   \* maxRetries of runTransactionWithExponentialBackoff

VARIABLES
    pc,        \* where a request is
    kind,      \* what it asks for
    conn,      \* connections held by its transaction or read: 0 or 1
    reading,   \* the server's reads of a list for status checks: none, waiting, running
    queue,     \* the pool's pending requests, first come first served
    retries,
    timedOut   \* history: requests one of whose status checks timed out

vars == <<pc, kind, conn, reading, queue, retries, timedOut>>

Kinds == {"issue", "change", "read"}

\* A status check is the check a request makes after so many retries; the server's read
\* of the list for it outlives the check when that has timed out.
Checks == Requests \X (0..(MaxRetries - 1))
CheckOf(r) == <<r, retries[r]>>

\* What waits for a connection: the call itself, or the read of the list for a check.
Outer(r) == <<"call", r>>
Inner(c) == <<"list", c>>
Tickets == {Outer(r) : r \in Requests} \cup {Inner(c) : c \in Checks}

InUse ==
    Cardinality({r \in Requests : conn[r] = 1})
    + Cardinality({c \in Checks : reading[c] = "running"})

Granted(t) == queue # <<>> /\ Head(queue) = t /\ InUse < PoolSize

-----------------------------------------------------------------------------
Arrive(r, k) ==
    /\ pc[r] = "idle"
    /\ kind' = [kind EXCEPT ![r] = k]
    /\ pc' = [pc EXCEPT ![r] = "connect"]
    /\ queue' = Append(queue, Outer(r))
    /\ UNCHANGED <<conn, reading, retries, timedOut>>

\* A transaction begins, or the read of a list from outside gets its connection.
Connect(r) ==
    /\ pc[r] = "connect"
    /\ Granted(Outer(r))
    /\ queue' = Tail(queue)
    /\ conn' = [conn EXCEPT ![r] = 1]
    /\ pc' = [pc EXCEPT ![r] = IF kind[r] = "change" THEN "check" ELSE "work"]
    /\ UNCHANGED <<kind, reading, retries, timedOut>>

\* _checkStatus fetches the list; the server's router asks the pool to read it.
FetchList(r) ==
    /\ pc[r] = "check"
    /\ pc' = [pc EXCEPT ![r] = "fetch"]
    /\ reading' = [reading EXCEPT ![CheckOf(r)] = "waiting"]
    /\ queue' = Append(queue, Inner(CheckOf(r)))
    /\ UNCHANGED <<kind, conn, retries, timedOut>>

ReadList(c) ==
    /\ reading[c] = "waiting"
    /\ Granted(Inner(c))
    /\ queue' = Tail(queue)
    /\ reading' = [reading EXCEPT ![c] = "running"]
    /\ UNCHANGED <<pc, kind, conn, retries, timedOut>>

\* Mutant: a transaction that throws keeps its connection.
ReleaseOnCommitOnly(r) ==
    conn' = [conn EXCEPT ![r] = IF pc[r] = "work" THEN 0 ELSE @]

\* The transaction ends: COMMIT or ROLLBACK, and release() in TypeORM's finally.
Release(r) == conn' = [conn EXCEPT ![r] = 0]

\* getRevocationListVC answers and gives its connection back.  A check that still
\* waits goes on, or ends the call ("already revoked"); one that has timed out is gone.
ListRead(c) ==
    LET r == c[1]
        awaited == pc[r] = "fetch" /\ CheckOf(r) = c
    IN
    /\ reading[c] = "running"
    /\ reading' = [reading EXCEPT ![c] = "none"]
    /\ \/ /\ awaited
          /\ pc' = [pc EXCEPT ![r] = "work"]
          /\ UNCHANGED conn
       \/ /\ awaited
          /\ pc' = [pc EXCEPT ![r] = "done"]
          /\ Release(r)
       \/ /\ ~awaited
          /\ UNCHANGED <<pc, conn>>
    /\ UNCHANGED <<kind, queue, retries, timedOut>>

\* The fetch gives up; the check counts as "revoked", which ends a revocation and lets
\* an activation go on.  The request to the server stays in the pool's queue.  The
\* timeout is minutes: everything that can move has moved by then.
PoolMoves ==
    \/ \E r \in Requests : pc[r] \in {"check", "work", "backoff"}
    \/ \E c \in Checks : reading[c] = "running"
    \/ queue # <<>> /\ InUse < PoolSize

FetchTimeout(r) ==
    /\ pc[r] = "fetch"
    /\ ~PoolMoves
    /\ timedOut' = timedOut \cup {r}
    /\ \/ /\ pc' = [pc EXCEPT ![r] = "work"]
          /\ UNCHANGED conn
       \/ /\ pc' = [pc EXCEPT ![r] = "done"]
          /\ Release(r)
    /\ UNCHANGED <<kind, reading, queue, retries>>

\* The statements of the transaction or read run, and it ends.
Finish(r) ==
    /\ pc[r] = "work"
    /\ pc' = [pc EXCEPT ![r] = "done"]
    /\ Release(r)
    /\ UNCHANGED <<kind, reading, queue, retries, timedOut>>

\* A lost deadlock: the callback sleeps inside its transaction, and keeps the connection.
Backoff(r) ==
    /\ pc[r] = "work"
    /\ kind[r] # "read"
    /\ pc' = [pc EXCEPT ![r] = "backoff"]
    /\ retries' = [retries EXCEPT ![r] = @ + 1]
    /\ UNCHANGED <<kind, conn, reading, queue, timedOut>>

\* Then the transaction ends; the loop begins a new one, or returns after the last retry.
Retry(r) ==
    /\ pc[r] = "backoff"
    /\ Release(r)
    /\ IF retries[r] < MaxRetries
       THEN /\ pc' = [pc EXCEPT ![r] = "connect"]
            /\ queue' = Append(queue, Outer(r))
       ELSE /\ pc' = [pc EXCEPT ![r] = "done"]
            /\ UNCHANGED queue
    /\ UNCHANGED <<kind, reading, retries, timedOut>>

\* A statement, or the lookup of the credential, throws.
Fail(r) ==
    /\ pc[r] \in {"check", "work"}
    /\ pc' = [pc EXCEPT ![r] = "done"]
    /\ Release(r)
    /\ UNCHANGED <<kind, reading, queue, retries, timedOut>>

-----------------------------------------------------------------------------
Init ==
    /\ pc = [r \in Requests |-> "idle"]
    /\ kind = [r \in Requests |-> "read"]
    /\ conn = [r \in Requests |-> 0]
    /\ reading = [c \in Checks |-> "none"]
    /\ queue = <<>>
    /\ retries = [r \in Requests |-> 0]
    /\ timedOut = {}

Step(r) ==
    \/ Connect(r)
    \/ FetchList(r)
    \/ Finish(r)
    \/ Retry(r)
    \/ FetchTimeout(r)

Next ==
    \/ \E r \in Requests :
          \/ \E k \in Kinds : Arrive(r, k)
          \/ Step(r)
          \/ Backoff(r)
          \/ Fail(r)
    \/ \E c \in Checks : ReadList(c) \/ ListRead(c)

Spec == Init /\ [][Next]_vars

\* Node.js runs every ready continuation, the pool serves its queue, timers fire.
Fairness ==
    /\ \A r \in Requests : WF_vars(Step(r))
    /\ \A c \in Checks : WF_vars(ReadList(c) \/ ListRead(c))
FairSpec == Spec /\ Fairness

-----------------------------------------------------------------------------
(* Properties.                                                             *)

TypeOK ==
    /\ pc \in [Requests -> {"idle", "connect", "check", "fetch", "work", "backoff", "done"}]
    /\ kind \in [Requests -> Kinds]
    /\ conn \in [Requests -> {0, 1}]
    /\ reading \in [Checks -> {"none", "waiting", "running"}]
    /\ queue \in Seq(Tickets)
    /\ retries \in [Requests -> 0..MaxRetries]
    /\ timedOut \subseteq Requests

\* No connection is handed out twice or lost: the pool is never overdrawn, what waits is
\* queued exactly once, and a call that has been answered holds nothing, whichever of its
\* returns, retries and throws it took.
ConnectionsAccounted ==
    /\ InUse <= PoolSize
    /\ \A r \in Requests :
          /\ conn[r] = 1 <=> pc[r] \in {"check", "fetch", "work", "backoff"}
          /\ pc[r] = "connect" <=> Outer(r) \in ToSet(queue)
    /\ \A c \in Checks : reading[c] = "waiting" <=> Inner(c) \in ToSet(queue)
    /\ IsInjective(queue)

\* The calls that hold the pool while they wait for it.
Changing == {r \in Requests : pc[r] = "fetch"}

\* A status check starves only when changes alone have taken the whole pool: with fewer
\* than PoolSize revocations and activations in their check, no fetch ever times out,
\* however many issuances, reads and retries share the pool.
StarvedOnlyByChanges ==
    [][timedOut' # timedOut => Cardinality(Changing) = PoolSize]_vars

\* Every call is answered, also when the pool waits on itself: the fetch's timeout is what
\* gives a connection back.
CallAnswered(r) == pc[r] # "idle" ~> pc[r] = "done"
EveryCallAnswered == \A r \in Requests : CallAnswered(r)
=============================================================================
