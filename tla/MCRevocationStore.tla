------------------------- MODULE MCRevocationStore -------------------------
(***************************************************************************)
(* Instances of RevocationStore for TLC: the slugs, the symmetry of the    *)
(* requests, and a specification in which the backoff delay is long enough *)
(* for the database to grant every lock that is free.                      *)
(***************************************************************************)
EXTENDS RevocationStore, TLC

\* Every issuer has a slug of its own.
OwnSlugs == [i \in Issuers |-> i]

MCSymmetry == Permutations(Requests)

\* A statement that waits no longer has been granted its row by the time the
\* backoff delay (a second or more) of a transaction that starts over has passed.
AtFreeLock(r) ==
    /\ pc[r] \in {"updateData", "insertData", "updateList", "insertList"}
    /\ Blockers(r) = {}

DelayOutlastsGrants ==
    \A r \in Requests :
        retries[r] > 0 /\ pc[r] = Entry(op[r].kind) /\ pc'[r] # pc[r]
            => \A q \in Requests : ~AtFreeLock(q)

PromptSpec == Init /\ [][Next /\ DelayOutlastsGrants]_vars
=============================================================================
