------------------------- MODULE MCSharedConnection -------------------------
(***************************************************************************)
(* Instances of SharedConnection for TLC: the symmetry of the calls, and a *)
(* specification without failures from outside.                            *)
(***************************************************************************)
EXTENDS SharedConnection, TLC

Symmetry == Permutations(Requests)

\* No statement fails but those that SQLite refuses, and the process does not end.
CalmNext ==
    \E r \in Requests :
        \/ Begin(r, "issue", NoIndex)
        \/ \E k \in Kinds \ {"issue"}, i \in Indices : Begin(r, k, i)
        \/ Step(r)

CalmSpec == Init /\ [][CalmNext]_vars
=============================================================================
