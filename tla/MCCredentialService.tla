------------------------ MODULE MCCredentialService ------------------------
(***************************************************************************)
(* Instances of CredentialService for TLC: the symmetry of the statuses    *)
(* and of the requests, and a specification without failures.              *)
(***************************************************************************)
EXTENDS CredentialService, TLC

MCSymmetry == Permutations(Requests) \cup Permutations(Statuses)

\* Nothing outside the modelled code fails.
CalmNext ==
    \E r \in Requests :
        \/ \E o \in Orders : Arrive(r, o)
        \/ Step(r)

CalmSpec == Init /\ [][CalmNext]_vars
=============================================================================
