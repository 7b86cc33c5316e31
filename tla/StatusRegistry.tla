--------------------------- MODULE StatusRegistry ---------------------------
(***************************************************************************)
(* What the revocation plugin promises its callers, with no lists, rows or *)
(* transactions: a credential is assigned a status nobody else has, once,  *)
(* as an active credential, and revoking or activating a credential        *)
(* changes that credential alone.                                          *)
(***************************************************************************)
CONSTANTS
    Credentials,  \* everything that may be issued
    Statuses,     \* what a credentialStatus can point at
    Unassigned    \* the status of a credential that is not issued yet

VARIABLES
    given,    \* the status of each credential
    revoked   \* the credentials whose status reads as revoked

vars == <<given, revoked>>

Injective ==
    \A c, d \in Credentials : c # d /\ given[c] # Unassigned => given[c] # given[d]

Init ==
    /\ given \in [Credentials -> Statuses \cup {Unassigned}]
    /\ Injective
    /\ revoked = {}

Assign(c) ==
    /\ given[c] = Unassigned
    /\ given'[c] \in Statuses \ {given[d] : d \in Credentials}
    /\ given' = [given EXCEPT ![c] = given'[c]]
    /\ UNCHANGED revoked

SetRevoked(c, value) ==
    /\ given[c] # Unassigned
    /\ revoked' = IF value THEN revoked \cup {c} ELSE revoked \ {c}
    /\ UNCHANGED given

Next ==
    \E c \in Credentials :
        \/ Assign(c)
        \/ \E value \in BOOLEAN : SetRevoked(c, value)

Spec == Init /\ [][Next]_vars
=============================================================================
