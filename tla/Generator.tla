------------------------------ MODULE Generator ------------------------------
(***************************************************************************)
(* The data generator of the explorer (DataGenerator.tsx, dataGenerator.ts *)
(* and useGenerator.ts): three buttons, each of which makes many           *)
(* identifiers or credentials at once and waits for all of them, while     *)
(* identifiers are deleted on another page and the list is fetched again.  *)
(* A rejection of Promise.all is handled by nobody: the button stays       *)
(* disabled.                                                               *)
(***************************************************************************)
EXTENDS Naturals, Sequences, FiniteSets, Functions

CONSTANTS
    None,
    MaxCount,      \* bounds the numbers that are typed and that the profile service sends
    Names          \* what identifiers may be called; bounds them

VARIABLES
    identifiers,   \* what the agent has
    listed,        \* the list the page shows, or None
    generating,    \* the buttons that are disabled
    asked,         \* the list for which profiles have been asked of randomuser.me, or None
    pending,       \* jobs: the calls under way, as issuer, subject and a number
    rejected       \* jobs: None, or who made it fail first: the agent, the service, the page

vars == <<identifiers, listed, generating, asked, pending, rejected>>

Jobs == {"identifiers", "profiles", "p2p"}
Least(a, b) == IF a < b THEN a ELSE b

\* What the fields hold: 0 stands for what is no number and for negative ones.
Counts == 0..MaxCount

Click(j) == j \notin generating /\ generating' = generating \cup {j}

\* selectRandomIndexes: that many positions of the list, where one may come twice.
RandomIndexes(total, n) == [1..n -> 1..total]

\* createIdentifiers.
GenerateIdentifiers ==
    /\ Click("identifiers")
    /\ \E count \in Counts :
         pending' = [pending EXCEPT !["identifiers"] = {<<None, None, n>> : n \in 1..count}]
    /\ rejected' = [rejected EXCEPT !["identifiers"] = None]
    /\ UNCHANGED <<identifiers, listed, asked>>

\* createProfileCredentials: one profile is asked for each identifier on the list ...
GenerateProfiles ==
    /\ listed # None
    /\ Click("profiles")
    /\ asked' = listed
    /\ rejected' = [rejected EXCEPT !["profiles"] = None]
    /\ UNCHANGED <<identifiers, listed, pending>>

ListNow == listed  \* mutant: not the list of the click

ProfileList == asked

\* ... and a credential made for each that was sent; the service need not keep to the
\* number, and for none it sends one.  `identifiers[key].did` throws past the end.
ReceiveProfiles ==
    /\ asked # None
    /\ asked' = None
    /\ \E sent \in Counts :
         LET within == (1..sent) \cap DOMAIN ProfileList IN
         /\ pending' = [pending EXCEPT !["profiles"] =
                            {<<ProfileList[n], ProfileList[n], n>> : n \in within}]
         /\ rejected' = [rejected EXCEPT !["profiles"] =
                            IF 1..sent \subseteq DOMAIN ProfileList THEN None
                            ELSE IF sent = Len(asked) THEN "page" ELSE "service"]
    /\ UNCHANGED <<identifiers, listed, generating>>

\* No answer, or one without results.
NoProfiles ==
    /\ asked # None
    /\ asked' = None
    /\ rejected' = [rejected EXCEPT !["profiles"] = "service"]
    /\ UNCHANGED <<identifiers, listed, generating, pending>>

Pairs(from, to) == (DOMAIN from) \X (DOMAIN to)
Within(from, to) ==
    {p \in Pairs(from, to) : {from[p[1]], to[p[2]]} \subseteq DOMAIN listed}

\* createP2PCredentials, from each issuer drawn to each subject drawn: of each no more are
\* drawn than there are identifiers on the list.
GenerateP2P ==
    /\ listed # None
    /\ Click("p2p")
    /\ \E m \in Counts, n \in Counts :
       \E from \in RandomIndexes(Len(listed), Least(m, Len(listed))),
          to \in RandomIndexes(Len(listed), Least(n, Len(listed))) :
          /\ pending' = [pending EXCEPT !["p2p"] =
                {<<listed[from[p[1]]], listed[to[p[2]]], p>> : p \in Within(from, to)}]
          /\ rejected' = [rejected EXCEPT !["p2p"] =
                IF Within(from, to) = Pairs(from, to) THEN None ELSE "page"]
    /\ UNCHANGED <<identifiers, listed, asked>>

\* A call of the agent is done, or fails.  Nobody can issue with an identifier that has been
\* deleted since it was listed; its subject may have been.
Settle(j) ==
    \E c \in pending[j] :
        /\ pending' = [pending EXCEPT ![j] = @ \ {c}]
        /\ \/ /\ IF j = "identifiers"
                 THEN \E name \in Names : identifiers' = identifiers \cup {name}
                 ELSE c[1] \in identifiers /\ UNCHANGED identifiers
              /\ UNCHANGED rejected
           \/ /\ rejected' = [rejected EXCEPT ![j] = IF @ = None THEN "agent" ELSE @]
              /\ UNCHANGED identifiers
        /\ UNCHANGED <<listed, generating, asked>>

\* All calls have succeeded: the button is enabled.
Finish(j) ==
    /\ j \in generating /\ pending[j] = {} /\ rejected[j] = None
    /\ j = "profiles" => asked = None
    /\ generating' = generating \ {j}
    /\ UNCHANGED <<identifiers, listed, asked, pending, rejected>>

\* The query of the identifiers answers: when the page opens, after a generation, on focus.
List ==
    /\ listed' \in Bijection(1..Cardinality(identifiers), identifiers)
    /\ UNCHANGED <<identifiers, generating, asked, pending, rejected>>

\* The page of managed identifiers.
DeleteIdentifier ==
    /\ \E i \in identifiers : identifiers' = identifiers \ {i}
    /\ UNCHANGED <<listed, generating, asked, pending, rejected>>

-----------------------------------------------------------------------------
Init ==
    /\ identifiers \in SUBSET Names
    /\ listed = None
    /\ generating = {}
    /\ asked = None
    /\ pending = [j \in Jobs |-> {}]
    /\ rejected = [j \in Jobs |-> None]

Next ==
    \/ GenerateIdentifiers \/ GenerateProfiles \/ ReceiveProfiles \/ NoProfiles \/ GenerateP2P
    \/ List \/ DeleteIdentifier
    \/ \E j \in Jobs : Settle(j) \/ Finish(j)

Spec == Init /\ [][Next]_vars

-----------------------------------------------------------------------------
(* Properties.                                                             *)

\* What makes a generation fail is a call that the agent refuses, or a service that does not
\* send as many profiles as were asked for, never the page: no position is past the end of
\* the list it is used with, however few identifiers there are, whatever number is typed,
\* and although the list is fetched again, and gets shorter, while profiles are awaited.
FailuresComeFromOutside == \A j \in Jobs : rejected[j] # "page"
=============================================================================
