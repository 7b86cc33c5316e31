----------------------------- MODULE Identifiers -----------------------------
(***************************************************************************)
(* The explorer's pages on identifiers: the list with its creation and     *)
(* deletion, and the page of one identifier with the DIDComm quick setup,  *)
(* its keys and its services.  A handler is a task that takes one step per *)
(* call of the agent; the user starts further tasks meanwhile.  The query  *)
(* cache answers from what it read, until it reads again.                  *)
(***************************************************************************)
EXTENDS Naturals, FiniteSets

CONSTANTS
    Dids, Provider,  \* identifiers, with "did:web", "did:ethr" or "did:peer" for each
    KeyIds, Tasks,
    None

VARIABLES
    dids,     \* did -> None, or [keys, service]: the agent's; service is a DIDComm endpoint
    kms,      \* keys of the agent's key store
    tasks,
    enabled, failed,     \* did -> its quick setup button works; an error is shown
    endpoint, \* did -> what its page knows of the first did:web identifier
    byHand    \* history: identifiers that a user deleted, or changed key by key

vars == <<dids, kms, tasks, enabled, failed, endpoint, byHand>>
pageVars == <<enabled, failed, endpoint, byHand>>

Managed == {d \in Dids : dids[d] # None}
Peer(d) == Provider[d] = "did:peer"
Idle == [kind |-> None, did |-> None, at |-> None, key |-> None]

\* A step of task t: it moves to `place`, the agent's data change.
Now(t, place) == tasks' = [tasks EXCEPT ![t].at = place]
Stop(t) == tasks' = [tasks EXCEPT ![t] = Idle]
At(t, kind, place) == tasks[t].kind = kind /\ tasks[t].at = place
Did(t) == tasks[t].did

(***************************************************************************)
(* Quick setup                                                             *)
(***************************************************************************)
\* The page asks for the identifiers of did:web, and the setup takes the first one's service.
FindWeb(d) ==
    /\ LET web == {w \in Managed : Provider[w] = "did:web"}
           Has(w) == IF dids[w].service THEN "found" ELSE "missing"
       IN \E has \in IF web = {} THEN {"none"} ELSE {Has(w) : w \in web} :
            endpoint' = [endpoint EXCEPT ![d] = has]
    /\ UNCHANGED <<dids, kms, tasks, enabled, failed, byHand>>

StartSetup(t, d) ==
    /\ tasks[t] = Idle /\ enabled[d] /\ endpoint[d] # None
    /\ enabled' = [enabled EXCEPT ![d] = FALSE]
    /\ tasks' = [tasks EXCEPT ![t] =
         [Idle EXCEPT !.kind = "setup", !.did = d, !.at = IF Peer(d) THEN "mediate" ELSE "create"]]
    /\ UNCHANGED <<dids, kms, failed, endpoint, byHand>>

EndNotEnabled(t, error) ==  \* mutant: setIsEnabled(true) inside the try
    /\ Stop(t)
    /\ enabled' = [enabled EXCEPT ![Did(t)] = ~error]
    /\ failed' = [failed EXCEPT ![Did(t)] = @ \/ error]
    /\ UNCHANGED <<endpoint, byHand>>

EndSetup(t, error) ==
    /\ Stop(t)
    /\ enabled' = [enabled EXCEPT ![Did(t)] = TRUE]
    /\ failed' = [failed EXCEPT ![Did(t)] = @ \/ error]
    /\ UNCHANGED <<endpoint, byHand>>

\* An exception: caught, but in the branch of did:peer.
FailSetup(t) == IF Peer(Did(t)) THEN Stop(t) /\ UNCHANGED pageVars ELSE EndSetup(t, TRUE)

CreateKey(t) ==
    /\ tasks[t].kind \in {"setup", "addKey"} /\ tasks[t].at = "create"
    /\ UNCHANGED dids
    /\ \/ \E k \in KeyIds \ kms :
            /\ kms' = kms \cup {k}
            /\ tasks' = [tasks EXCEPT ![t].key = k, ![t].at = "add"]
            /\ UNCHANGED pageVars
       \/ UNCHANGED kms /\ (IF tasks[t].kind = "setup" THEN FailSetup(t) ELSE Stop(t) /\ UNCHANGED pageVars)

Branch(d) == IF endpoint[d] = "none" THEN "mediate" ELSE "service"

AddNotChecked(t) ==  \* mutant: a failing didManagerAddKey does not stop the setup
    /\ At(t, "setup", "add")
    /\ UNCHANGED kms
    /\ \/ /\ Did(t) \in Managed
          /\ dids' = [dids EXCEPT ![Did(t)].keys = @ \cup {tasks[t].key}]
       \/ UNCHANGED dids
    /\ Now(t, Branch(Did(t))) /\ UNCHANGED pageVars

AddKey(t) ==
    /\ At(t, "setup", "add")
    /\ UNCHANGED kms
    /\ \/ /\ Did(t) \in Managed
          /\ dids' = [dids EXCEPT ![Did(t)].keys = @ \cup {tasks[t].key}]
          /\ Now(t, Branch(Did(t))) /\ UNCHANGED pageVars
       \/ UNCHANGED dids /\ FailSetup(t)

\* `find(...)` of a did:web identifier without a DIDComm service has no serviceEndpoint.
AddService(t) ==
    /\ At(t, "setup", "service")
    /\ UNCHANGED kms
    /\ \/ /\ Did(t) \in Managed /\ endpoint[Did(t)] = "found"
          /\ dids' = [dids EXCEPT ![Did(t)].service = TRUE]
          /\ EndSetup(t, FALSE)
       \/ UNCHANGED dids /\ EndSetup(t, TRUE)

\* Save, pack, send: each may fail.  Once sent, the mediator grants, and the message handler
\* adds the service, or it does not.
Mediate(t) ==
    /\ At(t, "setup", "mediate")
    /\ UNCHANGED kms
    /\ \/ /\ dids' = IF Did(t) \in Managed THEN [dids EXCEPT ![Did(t)].service = TRUE] ELSE dids
          /\ EndSetup(t, FALSE)
       \/ UNCHANGED dids /\ EndSetup(t, FALSE)
       \/ UNCHANGED dids /\ FailSetup(t)

(***************************************************************************)
(* Keys and services, one by one                                           *)
(***************************************************************************)
StartAddKey(t, d) ==
    /\ tasks[t] = Idle /\ d \in Managed
    /\ tasks' = [tasks EXCEPT ![t] = [Idle EXCEPT !.kind = "addKey", !.did = d, !.at = "create"]]
    /\ byHand' = byHand \cup {d}
    /\ UNCHANGED <<dids, kms, enabled, failed, endpoint>>

\* A failure leaves the key in the key store only, and the form on the screen.
AddCreatedKey(t) ==
    /\ At(t, "addKey", "add")
    /\ \/ Did(t) \in Managed /\ dids' = [dids EXCEPT ![Did(t)].keys = @ \cup {tasks[t].key}]
       \/ UNCHANGED dids
    /\ Stop(t)
    /\ UNCHANGED <<kms, pageVars>>

\* The key is named by its id in the DID document, which the agent may or may not know it by.
RemoveKey(d) ==
    /\ d \in Managed
    /\ \E k \in dids[d].keys : dids' = [dids EXCEPT ![d].keys = @ \ {k}]
    /\ byHand' = byHand \cup {d}
    /\ UNCHANGED <<kms, tasks, enabled, failed, endpoint>>

SetService(d) ==
    /\ d \in Managed
    /\ \E on \in BOOLEAN : dids' = [dids EXCEPT ![d].service = on]
    /\ byHand' = byHand \cup {d}
    /\ UNCHANGED <<kms, tasks, enabled, failed, endpoint>>

(***************************************************************************)
(* The list: what it shows may be out of date, so that a user may delete   *)
(* an identifier that has gone                                             *)
(***************************************************************************)
\* The deletion is sent and not waited for.
StartDelete(t, d) ==
    /\ tasks[t] = Idle
    /\ tasks' = [tasks EXCEPT ![t] = [Idle EXCEPT !.kind = "delete", !.did = d, !.at = "delete"]]
    /\ UNCHANGED <<dids, kms, enabled, failed, endpoint, byHand>>
Delete(t) ==
    /\ At(t, "delete", "delete")
    /\ LET d == Did(t)
       IN \/ /\ d \in Managed
             /\ dids' = [dids EXCEPT ![d] = None]
             /\ kms' = kms \ dids[d].keys
             /\ byHand' = byHand \cup {d}
          \/ UNCHANGED <<dids, kms, byHand>>
    /\ Stop(t)
    /\ UNCHANGED <<enabled, failed, endpoint>>

StartCreate(t, d) ==
    /\ tasks[t] = Idle /\ d \notin Managed
    /\ tasks' = [tasks EXCEPT ![t] = [Idle EXCEPT !.kind = "create", !.did = d, !.at = "did"]]
    /\ UNCHANGED <<dids, kms, pageVars>>

\* A did:peer then asks for mediation; if that fails the identifier stays, unlisted.
CreateDid(t) ==
    /\ At(t, "create", "did")
    /\ \/ /\ Did(t) \notin Managed
          /\ \E k \in KeyIds \ kms :
               /\ kms' = kms \cup {k}
               /\ dids' = [dids EXCEPT ![Did(t)] = [keys |-> {k}, service |-> FALSE]]
          /\ Now(t, IF Peer(Did(t)) THEN "ask mediator" ELSE "close")
       \/ UNCHANGED <<dids, kms>> /\ Stop(t)
    /\ UNCHANGED pageVars
AskMediator(t) ==
    /\ At(t, "create", "ask mediator")
    /\ Now(t, "close") \/ Stop(t)
    /\ UNCHANGED <<dids, kms, pageVars>>
CloseForm(t) ==
    /\ At(t, "create", "close")
    /\ Stop(t)
    /\ UNCHANGED <<dids, kms, enabled, failed, endpoint, byHand>>

Init ==
    /\ \E known \in SUBSET Dids, served \in SUBSET Dids :
         /\ served \subseteq known
         /\ dids = [d \in Dids |-> IF d \in known THEN [keys |-> {}, service |-> d \in served] ELSE None]
         /\ byHand = served
    /\ kms = {}
    /\ tasks = [t \in Tasks |-> Idle]
    /\ enabled = [d \in Dids |-> TRUE] /\ failed = [d \in Dids |-> FALSE]
    /\ endpoint = [d \in Dids |-> None]

Work(t) ==
    CreateKey(t) \/ AddKey(t) \/ AddService(t) \/ Mediate(t) \/ AddCreatedKey(t) \/ Delete(t)
    \/ CreateDid(t) \/ AskMediator(t) \/ CloseForm(t)
Click(t, d) == StartSetup(t, d) \/ StartAddKey(t, d) \/ StartDelete(t, d) \/ StartCreate(t, d)
Next ==
    \/ \E t \in Tasks : Work(t) \/ \E d \in Dids : Click(t, d)
    \/ \E d \in Dids : FindWeb(d) \/ RemoveKey(d) \/ SetService(d)

Spec == Init /\ [][Next]_vars

\* Calls of the agent are answered.
Fairness == \A t \in Tasks : WF_vars(Work(t))

(***************************************************************************)
(* Properties                                                              *)
(***************************************************************************)
\* An identifier that only the quick setup touched never has a DIDComm endpoint without a
\* key: nobody is invited to write who could not be read.  Other setups and lists that are
\* out of date may come in between.
ServiceNeedsKey ==
    \A d \in Managed \ byHand :
        dids[d].service /\ ~Peer(d) => dids[d].keys # {}

\* That, and a quick setup that adds a service itself and shows no error leaves the
\* identifier with the key that it made, unless a user took it away or deleted the identifier.
SetupIsWhole ==
    [][/\ ServiceNeedsKey'
       /\ \A t \in Tasks :
            LET d == Did(t)
            IN At(t, "setup", "service") /\ tasks'[t] = Idle /\ failed' = failed /\ ~failed[d] =>
                 dids'[d].service /\ (d \in byHand \/ tasks[t].key \in dids'[d].keys)]_vars

\* The button of the quick setup works again, however the setup ends, but for did:peer.
ButtonComesBack == \A d \in Dids : ~Peer(d) => (~enabled[d] ~> enabled[d])
=============================================================================
