------------------------------ MODULE WebDidDoc ------------------------------
(***************************************************************************)
(* WebDidDocRouter and createDefaultDid: the agent's did:web identifiers,  *)
(* created at start-up and changed by calls of the agent, and the DID      *)
(* documents made of them for GET requests.  A request fetches the         *)
(* identifier, derives keys and answers, while others change the           *)
(* identifier.                                                             *)
(*                                                                         *)
(* A did:web is named by the host in it; a request by the host it asks.    *)
(* A key is a value with a type; KeyMapping gives the type of the method   *)
(* it is published as.  KeyBound bounds the keys of an identifier.         *)
(***************************************************************************)
EXTENDS Naturals, Sequences, FiniteSets, SequencesExt

CONSTANTS
    Hosts,        \* hosts requests name (req.get('host'))
    BaseHost,     \* host, with its port, of baseUrl
    BaseName,     \* its hostname, without the port
    Keys, KeyType,
    KeyMappings,  \* keyMapping with the options laid over it: key type -> method type
    Requests,
    KeyBound,
    None

VARIABLES
    keyMapping,
    identifiers,  \* host -> None or [keys, services]
    init,         \* progress of createDefaultDid: its next step, or "done"
    requests      \* request -> [phase, host, found, doc]

vars == <<keyMapping, identifiers, init, requests>>

Services == {"#msg", "#msg-didcomm"}
Identifiers == [keys : Seq(Keys), services : SUBSET Services]

Fresh(key) == [keys |-> <<key>>, services |-> {}]
Ed25519(keys) == {i \in DOMAIN keys : KeyType[keys[i]] = "Ed25519"}
FirstEd25519(keys) == keys[CHOOSE i \in Ed25519(keys) : \A j \in Ed25519(keys) : i <= j]

-----------------------------------------------------------------------------
(* The document.  A verification method: its id, its type, and the key and *)
(* the use of the material in it.                                          *)

Method(id, type, key, use) == [id |-> id, type |-> type, key |-> key, use |-> use]

\* Mutant: every key is published with the suffix of the first derived pair.
WebKeysUnnumbered(keys) ==
    LET first == FirstEd25519(keys) IN
    <<Method(<<first, 0>>, "JsonWebKey2020", first, "sign"),
      Method(<<first, 0>>, "JsonWebKey2020", first, "agree")>>

\* webKeysForIdentifier: the first Ed25519 key, and the X25519 key derived from it.
WebKeys(keys) ==
    LET first == FirstEd25519(keys) IN
    <<Method(<<first, 0>>, "JsonWebKey2020", first, "sign"),
      Method(<<first, 1>>, "JsonWebKey2020", first, "agree")>>

\* 'JsonWebKey2020 requires Ed25519 key': the whole document is refused.
NoWebKey(keys) ==
    /\ \E i \in DOMAIN keys : keyMapping[KeyType[keys[i]]] = "JsonWebKey2020"
    /\ Ed25519(keys) = {}

MethodsOf(k, keys) ==
    IF keyMapping[KeyType[k]] = "JsonWebKey2020" THEN WebKeys(keys)
    ELSE <<Method(<<k>>, keyMapping[KeyType[k]], k,
                  IF KeyType[k] = "X25519" THEN "agree" ELSE "sign")>>

\* The methods of one key after the other: <<i, j>> is the place of the j-th of the i-th key.
Places(keys) == {p \in (DOMAIN keys) \X {1, 2} : p[2] \in DOMAIN MethodsOf(keys[p[1]], keys)}
Methods(keys) == [p \in Places(keys) |-> MethodsOf(keys[p[1]], keys)[p[2]]]

DidDoc(identifier) ==
    LET all == Range(Methods(identifier.keys)) IN
    [methods |-> Methods(identifier.keys),
     signing |-> {m.id : m \in {x \in all : x.type # "X25519KeyAgreementKey2019"}},
     agreement |-> {m.id : m \in {x \in all : x.type \in
                        {"Ed25519VerificationKey2018", "X25519KeyAgreementKey2019"}}},
     services |-> identifier.services]

-----------------------------------------------------------------------------
(* Requests: an identifier that is not found and a document that cannot be *)
(* made are both 404.                                                      *)

Get(r, h) ==
    /\ requests[r].phase = "idle"
    /\ requests' = [requests EXCEPT ![r] =
           [phase |-> "fetched", host |-> h, found |-> identifiers[h], doc |-> None]]
    /\ UNCHANGED <<keyMapping, identifiers, init>>

Refuses(r) == requests[r].found = None \/ NoWebKey(requests[r].found.keys)

Answer(r) ==
    /\ requests[r].phase = "fetched"
    /\ requests' = [requests EXCEPT ![r] =
           IF Refuses(r) THEN [@ EXCEPT !.phase = "refused"]
           ELSE [@ EXCEPT !.phase = "answered", !.doc = DidDoc(requests[r].found)]]
    /\ UNCHANGED <<keyMapping, identifiers, init>>

-----------------------------------------------------------------------------
(* createDefaultDid at start-up, step by step; the agent may stop between. *)

\* Mutant: an identifier that exists is taken to be complete.
GetOrCreateOnly(key) ==
    /\ init = "identifier"
    /\ init' = IF identifiers[BaseName] = None THEN "#msg" ELSE "done"
    /\ identifiers' = IF identifiers[BaseName] = None
                      THEN [identifiers EXCEPT ![BaseName] = Fresh(key)] ELSE identifiers
    /\ UNCHANGED <<keyMapping, requests>>

GetOrCreate(key) ==
    /\ init = "identifier"
    /\ KeyType[key] = "Ed25519"
    /\ identifiers' = IF identifiers[BaseName] = None
                      THEN [identifiers EXCEPT ![BaseName] = Fresh(key)] ELSE identifiers
    /\ init' = "#msg"
    /\ UNCHANGED <<keyMapping, requests>>

AddMessaging ==
    /\ init \in {"#msg", "#msg-didcomm"} /\ identifiers[BaseName] # None
    /\ identifiers' = [identifiers EXCEPT ![BaseName].services = @ \cup {init}]
    /\ init' = IF init = "#msg" THEN "#msg-didcomm" ELSE "done"
    /\ UNCHANGED <<keyMapping, requests>>

\* The agent stops or a call of it fails, and is started again.
Restart ==
    /\ init # "identifier"
    /\ init' = "identifier"
    /\ UNCHANGED <<keyMapping, identifiers, requests>>

-----------------------------------------------------------------------------
(* The agent's other calls: an identifier is created, gets and loses keys. *)

Create(h, key) ==
    /\ identifiers[h] = None
    /\ identifiers' = [identifiers EXCEPT ![h] = Fresh(key)]
    /\ UNCHANGED <<keyMapping, init, requests>>

AddKey(h, key) ==
    /\ identifiers[h] # None
    /\ key \notin ToSet(identifiers[h].keys) /\ Len(identifiers[h].keys) < KeyBound
    /\ identifiers' = [identifiers EXCEPT ![h].keys = Append(@, key)]
    /\ UNCHANGED <<keyMapping, init, requests>>

\* The keys of an identifier differ: the one at position i.
RemoveKey(h, i) ==
    /\ identifiers[h] # None /\ i \in DOMAIN identifiers[h].keys
    /\ identifiers' = [identifiers EXCEPT ![h].keys = RemoveAt(@, i)]
    /\ UNCHANGED <<keyMapping, init, requests>>

Init ==
    /\ keyMapping \in KeyMappings
    /\ identifiers = [h \in Hosts \cup {BaseName} |-> None]
    /\ init = "identifier"
    /\ requests = [r \in Requests |->
           [phase |-> "idle", host |-> BaseHost, found |-> None, doc |-> None]]

Next ==
    \/ \E r \in Requests : Answer(r) \/ \E h \in Hosts : Get(r, h)
    \/ \E k \in Keys : GetOrCreate(k)
    \/ AddMessaging
    \/ Restart
    \/ \E h \in Hosts \cup {BaseName}, k \in Keys : Create(h, k) \/ AddKey(h, k)
    \/ \E h \in Hosts \cup {BaseName}, i \in 1..KeyBound : RemoveKey(h, i)

Spec == Init /\ [][Next]_vars

-----------------------------------------------------------------------------
(* Properties.                                                             *)

MethodsIn(r) == Range(requests[r].doc.methods)

\* The positions of the keys that are published as JsonWebKey2020.
AsWebKeys(r) ==
    {i \in DOMAIN requests[r].found.keys :
        keyMapping[KeyType[requests[r].found.keys[i]]] = "JsonWebKey2020"}
OneWebKey(r) == \A i, j \in AsWebKeys(r) : i = j
HasEd25519(r) == \E i \in DOMAIN requests[r].found.keys : KeyType[requests[r].found.keys[i]] = "Ed25519"

OwnMethods(r) ==
    /\ \A k \in ToSet(requests[r].found.keys) :
           KeyType[k] = "Ed25519" => \E m \in MethodsIn(r) : m.key = k /\ m.use = "sign"
    /\ \A i, j \in DOMAIN requests[r].doc.methods :
           requests[r].doc.methods[i].id = requests[r].doc.methods[j].id => i = j

\* A request is refused for an unknown identifier, and for one that has a key published as
\* JsonWebKey2020 but lost its last Ed25519 key; for nothing else.  As long as at most one key
\* is published as JsonWebKey2020, the document lists each Ed25519 key the identifier had and
\* no id twice: what is signed with a key can be verified by whoever resolves the identifier
\* while it has the key.
KeysAreListed ==
    \A r \in Requests :
        LET unpublishable == requests[r].found = None \/ (AsWebKeys(r) # {} /\ ~HasEd25519(r))
        IN  /\ requests[r].phase = "refused" => unpublishable
            /\ requests[r].phase = "answered" => ~unpublishable /\ (OneWebKey(r) => OwnMethods(r))

\* Wherever an earlier start was cut short, a start-up that completes leaves the default
\* identifier with both of its services.
DefaultComplete ==
    init = "done" => /\ identifiers[BaseName] # None
                     /\ identifiers[BaseName].services = Services
=============================================================================
