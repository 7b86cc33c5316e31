-------------------------------- MODULE VcApi --------------------------------
(***************************************************************************)
(* The VC API: requests of issuers, holders and verifiers, the credential  *)
(* router that picks a plugin by proof format or by document, the          *)
(* OpenAttestation plugin, and the error handler that makes a status of an *)
(* error's message.  A handler takes one step per call of the agent.       *)
(*                                                                         *)
(* A stored document is [id, copy, form]: the id its issuer chose, which   *)
(* need not be unique; the request that stored it, standing for its hash;  *)
(* its form.  A message is the sequence of its parts between colons.       *)
(***************************************************************************)
EXTENDS Naturals, Sequences, FiniteSets

CONSTANTS
    Ids,
    Formats,     \* proof formats and, of what is made, forms
    Issuers,     \* issuers that credentials name
    Managed,     \* those of them that the DID manager has
    EthIssuers,  \* those of them with a Secp256k1 key
    Plugins,     \* subset of {"CredentialW3c", "CredentialOA"}
    Requests,
    None

VARIABLES
    stored,   \* the data store's documents, credentials and presentations
    pc,       \* request -> "idle", the agent call it is at, or "answered"
    order,    \* request -> what it asks
    before,   \* history: request -> the requests answered when it arrived
    found,    \* request -> the document its lookup returned
    answer    \* request -> [status, result: who verified it, NotVerified, or None]

vars == <<stored, pc, order, before, found, answer>>

OA == "OpenAttestationMerkleProofSignature2018"
LookupKinds == {"get", "list", "delete"}
\* POST /credentials/issue imposes 'lds' and save; POST /agent/routeCreation... and
\* POST /presentations/prove, whose options are laid over the configuration, do not.
\* The stubs are derive, status, deletion of a presentation and the exchanges.
Orders ==
    [kind : {"get", "list"}, id : Ids, what : {"credential", "presentation"}]
    \cup [kind : {"delete"}, id : Ids, what : {"credential"}]
    \cup [kind : {"create"}, route : {"issue"}, id : Ids, issuer : Issuers, form : {"lds"},
          save : {TRUE}, what : {"credential"}]
    \cup [kind : {"create"}, route : {"agent"}, id : Ids, issuer : Issuers, form : Formats,
          save : BOOLEAN, what : {"credential"}]
    \cup [kind : {"create"}, route : {"prove"}, id : Ids, issuer : Issuers,
          form : Formats \ {OA}, save : BOOLEAN, what : {"presentation"}]
    \cup [kind : {"verify"}, form : Formats, what : {"credential", "presentation"}]
    \cup {[kind |-> "stub", what |-> "none"]}

-----------------------------------------------------------------------------
(* Errors.                                                                 *)

\* errorHandler: the part before the first colon decides the status.
ErrorStatus(message) ==
    CASE message[1] = "not_found" -> 404
      [] message[1] = "not_implemented" -> 501
      [] OTHER -> 500

NotVerified == "not verified"

Reply(r, status, result) ==
    /\ pc' = [pc EXCEPT ![r] = "answered"]
    /\ answer' = [answer EXCEPT ![r] = [status |-> status, result |-> result]]

\* catch (error) { throw new Error(error) } puts "Error: " before the message.
Rewrapped(message) == <<"Error">> \o message

\* Thrown by a plugin, possibly through the router.
Throw(r, message) ==
    LET routed == order[r].kind = "verify" \/ (order[r].kind = "create" /\ order[r].route # "prove")
    IN  Reply(r, ErrorStatus(IF routed THEN Rewrapped(message) ELSE message), None)

-----------------------------------------------------------------------------
(* The credential router.                                                  *)

CreationPlugin(format) == IF format = OA THEN "CredentialOA" ELSE "CredentialW3c"

\* What a plugin puts in the proof.
Proof(form) ==
    CASE form = "jwt" -> [jwt |-> TRUE, type |-> "JwtProof2020"]
      [] form = "lds" -> [jwt |-> FALSE, type |-> "JsonWebSignature2020"]
      [] OTHER -> [jwt |-> FALSE, type |-> form]

DetectDocumentType(form) ==
    CASE Proof(form).jwt -> "JWT"
      [] ~Proof(form).jwt /\ Proof(form).type = "EthereumEip712Signature2021" -> "EIP712"
      [] ~Proof(form).jwt /\ Proof(form).type = OA -> "OA"
      [] OTHER -> "JSONLD"

VerificationPlugin(form) ==
    IF DetectDocumentType(form) = "OA" THEN "CredentialOA" ELSE "CredentialW3c"

-----------------------------------------------------------------------------
(* Handlers.                                                               *)

\* A holder has a document verified that this server made.
Made(o) ==
    \E q \in Requests :
        /\ pc[q] = "answered" /\ answer[q].status \in {200, 201} /\ order[q].kind = "create"
        /\ order[q].form = o.form /\ order[q].what = o.what

Arrive(r, o) ==
    /\ pc[r] = "idle"
    /\ o.kind = "verify" => Made(o)
    /\ order' = [order EXCEPT ![r] = o]
    /\ before' = [before EXCEPT ![r] = {q \in Requests : pc[q] = "answered"}]
    /\ IF o.kind = "stub"
       THEN Reply(r, 501, None)
       ELSE /\ pc' = [pc EXCEPT ![r] = IF o.kind \in LookupKinds THEN "lookup" ELSE o.kind]
            /\ UNCHANGED answer
    /\ UNCHANGED <<stored, found>>

Matching(o) == {d \in stored : d.what = o.what /\ (o.kind # "list" => d.id = o.id)}

\* dataStoreORMGetVerifiableCredentials / ...Presentations by id, or all of them; the
\* first of several is taken.
Lookup(r) ==
    /\ pc[r] = "lookup"
    /\ LET o == order[r] IN
       IF Matching(o) = {}
       THEN /\ IF o.kind = "list" THEN Reply(r, 410, None)
               ELSE IF o.kind = "get" THEN Reply(r, 404, None)
               ELSE Throw(r, <<"not_found", "Credential not found">>)
            /\ UNCHANGED found
       ELSE IF o.kind = "list" THEN Reply(r, 200, None) /\ UNCHANGED found
       ELSE \E d \in Matching(o) :
              /\ found' = [found EXCEPT ![r] = d]
              /\ IF o.kind = "get" THEN Reply(r, 200, None)
                 ELSE pc' = [pc EXCEPT ![r] = "delete"] /\ UNCHANGED answer
    /\ UNCHANGED <<stored, order, before>>

\* Mutant: the answer is given without deleting.
DeleteNothing(r) ==
    /\ pc[r] = "delete"
    /\ Reply(r, 202, None)
    /\ UNCHANGED <<stored, order, before, found>>

\* dataStoreDeleteVerifiableCredential by the hash found; it is true for one that has
\* gone meanwhile.
Delete(r) ==
    /\ pc[r] = "delete"
    /\ stored' = stored \ {found[r]}
    /\ Reply(r, 202, None)
    /\ UNCHANGED <<order, before, found>>

Document(r) == [what |-> order[r].what, id |-> order[r].id, copy |-> r, form |-> order[r].form]

\* The agent's own route answers 200.
CreatedStatus(r) == IF order[r].route = "agent" THEN 200 ELSE 201

\* The plugin chosen by the format, or by nothing for a presentation, checks that it can
\* sign for the issuer.  OpenAttestation signs with a Secp256k1 key only.
Create(r) ==
    LET o == order[r]
        plugin == IF o.route = "prove" THEN "CredentialW3c" ELSE CreationPlugin(o.form)
    IN
    /\ pc[r] = "create"
    /\ CASE plugin \notin Plugins -> Throw(r, <<"invalid_setup", "plugin">>)
         [] plugin \in Plugins /\ o.issuer \notin Managed ->
                Throw(r, <<"invalid_argument", "issuer">>)
         [] plugin \in Plugins /\ o.issuer \in Managed /\ o.form = OA /\ o.issuer \notin EthIssuers ->
                Throw(r, <<"No signing key">>)
         [] OTHER -> IF o.save THEN pc' = [pc EXCEPT ![r] = "save"] /\ UNCHANGED answer
                     ELSE Reply(r, CreatedStatus(r), None)
    /\ UNCHANGED <<stored, order, before, found>>

\* Mutant: the answer is sent although the document could not be stored.
SaveIgnoringErrors(r) ==
    /\ pc[r] = "save"
    /\ \/ stored' = stored \cup {Document(r)}
       \/ UNCHANGED stored
    /\ Reply(r, CreatedStatus(r), None)
    /\ UNCHANGED <<order, before, found>>

\* dataStoreSaveVerifiable...; it may fail.
Save(r) ==
    /\ pc[r] = "save"
    /\ \/ /\ stored' = stored \cup {Document(r)}
          /\ Reply(r, CreatedStatus(r), None)
       \/ UNCHANGED stored /\ Throw(r, <<"SQLITE_BUSY">>)
    /\ UNCHANGED <<order, before, found>>

\* A presentation is passed to verifyPresentation as `credential`.  The schemas of the agent's
\* methods are not checked (schemaValidation), so the plugin verifies a presentation that is
\* undefined, and its result says so.  verifyCredentialOA never throws: its errors are results.
Verify(r) ==
    LET plugin == IF order[r].what = "presentation" THEN "CredentialW3c"
                  ELSE VerificationPlugin(order[r].form)
    IN
    /\ pc[r] = "verify"
    /\ IF plugin \notin Plugins THEN Throw(r, <<"invalid_setup", "plugin">>)
       ELSE Reply(r, 200, IF order[r].what = "presentation" THEN NotVerified ELSE plugin)
    /\ UNCHANGED <<stored, order, before, found>>

Init ==
    /\ stored = {}
    /\ pc = [r \in Requests |-> "idle"]
    /\ order = [r \in Requests |-> [kind |-> "stub", what |-> "none"]]
    /\ before = [r \in Requests |-> {}]
    /\ found = [r \in Requests |-> None]
    /\ answer = [r \in Requests |-> [status |-> 0, result |-> None]]

Step(r) == Lookup(r) \/ Delete(r) \/ Create(r) \/ Save(r) \/ Verify(r)
Next == \E r \in Requests : Step(r) \/ \E o \in Orders : Arrive(r, o)

Spec == Init /\ [][Next]_vars

-----------------------------------------------------------------------------
(* Properties.                                                             *)

Answered(kind, status) ==
    {r \in Requests : pc[r] = "answered" /\ order[r].kind = kind /\ answer[r].status = status}
Subject(r) == <<order[r].what, order[r].id>>
Arrived(kind) == {r \in Requests : pc[r] # "idle" /\ order[r].kind = kind}

\* What was issued and saved is found under its id until someone asks to delete it.
IssuedIsFound ==
    \A g, c \in Requests :
        /\ g \in Answered("get", 404) /\ c \in before[g] \cap Arrived("create")
        /\ order[c].save /\ answer[c].status = CreatedStatus(c) /\ Subject(c) = Subject(g)
        => \E d \in Arrived("delete") : Subject(d) = Subject(g)

GoneAfter(d) ==
    \A g \in Answered("get", 200) :
        d \in before[g] /\ Subject(g) = Subject(d)
        => \E c \in Arrived("create") : Subject(c) = Subject(d) /\ c \notin before[d]

\* A credential that was deleted is not found any more, if its id was given to one only;
\* deletions and a creation of it may overlap.
DeletedIsGone ==
    \A d \in Answered("delete", 202) :
        (\A b, c \in Arrived("create") : Subject(b) = Subject(d) /\ Subject(c) = Subject(d) => b = c)
        => GoneAfter(d)
=============================================================================
