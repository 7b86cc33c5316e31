-------------------------------- MODULE Server --------------------------------
(***************************************************************************)
(* Parts of the server: the VC API, the document router of did:web         *)
(* identifiers, and the making of the configured objects.  They share no   *)
(* state that is modelled, so a behaviour is one of a single part, chosen  *)
(* at the start, and the others stay as they began.  The VC API is         *)
(* extended, the others are instances.                                     *)
(***************************************************************************)
EXTENDS VcApi

CONSTANTS
    DocRequests, Hosts, BaseHost, BaseName, Keys, KeyType, KeyMappings, KeyBound,  \* documents
    Paths, Parent, Configs                                                         \* objects

VARIABLES
    part,
    keyMapping, identifiers, init, requests,       \* of the documents
    config, made, memo, stack, got, outcome        \* of the objects

documentVars == <<keyMapping, identifiers, init, requests>>
configVars == <<config, made, memo, stack, got, outcome>>
serverVars == <<part, vars, documentVars, configVars>>

Documents == INSTANCE WebDidDoc WITH Requests <- DocRequests
Config == INSTANCE ConfigObjects

ASSUME DocumentsAssumption == None \notin Documents!Identifiers

ASSUME ConfigAssumption ==
    /\ None \notin Paths /\ None \notin Nat
    /\ Parent \in [Paths -> Paths \cup {None}]
    /\ \A c \in Configs : Config!WellFormed(c)

\* What the idle parts have.
AMapping == CHOOSE m \in KeyMappings : TRUE
AConfig == CHOOSE c \in Configs : TRUE

ServerInit ==
    /\ part \in {"api", "documents", "config"}
    /\ Init
    /\ Documents!Init /\ (part # "documents" => keyMapping = AMapping)
    /\ Config!Init /\ (part # "config" => config = AConfig)

ServerNext ==
    \/ /\ part = "api" /\ Next
       /\ UNCHANGED <<part, documentVars, configVars>>
    \/ /\ part = "documents" /\ Documents!Next
       /\ UNCHANGED <<part, vars, configVars>>
    \/ /\ part = "config" /\ Config!Next
       /\ UNCHANGED <<part, vars, documentVars>>

ServerSpec == ServerInit /\ [][ServerNext]_serverVars

-----------------------------------------------------------------------------
(* The properties of the instances; those of the VC API are its own.       *)

\* What cannot be published is refused; else each Ed25519 key is listed, and no id twice.
KeysAreListed == Documents!KeysAreListed

\* A start-up that completes leaves the default identifier with both of its services.
DefaultComplete == Documents!DefaultComplete

\* Every pointer to a part gets the one object that was made for it, and the whole of it.
PointersShareWholes == Config!PointersShareWholes

\* createObjects completes exactly when no part needs itself or a missing one, and hangs
\* only when one needs itself.
FailsIffBroken == Config!FailsIffBroken
=============================================================================
