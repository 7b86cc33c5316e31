------------------------------- MODULE Clients -------------------------------
(***************************************************************************)
(* The users' side of the system: the explorer's chats, its pages          *)
(* on identifiers with their search and their forms, requests for          *)
(* credentials, single credentials, issuing and presenting, and the        *)
(* command line.  They share no state that is modelled, so a behaviour is  *)
(* one of a single part, chosen at the start, and the others stay as they  *)
(* began.  The command line takes two parts, commands on keys and commands *)
(* on documents; so do search and profiles, the two pages on a credential, *)
(* and issuing and presenting.  The disclosure is extended, the others are *)
(* instances.                                                              *)
(***************************************************************************)
EXTENDS Disclosure, Integers, Sequences

CONSTANTS
    Own, Peers, Sends, Pickups, MessageBound,   \* of the chats
    PageDids, Provider, KeyIds, Tasks,          \* of the identifiers' pages
    Sessions, CliDids, Ethr, CliKeys, DocKey, MaxPicks,   \* of the command line
    Creds, Checks, Providers, Default,          \* of the pages on a credential
    Schemas, Issuers, Presentations, MaxClicks, \* of issuing and presenting
    FindDids, Words, Texts, Within, InDid, MaxChanges,    \* of search and profiles
    MaxFillings                                 \* of the forms

VARIABLES
    part,
    identity, composing, newRecipient, modal, route, loaded, sends, store, sent, queue, pickups,
    next,                                                                   \* chats
    dids, kms, tasks, enabled, failed, endpoint, byHand,   \* identifiers
    ids, keys, creds, presentations, messages, posted, cli,                 \* command line
    genuine, render, text, checks, link, result, rendered, rendering, busy, documents,
    overlapped, revoked, infoRevoked, loading, calls, told,            \* credential pages
    schema, options, form, errors, sending, issuance, issued, refused,
    holder, verifier, signings, mailed,                           \* issuing and presenting
    data, changes, typed, offered, offeredFor, searches, overtyped, methods,
    lookups,                                                                \* search, profiles
    kind, visible, entered, waiting, fillings, created                      \* forms

chatVars == <<identity, composing, newRecipient, modal, route, loaded, sends, store, sent, queue,
              pickups, next>>
idVars == <<dids, kms, tasks, enabled, failed, endpoint, byHand>>
cliVars == <<ids, keys, creds, presentations, messages, posted, cli>>
verifyVars == <<genuine, render, text, checks, link, result, rendered, rendering, busy, documents,
                overlapped>>
statusVars == <<revoked, infoRevoked, loading, calls, told>>
issueVars == <<schema, options, form, errors, sending, issuance, issued, refused>>
presentVars == <<holder, verifier, signings, mailed>>
findVars == <<data, changes, typed, offered, offeredFor, searches, overtyped, methods, lookups>>
modalVars == <<kind, visible, entered, waiting, fillings, created>>
credentialVars == <<verifyVars, statusVars, issueVars, presentVars>>
newVars == <<vars, credentialVars, findVars, modalVars>>
clientVars == <<part, chatVars, idVars, cliVars, newVars>>

Documents == {"delete", "credential", "credentialOA", "presentation", "sdr", "respond", "message"}

Chats == INSTANCE Chat WITH selected <- identity, shown <- loaded
Pages == INSTANCE Identifiers WITH Dids <- PageDids
KeyCli == INSTANCE CliSessions
    WITH Dids <- CliDids, Parties <- CliDids, KeyIds <- CliKeys, kms <- keys,
         Commands <- {"create", "delete", "add-key", "remove-key", "export", "import"}
DocCli == INSTANCE CliSessions
    WITH Dids <- CliDids, Parties <- CliDids, KeyIds <- {DocKey[d] : d \in CliDids}, kms <- keys,
         Commands <- Documents

Viewer == INSTANCE CredentialPages
Forms == INSTANCE IssuerForms
    WITH failed <- refused, presentations <- signings, posted <- mailed
Finder == INSTANCE Discovery
    WITH options <- offered, optionsOf <- offeredFor, overlapped <- overtyped, Searches <- Tasks, Dids <- FindDids
Modal == INSTANCE ModalForms WITH calls <- waiting, sent <- created

ASSUME ChatAssumption == Own \cap Peers = {}

\* What the text field and the results are told apart by.
ASSUME ViewerAssumption == None \notin Creds /\ "invalid" \notin Creds

\* Nor is the value for no identifier one of the agent's identifiers.
ASSUME PagesAssumption == None \notin [keys : SUBSET KeyIds, service : BOOLEAN]

\* What is typed is a word or an identifier, never both.
ASSUME FinderAssumption == None \notin Words /\ FindDids \cap (Words \cup {None}) = {}

\* The value for no key, or no keys at all, is not one or a set of them.
ASSUME CliAssumption == None \notin CliKeys /\ \A S \in SUBSET CliKeys : S # None

ClientsInit ==
    /\ part \in {"chats", "identifiers", "keys", "documents", "disclosure", "verifier", "status",
                "issue", "present", "search", "profiles", "form"}
    /\ Chats!NothingWritten /\ identity \in (IF part = "chats" THEN Own ELSE {None})
    /\ Pages!Init /\ (part # "identifiers" => Pages!Managed = {})
    /\ KeyCli!Init /\ (part \notin {"keys", "documents"} => keys = {} /\ creds = {})
    \* Which keys they are makes no difference to the commands on documents.
    /\ (part = "documents" =>
            \A d \in CliDids : ids[d] \in {None, {DocKey[d]}})
    /\ Init /\ (part # "disclosure" => wallet = {})
    /\ Viewer!Init
    /\ (part # "verifier" => genuine = {} /\ ~link /\ \A c \in Creds : render[c] = None)
    /\ (part # "status" => ~revoked)
    /\ Forms!Init /\ (part # "issue" => options = Issuers)
    /\ Finder!Init
    /\ (part \notin {"search", "profiles"} => \A d \in FindDids : data[d] = None)
    /\ (part = "search" => \A d \in FindDids : data[d] \in Finder!WithoutKudos)
    /\ (part # "profiles" => methods = {})
    /\ Modal!Init /\ (part # "form" => kind = "service")

ClientsNext ==
    \/ /\ part = "chats" /\ Chats!Next
       /\ UNCHANGED <<part, idVars, cliVars, newVars>>
    \/ /\ part = "identifiers" /\ Pages!Next
       /\ UNCHANGED <<part, chatVars, cliVars, newVars>>
    \/ /\ part = "keys" /\ KeyCli!Next
       /\ UNCHANGED <<part, chatVars, idVars, newVars>>
    \/ /\ part = "documents" /\ DocCli!Next
       /\ UNCHANGED <<part, chatVars, idVars, newVars>>
    \/ /\ part = "disclosure" /\ Next
       /\ UNCHANGED <<part, chatVars, idVars, cliVars, credentialVars, findVars, modalVars>>
    \/ /\ part = "verifier" /\ Viewer!VerifierNext
       /\ UNCHANGED <<part, chatVars, idVars, cliVars, vars, issueVars, presentVars, findVars, modalVars>>
    \/ /\ part = "status" /\ Viewer!StatusNext
       /\ UNCHANGED <<part, chatVars, idVars, cliVars, vars, issueVars, presentVars, findVars, modalVars>>
    \/ /\ part = "issue" /\ Forms!IssueNext
       /\ UNCHANGED <<part, chatVars, idVars, cliVars, vars, verifyVars, statusVars, findVars, modalVars>>
    \/ /\ part = "present" /\ Forms!PresentNext
       /\ UNCHANGED <<part, chatVars, idVars, cliVars, vars, verifyVars, statusVars, findVars, modalVars>>
    \/ /\ part = "search" /\ Finder!SearchNext
       /\ UNCHANGED <<part, chatVars, idVars, cliVars, vars, credentialVars, modalVars>>
    \/ /\ part = "profiles" /\ Finder!ProfileNext
       /\ UNCHANGED <<part, chatVars, idVars, cliVars, vars, credentialVars, modalVars>>
    \/ /\ part = "form" /\ Modal!Next
       /\ UNCHANGED <<part, chatVars, idVars, cliVars, vars, credentialVars, findVars>>

ClientsSpec == ClientsInit /\ [][ClientsNext]_clientVars

-----------------------------------------------------------------------------
(* The properties of the instances; those of the disclosure are its own.   *)

\* Replies go to the other party of the thread.
RepliesStayInThread == Chats!RepliesStayInThread

\* A message of an own identity that is stored was sent.
StoredWasSent == Chats!StoredWasSent

\* A quick setup leaves no endpoint without a key, and without an error all that it made.
SetupIsWhole == Pages!SetupIsWhole

\* Identifiers have their keys, and a key without identifier was left by what did not end well.
KeysAreAccounted == KeyCli!KeysAreAccounted

\* Whatever is presented is about the holder who signs it.
PresentedAboutHolder == DocCli!PresentedAboutHolder

\* What was sent is stored and by its sender, and a response answers a request.
SentIsStored == DocCli!SentIsStored

\* Whatever is shown as valid, or is rendered, has been verified.
ShownWasVerified == Viewer!ShownWasVerified

\* A page whose buttons work shows the status that the agent told last.
StatusIsCurrent == Viewer!StatusIsCurrent

\* What is on a form is issued once, and presented to the verifier it was made for.
AsClicked == Forms!AsClicked

\* A search offers every identifier that matched all the while, and names are the best known.
FindsWhatIsKnown == Finder!FindsWhatIsKnown

\* What was entered into a form is kept until it is sent, complete and once.
InputIsSentOnce == Modal!InputIsSentOnce
=============================================================================
