----------------------------- MODULE CliSessions -----------------------------
(***************************************************************************)
(* The commands of the command line tool that work on the agent's          *)
(* database.  A session is one process: it reads, asks the user, and then  *)
(* calls the agent on what it read, while other sessions on the same       *)
(* database do the same.  It may be killed between any two calls.          *)
(*                                                                         *)
(* The agent's own operations on keys, identifiers and stored documents    *)
(* are external and take one step each.                                    *)
(***************************************************************************)
EXTENDS Integers, Sequences, FiniteSets

CONSTANTS
    Sessions, Commands,  \* processes, and the commands they may run
    Dids, Parties,       \* identifiers the agent may manage; whom it may name
    Ethr,                \* those of Dids of the provider did:ethr
    KeyIds,
    MaxPicks,            \* credentials a user adds to a presentation or request
    None

VARIABLES
    ids,    \* identifier -> its keys, or None when the agent does not manage it
    kms,    \* keys of the key store
    creds, presentations, messages,   \* the data store
    posted, \* history: DIDComm messages handed to the transport, with the command that did it
    cli     \* session -> its progress

vars == <<ids, kms, creds, presentations, messages, posted, cli>>
data == <<creds, presentations, messages>>

Managed == {d \in Dids : ids[d] # None}
Forms == {"w3c", "oa"}
Credential(i, s, f) == [iss |-> i, sub |-> s, form |-> f]
KeyCommands == {"create", "delete", "add-key", "remove-key", "export", "import"}

\* One session moves on: some of its fields get new values.
Go(s, r) == cli' = [cli EXCEPT ![s] = [f \in DOMAIN @ |-> IF f \in DOMAIN r THEN r[f] ELSE @[f]]]
End(s, how) == Go(s, [at |-> "ended", how |-> how])
At(s, command, place) == cli[s].cmd = command /\ cli[s].at = place

(***************************************************************************)
(* Reading and asking                                                      *)
(***************************************************************************)
\* didManagerFind, then the prompts.  The commands that issue leave without an
\* error when there is no identifier; the others show an empty list.
NeedsDid == {"credential", "credentialOA", "presentation", "sdr"}
Shown(c) == IF c = "credentialOA" THEN Managed \cap Ethr
            ELSE IF c \in {"create", "import"} THEN Dids ELSE Managed
Begin(s) ==
    /\ cli[s].at = "start"
    /\ \E c \in Commands \cap (NeedsDid \cup KeyCommands), send \in BOOLEAN :
         /\ send => c \in NeedsDid
         /\ IF c \in NeedsDid /\ Shown(c) = {}
            THEN Go(s, [cmd |-> c, at |-> "ended", how |-> "refused"])
            ELSE Go(s, [cmd |-> c, at |-> "ask", send |-> send, list |-> Shown(c)])
    /\ UNCHANGED <<ids, kms, data, posted>>

Choose(s) ==
    /\ cli[s].at = "ask"
    /\ \E d \in cli[s].list : Go(s, [at |-> "run", did |-> d])
    /\ UNCHANGED <<ids, kms, data, posted>>

\* ^C, or the end of the process, wherever it stands.
Kill(s) ==
    /\ cli[s].at \notin {"start", "ended"}
    /\ End(s, "killed")
    /\ UNCHANGED <<ids, kms, data, posted>>

(***************************************************************************)
(* did: one call each, but for add-key; the catch prints the error         *)
(***************************************************************************)
DidManager(s, able, newIds, newKeys) ==
    /\ IF able
       THEN ids' = newIds /\ kms' = newKeys /\ End(s, "done")
       ELSE UNCHANGED <<ids, kms>> /\ End(s, "reported")
    /\ UNCHANGED <<data, posted>>

\* Calls that take keys off an identifier and leave them in the key store; `took` is history.
TakeKeys(s, able, newIds, newKeys, taken) ==
    /\ IF able
       THEN /\ ids' = newIds /\ kms' = newKeys
            /\ Go(s, [at |-> "ended", how |-> "done", took |-> taken])
       ELSE UNCHANGED <<ids, kms>> /\ End(s, "reported")
    /\ UNCHANGED <<data, posted>>

Did(s) == cli[s].did
FreshKeys == KeyIds \ kms

\* didManagerCreate makes a key of its own, and refuses an alias that exists.
Create(s) ==
    /\ At(s, "create", "run")
    /\ \E k \in FreshKeys :
         DidManager(s, Did(s) \notin Managed, [ids EXCEPT ![Did(s)] = {k}], kms \cup {k})

Delete(s) ==
    /\ At(s, "delete", "run")
    /\ DidManager(s, Did(s) \in Managed, [ids EXCEPT ![Did(s)] = None], kms \ ids[Did(s)])

MakeKeyFor(s) ==
    /\ At(s, "add-key", "run")
    /\ \E k \in FreshKeys : kms' = kms \cup {k} /\ Go(s, [at |-> "add", key |-> k])
    /\ UNCHANGED <<ids, data, posted>>

AddKeyOnly(s) ==  \* mutant: the result of the call is not waited for
    /\ At(s, "add-key", "add")
    /\ \/ ids' = [ids EXCEPT ![Did(s)] = IF @ = None THEN @ ELSE @ \cup {cli[s].key}]
       \/ ids' = ids
    /\ End(s, "done")
    /\ UNCHANGED <<kms, data, posted>>

\* didManagerAddKey fails when the identifier has gone, and when its provider does.
AddKey(s) ==
    /\ At(s, "add-key", "add")
    /\ \E accepted \in BOOLEAN :
         DidManager(s, accepted /\ Did(s) \in Managed,
                    [ids EXCEPT ![Did(s)] = @ \cup {cli[s].key}], kms)

\* The key leaves the identifier and stays in the key store.
RemoveKey(s) ==
    /\ At(s, "remove-key", "run")
    /\ \E k \in KeyIds :
         TakeKeys(s, Did(s) \in Managed /\ k \in ids[Did(s)],
                  [ids EXCEPT ![Did(s)] = @ \ {k}], kms, {k})

Export(s) == At(s, "export", "run") /\ DidManager(s, Did(s) \in Managed, ids, kms)

\* The text that is read carries an identifier with its key, as export wrote it, and no key that
\* another identifier has or is about to get; what the agent had is replaced.
UsedElsewhere(k, d) ==
    \/ \E e \in Managed \ {d} : k \in ids[e]
    \/ \E s \in Sessions : cli[s].at = "add" /\ cli[s].key = k
Import(s) ==
    /\ At(s, "import", "run")
    /\ \E k \in KeyIds, valid \in BOOLEAN :
         LET old == IF Did(s) \in Managed THEN ids[Did(s)] ELSE {}
         IN /\ ~UsedElsewhere(k, Did(s))
            /\ TakeKeys(s, valid, [ids EXCEPT ![Did(s)] = {k}], kms \cup {k}, old \ {k})

(***************************************************************************)
(* credential and credentialOA: create                                     *)
(***************************************************************************)
SignUnsaved(s) ==  \* mutant: without `save: true`
    /\ cli[s].cmd \in {"credential", "credentialOA"} /\ cli[s].at = "run"
    /\ \E sub \in Parties, f \in Forms :
         /\ cli[s].cmd = "credentialOA" => f = "oa"
         /\ IF cli[s].cmd = "credential" /\ cli[s].send
            THEN Go(s, [at |-> "send", body |-> Credential(Did(s), sub, f), to |-> <<sub>>])
            ELSE End(s, "done")
    /\ UNCHANGED <<ids, kms, data, posted>>

\* Both commands offer the OpenAttestation proof, and one no other.  Outside any try: a failure,
\* as of a proof that the issuer's keys cannot make, ends the process.
Sign(s) ==
    /\ cli[s].cmd \in {"credential", "credentialOA"} /\ cli[s].at = "run"
    /\ \E sub \in Parties, f \in Forms :
         LET c == Credential(Did(s), sub, f)
         IN /\ cli[s].cmd = "credentialOA" => f = "oa"
            /\ \/ /\ Did(s) \in Managed
                  /\ creds' = creds \cup {c}
                  /\ IF cli[s].cmd = "credential" /\ cli[s].send
                     THEN Go(s, [at |-> "send", body |-> c, to |-> <<sub>>])
                     ELSE End(s, "done")
               \/ UNCHANGED creds /\ End(s, "died")
    /\ UNCHANGED <<ids, kms, presentations, messages, posted>>

Message(from, to, body) == [from |-> from, to |-> to, body |-> body]
Posted(s, to, body) == [by |-> cli[s].cmd, from |-> Did(s), to |-> to, body |-> body]

SendCredential(s) ==
    /\ At(s, "credential", "send")
    /\ posted' = posted \cup {Posted(s, cli[s].to[1], cli[s].body)}
    /\ \E how \in {"done", "reported"} : End(s, how)
    /\ UNCHANGED <<ids, kms, data>>

(***************************************************************************)
(* presentation create, and the credentials of an sdr: those about the     *)
(* chosen identifier, listed once, picked one by one                       *)
(***************************************************************************)
AnyCredentials(d) == creds  \* mutant: no condition on the subject
About(d) == {c \in creds : c.sub = d}

\* Verifiers are asked for first; no credential, no presentation, and no word of it.
ListForPresentation(s) ==
    /\ At(s, "presentation", "run")
    /\ \E aud \in UNION {[1..n -> Parties] : n \in 0..2} :
         IF About(Did(s)) = {} THEN End(s, "nothing")
         ELSE Go(s, [at |-> "pick", list |-> About(Did(s)), to |-> aud])
    /\ UNCHANGED <<ids, kms, data, posted>>

\* A request offers the JWT of each credential, and goes on without when there is none.
ListForRequest(s) ==
    /\ At(s, "sdr", "run")
    /\ \E sub \in Parties, add \in BOOLEAN :
         Go(s, [at |-> IF add /\ About(Did(s)) # {} THEN "pick" ELSE "make",
                list |-> About(Did(s)), to |-> <<sub>>])
    /\ UNCHANGED <<ids, kms, data, posted>>

Pick(s) ==
    /\ cli[s].at = "pick"
    /\ Cardinality(cli[s].picks) < MaxPicks
    /\ \E c \in cli[s].list, more \in BOOLEAN :
         Go(s, [picks |-> cli[s].picks \cup {c}, at |-> IF more THEN "pick" ELSE "make"])
    /\ UNCHANGED <<ids, kms, data, posted>>

MakePresentation(s) ==
    /\ At(s, "presentation", "make")
    /\ LET p == [holder |-> Did(s), verifiers |-> cli[s].to, creds |-> cli[s].picks]
       IN \/ /\ Did(s) \in Managed
             /\ presentations' = presentations \cup {p}
             /\ IF cli[s].send /\ cli[s].to # <<>>
                THEN Go(s, [at |-> "send", body |-> p])
                ELSE End(s, "done")
          \/ UNCHANGED presentations /\ End(s, "died")
    /\ UNCHANGED <<ids, kms, creds, messages, posted>>

\* `for (var verifier in aud)` counts the verifiers: the message is addressed to the
\* position, which no resolver knows, and every turn reports an error.
SendPresentation(s) ==
    /\ At(s, "presentation", "send")
    /\ posted' = posted \cup {Posted(s, i - 1, cli[s].body) : i \in DOMAIN cli[s].to}
    /\ End(s, "reported")
    /\ UNCHANGED <<ids, kms, data>>

(***************************************************************************)
(* sdr: create and respond; message handle                                 *)
(***************************************************************************)
Asking == [asks |-> TRUE]
Request(from, to) == Message(from, to, Asking)
IsPresentation(body) == "holder" \in DOMAIN body

MakeRequest(s) ==
    /\ At(s, "sdr", "make")
    /\ \/ Did(s) \in Managed /\ Go(s, [at |-> "send"])
       \/ End(s, "died")
    /\ UNCHANGED <<ids, kms, data, posted>>

\* Not sent, the request is handled here, as if it had arrived, and saved.
KeepRequest(s) ==
    /\ At(s, "sdr", "send") /\ ~cli[s].send
    /\ \/ messages' = messages \cup {Request(Did(s), cli[s].to[1])} /\ End(s, "done")
       \/ UNCHANGED messages /\ End(s, "died")
    /\ UNCHANGED <<ids, kms, creds, presentations, posted>>

SendRequest(s) ==
    /\ At(s, "sdr", "send") /\ cli[s].send
    /\ posted' = posted \cup {Posted(s, cli[s].to[1], Asking)}
    /\ \E how \in {"done", "reported"} : End(s, how)
    /\ UNCHANGED <<ids, kms, data>>

\* A message that somebody sent, from a file or the command line; --save false is the
\* string 'false', and saves too.
HandleMessage(s) ==
    /\ "message" \in Commands /\ cli[s].at = "start"
    /\ \E from \in Parties, to \in Parties, good \in BOOLEAN :
         /\ from # to
         /\ messages' = IF good THEN messages \cup {Request(from, to)} ELSE messages
         /\ Go(s, [cmd |-> "message", at |-> "ended", how |-> IF good THEN "done" ELSE "reported"])
    /\ UNCHANGED <<ids, kms, creds, presentations, posted>>

ReadRequests(s) ==
    /\ "respond" \in Commands /\ cli[s].at = "start"
    /\ Go(s, [cmd |-> "respond", at |-> "ask request", list |-> messages])
    /\ UNCHANGED <<ids, kms, data, posted>>

\* getVerifiableCredentialsForSdr with `did` set to the request's recipient.
Matching(m) == {c \in creds : c.sub = m.to}

ChooseRequest(s) ==
    /\ At(s, "respond", "ask request")
    /\ \E m \in cli[s].list, n \in 0..MaxPicks : \E picks \in SUBSET Matching(m) :
         /\ Cardinality(picks) = n
         /\ Go(s, [at |-> "respond", did |-> m.to, to |-> <<m.from>>, picks |-> picks])
    /\ UNCHANGED <<ids, kms, data, posted>>

\* The choices are the entries of the answer, credentials in a wrapper, and no presentation
\* can be made of those: it takes a user who chooses none.  Neither the presentation, which is
\* not saved, nor its sending is in a try.
Respond(s) ==
    /\ At(s, "respond", "respond")
    /\ \/ /\ Did(s) \in Managed /\ cli[s].picks = {}
          /\ posted' = posted \cup {Posted(s, cli[s].to[1],
                        [holder |-> Did(s), verifiers |-> cli[s].to, creds |-> {}])}
          /\ \E how \in {"done", "died"} : End(s, how)
       \/ UNCHANGED posted /\ End(s, "died")
    /\ UNCHANGED <<ids, kms, data>>

Idle == [cmd |-> None, at |-> "start", how |-> None, send |-> FALSE, list |-> {}, did |-> None,
         to |-> <<>>, key |-> None, picks |-> {}, body |-> None,
         took |-> {}]

\* The agent may know some of the identifiers, each with a key of its own.
OneKeyEach ==
    \E known \in SUBSET Dids, key \in [Dids -> KeyIds] :
        /\ \A d, e \in Dids : d # e => key[d] # key[e]
        /\ ids = [d \in Dids |-> IF d \in known THEN {key[d]} ELSE None]
        /\ kms = {key[d] : d \in known}

Init ==
    /\ OneKeyEach
    /\ \E c \in SUBSET {Credential(i, s, "w3c") : i \in Dids, s \in Dids} :
         creds = c /\ Cardinality(c) <= 1
    /\ presentations = {} /\ messages = {} /\ posted = {}
    /\ cli = [s \in Sessions |-> Idle]

KeyStep(s) ==
    Create(s) \/ Delete(s) \/ MakeKeyFor(s) \/ AddKey(s) \/ RemoveKey(s) \/ Export(s) \/ Import(s)
CredentialStep(s) ==
    Sign(s) \/ SendCredential(s) \/ ListForPresentation(s) \/ MakePresentation(s)
    \/ SendPresentation(s) \/ Pick(s)
RequestStep(s) ==
    ListForRequest(s) \/ MakeRequest(s) \/ KeepRequest(s) \/ SendRequest(s) \/ HandleMessage(s)
    \/ ReadRequests(s) \/ ChooseRequest(s) \/ Respond(s)
Next ==
    \E s \in Sessions :
        Begin(s) \/ Choose(s) \/ Kill(s) \/ KeyStep(s) \/ CredentialStep(s) \/ RequestStep(s)

Spec == Init /\ [][Next]_vars

(***************************************************************************)
(* Properties                                                              *)
(***************************************************************************)
Ended(s, how) == cli[s].at = "ended" /\ cli[s].how = how

\* Deleting an identifier takes its keys out of the store: every key of an identifier is there.
\* A key of the store that no identifier has was taken off one, by remove-key or an import, or
\* is left by an add-key that has not ended well: still between its two calls, killed there, or
\* one that reported the second one's failure.  A 'Success' leaves none.
LeftByAddKey(k) ==
    \E s \in Sessions : cli[s].cmd = "add-key" /\ cli[s].key = k /\ ~Ended(s, "done")
KeysAreAccounted ==
    /\ \A d \in Managed : ids[d] \subseteq kms
    /\ \A k \in kms : \/ \E d \in Managed : k \in ids[d]
                      \/ LeftByAddKey(k)
                      \/ \E s \in Sessions : k \in cli[s].took

\* Whatever is presented, by command or in response to a request, is about the holder who
\* signs it, though it was listed before other sessions changed the store.
Presented == presentations \cup {b \in {m.body : m \in posted} : IsPresentation(b)}
PresentedAboutHolder == \A p \in Presented : \A c \in p.creds : c.sub = p.holder

\* A credential or presentation that was sent is in the agent's own store and is by its sender,
\* and a response answers a request of the store, made by its recipient to its sender, whatever
\* other sessions did and even if the process was killed.  Nothing is claimed of the requests
\* that sdr create sends, which are not kept.
SentIsStored ==
    \A m \in posted :
        /\ m.by = "credential" => m.body \in creds /\ m.body.iss = m.from
        /\ m.by = "presentation" => m.body \in presentations /\ m.body.holder = m.from
        /\ m.by = "respond" => Request(m.to, m.from) \in messages /\ m.body.holder = m.from
=============================================================================
