----------------------------- MODULE IssuerForms -----------------------------
(***************************************************************************)
(* The forms of the explorer that make credentials and presentations: a    *)
(* credential from a sample schema (SelectSchemaAndIssue.tsx,              *)
(* IssueCredentialFromSchema.tsx), and a presentation of stored            *)
(* credentials that may be sent (CreatePresentation.tsx), both over        *)
(* utils/signing.ts.                                                       *)
(***************************************************************************)
EXTENDS Naturals, FiniteSets

CONSTANTS
    None,
    Schemas,       \* the sample documents
    Issuers,       \* the identifiers of the agent, all but one of which it has at first
    Presentations, \* the presentations that can be made at a time
    MaxClicks      \* bounds the clicks on "Issue" for one content of the form

VARIABLES
    \* issuing
    schema,        \* the sample that is selected, or None
    options,       \* the issuers the form offers
    form,          \* its data: the schema the subject is from, and the issuer, or None
    errors,        \* the validation found errors
    sending,       \* "Issue" is disabled
    issuance,      \* None, or the call under way: <<form, "asked">>, then <<form, the answer>>
    issued,        \* the credentials made with this content of the form
    failed,        \* the errors answered for this content
    \* presenting
    holder, verifier,   \* on the form, or None
    presentations,      \* signVP: where each call is, and what it was called with
    posted              \* the messages sent: <<from, to, the presentation's holder and verifier>>

issueVars == <<schema, options, form, errors, sending, issuance, issued, failed>>
presentVars == <<holder, verifier, presentations, posted>>
vars == <<issueVars, presentVars>>

Blank(s) == [schema |-> s, issuer |-> None]

-----------------------------------------------------------------------------
(* A credential from a schema.                                             *)

\* The form has another content.
Fill(data) ==
    /\ form' = data
    /\ issued' = 0 /\ failed' = 0

\* Selecting a sample, the effect fills the form with its subject; nothing is chosen in it.
SelectSchema(s) ==
    /\ schema # s
    /\ schema' = s /\ Fill(Blank(s))
    /\ UNCHANGED <<options, errors, sending, issuance, presentVars>>

\* The query of the identifiers finds another one: the effect fills the form anew, whatever
\* has been typed.
Refetch ==
    /\ options # Issuers /\ options' = Issuers
    /\ IF schema # None THEN Fill(Blank(schema)) ELSE UNCHANGED <<form, issued, failed>>
    /\ UNCHANGED <<schema, errors, sending, issuance, presentVars>>

\* The user changes the form, also while a request is under way.
ChooseIssuer(i) ==
    /\ schema # None /\ i \in options /\ form.issuer # i
    /\ Fill([form EXCEPT !.issuer = i])
    /\ UNCHANGED <<schema, options, errors, sending, issuance, presentVars>>

\* JsonForms validates with a delay: an issuer is required.
Validate ==
    /\ schema # None
    /\ errors' = (form.issuer = None)
    /\ UNCHANGED <<schema, options, form, sending, issuance, issued, failed, presentVars>>

\* signVc: issueCredential with the content of the form.  It can be clicked before the form
\* has been validated.
ClickIssue ==
    /\ schema # None /\ ~sending /\ ~errors
    /\ failed < MaxClicks
    /\ sending' = TRUE /\ issuance' = <<form, "asked">>
    /\ UNCHANGED <<schema, options, form, errors, issued, failed, presentVars>>

\* The agent issues and saves the credential, or it refuses; without an issuer it does.
Issue ==
    /\ issuance # None /\ issuance[2] = "asked"
    /\ \/ /\ issuance[1].issuer # None
          /\ issuance' = <<issuance[1], "issued">>
          /\ issued' = IF form = issuance[1] THEN issued + 1 ELSE issued
       \/ issuance' = <<issuance[1], "error">> /\ issued' = issued
    /\ UNCHANGED <<schema, options, form, errors, sending, failed, presentVars>>

\* The answer arrives, or is lost.  After a success the form is emptied, whatever it holds by
\* then; an error is shown and the form stays.
Answered ==
    /\ issuance # None /\ issuance[2] # "asked"
    /\ \/ issuance[2] = "issued" /\ Fill(Blank(None))
       \/ failed' = (IF form = issuance[1] THEN failed + 1 ELSE failed) /\ UNCHANGED <<form, issued>>
    /\ issuance' = None /\ sending' = FALSE
    /\ UNCHANGED <<schema, options, errors, presentVars>>

-----------------------------------------------------------------------------
(* A presentation.                                                         *)

ChooseHolder(i) ==
    /\ holder' = i
    /\ UNCHANGED <<issueVars, verifier, presentations, posted>>

TypeVerifier(v) ==
    /\ verifier' = v
    /\ UNCHANGED <<issueVars, holder, presentations, posted>>

\* signVP with what is on the form.  The flag "sending" is never set, so that the buttons
\* work until the form is cleared.
ClickPresent(p, send) ==
    /\ presentations[p].pc = "idle"
    /\ holder # None /\ verifier # None
    /\ presentations' = [presentations EXCEPT ![p] =
           [pc |-> "sign", holder |-> holder, verifier |-> verifier, send |-> send]]
    /\ UNCHANGED <<issueVars, holder, verifier, posted>>

\* The presentation is signed and saved, and the form is cleared.  A failure is caught by
\* nobody, and leaves the form.
Sign(p) ==
    /\ presentations[p].pc = "sign"
    /\ \/ /\ presentations' = [presentations EXCEPT ![p].pc =
                 IF presentations[p].send THEN "send" ELSE "idle"]
          /\ holder' = None /\ verifier' = None
       \/ /\ presentations' = [presentations EXCEPT ![p].pc = "idle"]
          /\ UNCHANGED <<holder, verifier>>
    /\ UNCHANGED <<issueVars, posted>>

MessageNow(p) ==  \* mutant: made from the fields as they are when it is sent
    LET c == presentations[p] IN <<holder, verifier, c.holder, c.verifier>>

\* What sendVP sends: it was made when the button was clicked, and has the fields of then.
Message(p) ==
    LET c == presentations[p] IN <<c.holder, c.verifier, c.holder, c.verifier>>

\* sendVP packs and sends; when either fails the agent handles the presentation itself.
SendVP(p) ==
    /\ presentations[p].pc = "send"
    /\ posted' \in {posted, posted \cup {Message(p)}}
    /\ presentations' = [presentations EXCEPT ![p].pc = "idle"]
    /\ UNCHANGED <<issueVars, holder, verifier>>

-----------------------------------------------------------------------------
Init ==
    /\ schema = None
    /\ options \in {Issuers} \cup {Issuers \ {i} : i \in Issuers}
    /\ form = Blank(None)
    /\ errors = FALSE /\ sending = FALSE /\ issuance = None
    /\ issued = 0 /\ failed = 0
    /\ holder = None /\ verifier = None
    /\ presentations = [p \in Presentations |->
           [pc |-> "idle", holder |-> None, verifier |-> None, send |-> FALSE]]
    /\ posted = {}

\* The two forms are on pages of their own.
IssueNext ==
    \/ \E s \in Schemas : SelectSchema(s)
    \/ \E i \in Issuers : ChooseIssuer(i)
    \/ Refetch \/ Validate \/ ClickIssue \/ Issue \/ Answered

PresentNext ==
    \/ \E i \in Issuers : ChooseHolder(i) \/ TypeVerifier(i)
    \/ \E p \in Presentations :
           \/ \E send \in BOOLEAN : ClickPresent(p, send)
           \/ Sign(p) \/ SendVP(p)

Spec == Init /\ [][IssueNext \/ PresentNext]_vars

-----------------------------------------------------------------------------
(* Properties.                                                             *)

\* A user gets what was clicked for, once.  What is on the form is issued once, unless an
\* error was shown in between: the button waits for the answer, and the form is emptied with
\* it.  A presentation goes to the verifier it was made for, from its holder, although the
\* form is cleared, and filled for the next one, between signing and sending.
AsClicked ==
    /\ issued <= failed + 1
    /\ \A m \in posted : m[1] = m[3] /\ m[2] = m[4]
=============================================================================
