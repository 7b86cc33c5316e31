-------------------------- MODULE CredentialPages --------------------------
(***************************************************************************)
(* Two pages of the explorer on a single credential.                       *)
(*                                                                         *)
(* The verifier (CredentialVerifier.tsx) verifies what is pasted, dropped  *)
(* or linked, one request per click without waiting for the last, and      *)
(* shows what is valid in tabs, one of which renders it in the browser     *)
(* (CredentialTabs.tsx, CredentialRender.tsx, the Renderer plugin and its  *)
(* provider).  The credential's own page shows and changes its revocation  *)
(* status (CredentialInfo.tsx).                                            *)
(***************************************************************************)
EXTENDS Naturals, FiniteSets

CONSTANTS
    None,
    Creds,       \* the credentials that are verified
    Checks,      \* the verifications that can be under way at a time
    Providers,   \* the providers of the renderer
    Default      \* its default provider, or None

VARIABLES
    genuine,     \* the credentials that verify
    render,      \* credentials: the first entry of "render": its template and its type, or None
    text,        \* the credential in the text field, or None
    checks,      \* verifications: the credential being verified, or None
    link,        \* the page was opened by a QR code's link that is still being fetched
    result,      \* what is shown: None, "invalid", or the credential shown as valid
    rendered,    \* the tab with the rendered credential has been opened
    rendering,   \* the credentials that the tab is rendering
    busy,        \* the tab shows that it is loading
    documents,   \* the credential whose documents the tab holds, or None
    overlapped,  \* some verification was started while another was under way
    revoked,     \* the credential's status in the agent
    infoRevoked, \* the status on the page
    loading,     \* the page's buttons are disabled
    calls,       \* its requests: <<kind, "asked">> or <<kind, the answer>>
    told         \* history: the agent's last answer told the status, which has not changed since

tab == <<rendered, rendering, busy, documents>>
verifier == <<genuine, render, text, checks, link, result, tab, overlapped>>
info == <<revoked, infoRevoked, loading, calls, told>>
vars == <<verifier, info>>

-----------------------------------------------------------------------------
(* The renderer.                                                           *)

\* The provider of that name, or the default one.
GetProvider(name) ==
    CASE name \in Providers -> name
      [] name \notin Providers /\ Default \in Providers -> Default
      [] OTHER -> None

\* Rendering needs a template, a type, and a provider; a blank template gives a blank document.
Renders(c) == render[c] # None /\ GetProvider(render[c]) # None

-----------------------------------------------------------------------------
(* The verifier.                                                           *)

Shown(r) == r \in Creds

\* The tabs appear and vanish with a valid credential, and stay, with all they hold, when one
\* valid credential takes the place of another: then the tab renders again.
ShowTabs ==
    IF ~Shown(result')
    THEN rendered' = FALSE /\ rendering' = {} /\ busy' = FALSE /\ documents' = None
    ELSE /\ rendered' = rendered /\ documents' = documents
         /\ IF rendered
            THEN rendering' = rendering \cup {result'} /\ busy' = TRUE
            ELSE UNCHANGED <<rendering, busy>>

Type(c) ==
    /\ text' = c
    /\ UNCHANGED <<genuine, render, checks, link, result, tab, overlapped, info>>

\* verify, called with the text field's content or with that of a dropped file: what was shown
\* is cleared.  Neither waits for an earlier verification.
Verify(k, c) ==
    /\ checks[k] = None
    /\ checks' = [checks EXCEPT ![k] = c]
    /\ result' = None
    /\ overlapped' = (overlapped \/ link \/ \E j \in Checks : checks[j] # None)
    /\ ShowTabs
    /\ UNCHANGED <<genuine, render, text, link, info>>

ClickVerify(k) == text # None /\ Verify(k, text)
Drop(k, c) == Verify(k, c)

\* fetchEncryptedVC: the linked document has been fetched and decrypted, and is verified.
\* Nothing is cleared.  A failure before that is caught by nobody.
FetchLinked(k) ==
    /\ link /\ link' = FALSE
    /\ checks[k] = None
    /\ \E c \in Creds \cup {None} : checks' = [checks EXCEPT ![k] = c]
    /\ UNCHANGED <<genuine, render, text, result, tab, overlapped, info>>

AnswerText(k) ==  \* mutant: the credential is read from the text field
    /\ checks[k] # None
    /\ result' = IF checks[k] \in genuine /\ text # None THEN text ELSE "invalid"
    /\ checks' = [checks EXCEPT ![k] = None]
    /\ ShowTabs
    /\ UNCHANGED <<genuine, render, text, link, overlapped, info>>

\* The agent answers: the result is shown, with the credential that was verified if it is
\* valid.  The later answer wins.
Answer(k) ==
    /\ checks[k] # None
    /\ result' \in {IF checks[k] \in genuine THEN checks[k] ELSE "invalid", "invalid"}
    /\ checks' = [checks EXCEPT ![k] = None]
    /\ ShowTabs
    /\ UNCHANGED <<genuine, render, text, link, overlapped, info>>

\* The tab is opened for the first time: it renders.
OpenRendered ==
    /\ Shown(result) /\ ~rendered
    /\ rendered' = TRUE /\ rendering' = {result} /\ busy' = TRUE
    /\ UNCHANGED <<genuine, render, text, checks, link, result, documents, overlapped, info>>

\* A rendering ends; the documents are replaced only by a success.
Rendered(c) ==
    /\ c \in rendering
    /\ rendering' = rendering \ {c}
    /\ documents' = IF Renders(c) THEN c ELSE documents
    /\ busy' = FALSE
    /\ UNCHANGED <<genuine, render, text, checks, link, result, rendered, overlapped, info>>

-----------------------------------------------------------------------------
(* The status of a credential.                                             *)

Ask(kind) == loading' = TRUE /\ calls' = calls \cup {<<kind, "asked">>}

RevokeAnytime ==  \* mutant: the button works while the page is loading
    /\ ~infoRevoked
    /\ Ask("revoke")
    /\ UNCHANGED <<verifier, revoked, infoRevoked, told>>

\* "Revoke" and "Unrevoke", by the status on the page, once it is not loading.
ClickRevoke ==
    /\ ~loading /\ ~infoRevoked
    /\ Ask("revoke")
    /\ UNCHANGED <<verifier, revoked, infoRevoked, told>>

ClickActivate ==
    /\ ~loading /\ infoRevoked
    /\ Ask("activate")
    /\ UNCHANGED <<verifier, revoked, infoRevoked, told>>

\* The agent serves a request.  A check that fails reads as revoked; a change is refused when
\* the check has its status already.  A change that was accepted may be answered without having
\* been committed, and its answer may be lost after the commit.
YesNo(status) == IF status THEN "yes" ELSE "no"
Refused(kind, says) == kind = IF says THEN "revoke" ELSE "activate"
Serve(kind) ==
    /\ <<kind, "asked">> \in calls
    /\ \E says \in {revoked, TRUE}, committed \in BOOLEAN :
         \E a \in {"error", YesNo(IF kind = "status" THEN says ELSE kind = "revoke")} :
           /\ committed => kind # "status" /\ ~Refused(kind, says)
           /\ Refused(kind, says) => a = "error"
           /\ revoked' = IF committed THEN kind = "revoke" ELSE revoked
           /\ calls' = (calls \ {<<kind, "asked">>}) \cup {<<kind, a>>}
           /\ told' = IF a = "error" THEN told /\ ~committed ELSE a = YesNo(revoked')
    /\ UNCHANGED <<verifier, infoRevoked, loading>>

\* Its answer arrives.  The failure of the first check leaves the page loading: it is thrown
\* before setLoading(false); the failure of a change is shown.
Arrive(kind, a) ==
    /\ <<kind, a>> \in calls /\ a # "asked"
    /\ calls' = calls \ {<<kind, a>>}
    /\ infoRevoked' = IF a = "error" THEN infoRevoked ELSE a = "yes"
    /\ loading' = (kind = "status" /\ a = "error")
    /\ UNCHANGED <<verifier, revoked, told>>

\* Another user revokes or activates the credential.
OtherChanges ==
    /\ revoked' = ~revoked /\ told' = FALSE
    /\ UNCHANGED <<verifier, infoRevoked, loading, calls>>

-----------------------------------------------------------------------------
\* The credential's page asks for the status as it opens.
Init ==
    /\ genuine \in SUBSET Creds
    /\ render \in [Creds -> Providers \cup {"unknown", None}]
    /\ text = None
    /\ checks = [k \in Checks |-> None]
    /\ link \in BOOLEAN
    /\ result = None
    /\ rendered = FALSE /\ rendering = {} /\ busy = FALSE /\ documents = None
    /\ overlapped = FALSE
    /\ revoked \in BOOLEAN
    /\ infoRevoked = FALSE /\ loading = TRUE
    /\ calls = {<<"status", "asked">>}
    /\ told = FALSE

VerifierNext ==
    \/ \E c \in Creds : Type(c) \/ Rendered(c)
    \/ \E k \in Checks : ClickVerify(k) \/ FetchLinked(k) \/ Answer(k)
    \/ \E k \in Checks, c \in Creds : Drop(k, c)
    \/ OpenRendered

StatusNext ==
    \/ ClickRevoke \/ ClickActivate \/ OtherChanges
    \/ \E kind \in {"status", "revoke", "activate"} :
           Serve(kind) \/ \E a \in {"yes", "no", "error"} : Arrive(kind, a)

Spec == Init /\ [][VerifierNext \/ StatusNext]_vars

-----------------------------------------------------------------------------
(* Properties.                                                             *)

\* Whatever is shown as valid, or is rendered, has been verified: also when several
\* verifications are under way, their answers come in another order, and the text changes.
\* As long as verifications are not made to overlap, the documents of the tab are those of
\* the credential shown as valid, also when that one cannot be rendered.
ShownWasVerified ==
    /\ Shown(result) => result \in genuine
    /\ documents # None => documents \in genuine
    /\ Shown(result) /\ ~busy /\ ~overlapped /\ documents # None => documents = result

\* A page whose buttons work shows the status that the credential has, if the agent's last
\* answer told it and it was not changed since: a status check that is late, or a change that
\* fails, does not make the page show another.
StatusIsCurrent == ~loading /\ told => infoRevoked = revoked
=============================================================================
