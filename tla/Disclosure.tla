----------------------------- MODULE Disclosure -----------------------------
(***************************************************************************)
(* Selective disclosure between two explorers: the form on which one user  *)
(* composes a request (CreateRequest.tsx), and the page on which another   *)
(* answers it with credentials (CreateResponse.tsx, useSelectCredentials). *)
(*                                                                         *)
(* The page shows what react-query holds: the message under one key for    *)
(* all requests, and the list of credentials under a key of the message.   *)
(* A credential is named by the claim that it can support.                 *)
(***************************************************************************)
EXTENDS Naturals, FiniteSets

CONSTANTS
    None,
    Requests,   \* the ids of the requests that are made
    Claims,     \* the types of the claims that can be asked for
    Shares      \* the clicks on "Share Credentials"

VARIABLES
    \* the requester
    requests,   \* requests: where createSDR is, and what it was called with
    stored,     \* the requester's data store: requests
    inbox,      \* the requests that reached the responder's store
    \* the responder
    wallet,     \* the claims the responder has credentials for
    page,       \* the request of the address, or None: another page
    shown,      \* the cached message, or None
    fetching,   \* the request for whose message the query runs, or None
    lists,      \* cached: per message, the claims there were credentials for, or None
    selected,   \* the claims of the selection: is a credential chosen?
    presenter,  \* is a presenter chosen?
    shares      \* shareVCPresentation: where each call is, and what it was called with

requester == <<requests, stored>>
display == <<page, shown, fetching, lists, selected, presenter>>
vars == <<requester, inbox, wallet, display, shares>>

Asking == {"no", "optional", "essential"}
NoShare == [pc |-> "idle", to |-> None, vcs |-> {}, listed |-> FALSE, here |-> FALSE]
NoClaims == [c \in Claims |-> "no"]
Asked(m) == {c \in Claims : requests[m].claims[c] # "no"}
Essential(m) == {c \in Claims : requests[m].claims[c] = "essential"}

-----------------------------------------------------------------------------
(* The requester's form.                                                   *)

\* The button works once there is a claim and an issuer, also while a request is made: the
\* request has the claims then on the form, each essential or not, and perhaps a subject.
ClickCreate(m, claims, to) ==
    /\ requests[m].pc = "idle"
    /\ claims # NoClaims
    /\ requests' = [requests EXCEPT ![m] = [pc |-> "create", claims |-> claims, to |-> to]]
    /\ UNCHANGED <<stored, inbox, wallet, display, shares>>

\* createSelectiveDisclosureRequest; when it fails, that is shown.
Create(m) ==
    /\ requests[m].pc = "create"
    /\ \E next \in {"save", "done"} : requests' = [requests EXCEPT ![m].pc = next]
    /\ UNCHANGED <<stored, inbox, wallet, display, shares>>

SendUnsaved(m) ==  \* mutant: an error of the save is caught
    /\ requests[m].pc = "save"
    /\ stored' \in {stored, stored \cup {m}}
    /\ requests' = [requests EXCEPT ![m].pc = IF requests[m].to THEN "send" ELSE "done"]
    /\ UNCHANGED <<inbox, wallet, display, shares>>

\* handleMessage saves the request.  It is not caught: when it fails, nothing is sent.
Save(m) ==
    /\ requests[m].pc = "save"
    /\ \/ /\ stored' = stored \cup {m}
          /\ requests' = [requests EXCEPT ![m].pc = IF requests[m].to THEN "send" ELSE "done"]
       \/ stored' = stored /\ requests' = [requests EXCEPT ![m].pc = "done"]
    /\ UNCHANGED <<inbox, wallet, display, shares>>

\* packDIDCommMessage and sendDIDCommMessage; a failure of either is shown, and a message
\* whose sending failed may have arrived.
Send(m) ==
    /\ requests[m].pc = "send"
    /\ requests' = [requests EXCEPT ![m].pc = "done"]
    /\ \E arrived \in SUBSET {m} : inbox' = inbox \cup arrived
    /\ UNCHANGED <<stored, wallet, display, shares>>

-----------------------------------------------------------------------------
(* The responder's page.                                                   *)

\* A credential is received.
Receive(c) ==
    /\ wallet' = wallet \cup {c}
    /\ UNCHANGED <<requester, inbox, display, shares>>

\* The list that is on display with these caches: the one of the cached message.
Listed(s, ls) == s # None /\ ls[s] # None

\* The selection when a list comes on display: for every essential claim the first
\* credential, or none.
Defaults(m, have) == [c \in Essential(m) |-> c \in have]

SelectOnce ==  \* mutant: the effect runs when the page opens, not for every list
    selected' =
        IF page # page' THEN IF page' # None /\ Listed(shown', lists') THEN Defaults(shown', lists'[shown'])
                             ELSE [c \in {} |-> FALSE]
        ELSE selected

\* The effect of useSelectedCredentials: it runs when the list on display becomes another
\* one, and does nothing while there is no list.
Reselect ==
    selected' =
        IF page' # None /\ Listed(shown', lists')
           /\ (page # page' \/ shown # shown' \/ lists[shown'] # lists'[shown'])
        THEN Defaults(shown', lists'[shown'])
        ELSE IF page # page' THEN [c \in {} |-> FALSE] ELSE selected

\* A request is opened from the list of requests.  The cached message is shown, whichever it
\* is; a query that already runs is joined, else this request's message is fetched.
Open(m) ==
    /\ page = None /\ m \in inbox
    /\ page' = m
    /\ fetching' = IF fetching = None THEN m ELSE fetching
    /\ presenter' = FALSE
    /\ UNCHANGED <<shown, lists>> /\ Reselect
    /\ UNCHANGED <<requester, inbox, wallet, shares>>

Leave ==
    /\ page # None
    /\ page' = None /\ presenter' = FALSE
    /\ UNCHANGED <<shown, fetching, lists>> /\ Reselect
    /\ shares' = [s \in Shares |-> [shares[s] EXCEPT !.here = FALSE]]
    /\ UNCHANGED <<requester, inbox, wallet>>

\* Coming back to the window, the queries are run again.
Refocus ==
    /\ page # None /\ fetching = None
    /\ fetching' = page
    /\ UNCHANGED <<requester, inbox, wallet, page, shown, lists, selected, presenter, shares>>

MessageLoaded ==
    /\ fetching # None
    /\ shown' = fetching /\ fetching' = None
    /\ UNCHANGED <<page, lists, presenter>> /\ Reselect
    /\ UNCHANGED <<requester, inbox, wallet, shares>>

\* getVerifiableCredentialsForSdr of the shown message answers; equal data is no new list.
ListLoaded ==
    /\ page # None /\ shown # None
    /\ lists' = [lists EXCEPT ![shown] = wallet \cap Asked(shown)]
    /\ lists' # lists
    /\ UNCHANGED <<page, shown, fetching, presenter>> /\ Reselect
    /\ UNCHANGED <<requester, inbox, wallet, shares>>

\* A credential of the list is chosen.
Select(c) ==
    /\ page # None /\ Listed(shown, lists) /\ c \in lists[shown]
    /\ selected' = [d \in DOMAIN selected \cup {c} |-> IF d = c THEN TRUE ELSE selected[d]]
    /\ UNCHANGED <<requester, inbox, wallet, page, shown, fetching, lists, presenter, shares>>

ChoosePresenter ==
    /\ page # None /\ shown # None
    /\ presenter' = TRUE
    /\ UNCHANGED <<requester, inbox, wallet, page, shown, fetching, lists, selected, shares>>

\* Every required claim of the selection has a credential.
Valid == \A c \in DOMAIN selected : selected[c]

\* shareVCPresentation: the presentation is for the sender of the message on display and made
\* of what is selected.  "listed" only records whether the list was there.
Share(s) ==
    /\ shares[s].pc = "idle"
    /\ page # None /\ presenter /\ Valid
    /\ shares' = [shares EXCEPT ![s] =
           [pc |-> "sign", to |-> shown, vcs |-> DOMAIN selected,
            listed |-> Listed(shown, lists), here |-> TRUE]]
    /\ UNCHANGED <<requester, inbox, wallet, display>>

\* The presentation is signed, packed and sent; whatever fails is shown, and at the end the
\* presenter is cleared.
Finish(s) ==
    /\ shares[s].pc = "sign"
    /\ shares' = [shares EXCEPT ![s] = NoShare]
    /\ presenter' = IF shares[s].here THEN FALSE ELSE presenter
    /\ UNCHANGED <<requester, inbox, wallet, page, shown, fetching, lists, selected>>

-----------------------------------------------------------------------------
Init ==
    /\ requests = [m \in Requests |-> [pc |-> "idle", claims |-> NoClaims, to |-> FALSE]]
    /\ stored = {} /\ inbox = {}
    /\ wallet \in SUBSET Claims
    /\ page = None /\ shown = None /\ fetching = None
    /\ lists = [m \in Requests |-> None]
    /\ selected = [c \in {} |-> FALSE]
    /\ presenter = FALSE
    /\ shares = [s \in Shares |-> NoShare]

Next ==
    \/ \E m \in Requests, claims \in [Claims -> Asking], to \in BOOLEAN : ClickCreate(m, claims, to)
    \/ \E m \in Requests : Create(m) \/ Save(m) \/ Send(m) \/ Open(m)
    \/ \E c \in Claims : Receive(c) \/ Select(c)
    \/ Leave \/ Refocus \/ MessageLoaded \/ ListLoaded \/ ChoosePresenter
    \/ \E s \in Shares : Share(s) \/ Finish(s)

Spec == Init /\ [][Next]_vars

-----------------------------------------------------------------------------
(* Properties.                                                             *)

\* What reaches another agent is in the requester's own store, where an answer can be matched
\* with it, although saving and sending fail one by one.
RequestsAreKept == inbox \subseteq stored

\* A response that was made while the list was on display holds a credential for every
\* essential claim of the request it answers, and none for a claim which that request does
\* not ask for: a selection made for one request is not shared with the sender of another.
ResponseAnswersRequest ==
    \A s \in Shares :
        shares[s].pc # "idle" /\ shares[s].listed =>
            /\ Essential(shares[s].to) \subseteq shares[s].vcs
            /\ shares[s].vcs \subseteq Asked(shares[s].to)
=============================================================================
