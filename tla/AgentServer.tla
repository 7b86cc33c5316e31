----------------------------- MODULE AgentServer -----------------------------
(***************************************************************************)
(* The routers of the remote server in front of the agent: attaching the   *)
(* agent; the API key, the middleware that gives an issuance its status,   *)
(* the interceptor that stores its answer encrypted, the exposed methods;  *)
(* messaging, QR codes, encrypted documents, revocation lists, and the     *)
(* API's description.  An error that a handler does not catch is a         *)
(* rejection nobody handles, and ends the process.                         *)
(***************************************************************************)
EXTENDS Naturals, FiniteSets

CONSTANTS
    Requests,
    Methods, Exposed,  \* the agent's methods; those that AgentRouter was given
    ApiRoutes,         \* those that the middleware and the interceptor are about
    Chains,            \* subset of {"guarded", "bare"}: with those two, as in the default
                       \* configuration, or the agent's methods by themselves
    Modes,             \* subset of {"agent", "function", "neither", "unused"}: the options of
                       \* RequestWithAgentRouter, or a server that does not use it
    ApiKeys, Tokens    \* configured keys, 0 for none; tokens that requests carry

VARIABLES
    mode, apiKey, chain,
    alive,    \* the process runs
    calls     \* request -> [route, method, token, agent, at, status]

vars == <<mode, apiKey, chain, alive, calls>>

Routes == {"agent", "issue", "messaging", "qr", "encrypted", "list", "schema", "docs"}
NotYet == [route |-> "docs", method |-> "none", token |-> 0, agent |-> FALSE, at |-> "new",
           status |-> 0]

To(r, place) == calls' = [calls EXCEPT ![r].at = place]
Answer(r, status) == calls' = [calls EXCEPT ![r].at = "answered", ![r].status = status]
Crash(r) == alive' = FALSE /\ To(r, "threw")

Receive(r) ==
    /\ calls[r].at = "new"
    /\ \E route \in Routes :
       \E m \in IF route = "agent" THEN Methods ELSE {"none"},
          t \in IF route \in {"agent", "issue"} THEN Tokens ELSE {0} :
         calls' = [calls EXCEPT ![r] =
            [@ EXCEPT !.route = route, !.method = m, !.token = t,
                      !.at = IF mode = "unused" THEN "attached" ELSE "arrived"]]
    /\ UNCHANGED alive

\* A configured agent, or one that a promise yields; neither, and a promise that fails,
\* throws in an async handler.
Attach(r) ==
    /\ calls[r].at = "arrived"
    /\ \/ /\ mode \in {"agent", "function"}
          /\ calls' = [calls EXCEPT ![r].agent = TRUE, ![r].at = "attached"]
          /\ UNCHANGED alive
       \/ mode \in {"function", "neither"} /\ Crash(r)

\* The API key stands before the agent's methods only; without a key any token will do.
Authorise(r) ==
    /\ calls[r].at = "attached"
    /\ calls[r].route \in {"agent", "issue"}
    /\ IF calls[r].token # 0 /\ apiKey \in {0, calls[r].token} THEN To(r, "guard") ELSE Answer(r, 401)
    /\ UNCHANGED alive

\* The path of a request is one of apiRoutes.
Stored(r) == calls[r].route = "agent" /\ calls[r].method \in ApiRoutes

\* A body that is no JSON is refused.  revocationList2020Middleware answers itself without
\* an agent, and when no status could be given.
Guard(r) ==
    /\ calls[r].at = "guard"
    /\ \/ Answer(r, 400)
       \/ chain = "guarded" /\ (Stored(r) \/ ~calls[r].agent) /\ Answer(r, 500)
       \/ (chain = "guarded" => calls[r].agent) /\ To(r, "route")
    /\ UNCHANGED alive

\* Past encryptedStoreMiddleware an answer is intercepted, also that of no route.
Deliver(r, status) ==
    IF chain = "guarded"
    THEN calls' = [calls EXCEPT ![r].at = "intercept", ![r].status = status]
    ELSE Answer(r, status)

\* Routes exist for the exposed methods; /credentials/issue is registered once for each.
Executed(r) == IF calls[r].route = "issue" THEN "createVerifiableCredentialOA" ELSE calls[r].method
IsRoute(r) == IF calls[r].route = "issue" THEN Exposed # {} ELSE calls[r].method \in Exposed

Execute(r) ==
    /\ calls[r].at = "route"
    /\ IF ~IsRoute(r) THEN Deliver(r, 404) /\ UNCHANGED alive
       ELSE IF ~calls[r].agent THEN Crash(r)
       ELSE /\ calls' = [calls EXCEPT ![r].at = "executing", ![r].method = Executed(r)]
            /\ UNCHANGED alive

Respond(r) ==
    /\ calls[r].at = "executing"
    /\ \E status \in {200, 400, 500} : Deliver(r, status)  \* result, ValidationError, any other
    /\ UNCHANGED alive

\* intercept: what has been issued is stored first; an error there is thrown once more, in
\* a function that nobody awaits.
Intercept(r) ==
    /\ calls[r].at = "intercept"
    /\ \/ calls[r].agent /\ Answer(r, calls[r].status) /\ UNCHANGED alive
       \/ ~calls[r].agent /\ Crash(r)
       \/ Stored(r) /\ calls[r].status = 200 /\ Crash(r)

OnlyMessages(r) ==  \* mutant: the catch of the handler is missing
    /\ calls[r].at = "attached" /\ calls[r].route = "messaging"
    /\ calls[r].agent
    /\ \/ Answer(r, 200) /\ UNCHANGED alive
       \/ Crash(r)

\* The answer to a DIDComm message, or its id, or the error's text with the same status.
\* Without an agent nothing is answered.
HandleMessage(r) ==
    /\ calls[r].at = "attached" /\ calls[r].route = "messaging"
    /\ IF calls[r].agent THEN Answer(r, 200) ELSE To(r, "silent")
    /\ UNCHANGED alive

GetByHash(r) ==
    /\ calls[r].at = "attached" /\ calls[r].route = "qr"
    /\ IF calls[r].agent THEN \E status \in {200, 404} : Answer(r, status) ELSE To(r, "silent")
    /\ UNCHANGED alive

\* An encrypted document, or the revocation list of an issuer.
GetEncrypted(r) ==
    /\ calls[r].at = "attached" /\ calls[r].route \in {"encrypted", "list"}
    /\ IF calls[r].agent
       THEN (\E status \in {200, 500} : Answer(r, status)) /\ UNCHANGED alive
       ELSE Crash(r)

Describe(r) ==
    /\ calls[r].at = "attached" /\ calls[r].route \in {"schema", "docs"}
    /\ Answer(r, IF calls[r].agent \/ calls[r].route = "docs" THEN 200 ELSE 500)
    /\ UNCHANGED alive

Init ==
    /\ mode \in Modes /\ apiKey \in ApiKeys /\ chain \in Chains
    /\ alive = TRUE
    /\ calls = [r \in Requests |-> NotYet]

Serve(r) ==
    /\ alive
    /\ Attach(r) \/ Authorise(r) \/ Guard(r) \/ Execute(r) \/ Respond(r) \/ Intercept(r)
       \/ HandleMessage(r) \/ GetByHash(r) \/ GetEncrypted(r) \/ Describe(r)
    /\ UNCHANGED <<mode, apiKey, chain>>
Next == \E r \in Requests : Serve(r) \/ (alive /\ Receive(r) /\ UNCHANGED <<mode, apiKey, chain>>)

Spec == Init /\ [][Next]_vars

\* Node runs every handler to its next await, and the agent's calls end.
Fairness == \A r \in Requests : WF_vars(Serve(r))

(***************************************************************************)
(* Properties                                                              *)
(***************************************************************************)
\* What may end the process: a request that could be given no agent, or one whose issued
\* credential could not be stored.
EndedBy(q) == calls[q].at = "threw" /\ (Stored(q) \/ ~calls[q].agent)

\* Every request is answered, but for one without an agent that a handler passes over in
\* silence, and for those that are under way when the process ends; and nothing else that
\* any request leads to ends it.
RequestAnswered(r) ==
    calls[r].at # "new" ~>
        \/ calls[r].at = "answered"
        \/ calls[r].at = "silent" /\ ~calls[r].agent
        \/ \E q \in Requests : EndedBy(q)
EveryRequestAnswered == \A r \in Requests : RequestAnswered(r)
=============================================================================
