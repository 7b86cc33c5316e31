----------------------------- MODULE AgentSetup -----------------------------
(***************************************************************************)
(* The agents of the explorer: the agent of the browser, which is made     *)
(* anew whenever the wallet changes, and those of the page's own           *)
(* configuration (VeramoWeb3Provider.tsx, web3Agent.ts); the remote agents *)
(* that the user connects and removes (Connect.tsx, Agents.tsx); and the   *)
(* default one, which the menu adds (AgentDropdown.tsx).                   *)
(*                                                                         *)
(* A schema is named by its URL, and so are the server and the methods     *)
(* that it describes.                                                      *)
(***************************************************************************)
EXTENDS Naturals

CONSTANTS
    None,
    Urls,          \* the URLs of schemas
    DefaultUrl,    \* the one of the default agent
    Configured,    \* the agents of the page's configuration
    MaxChanges,    \* bounds the changes of the wallet
    MaxAgents      \* bounds the agents that are connected

VARIABLES
    wallet,        \* how often the wallet has changed
    creating,      \* for which of its states createWeb3Agent runs
    web3agent,     \* the state whose agent is in use, or None
    broken,        \* the states of the wallet for which it has failed
    fetches,       \* configured agents: "fetching", "ready" or "failed"
    isLoading,     \* the page shows nothing but "Loading..."
    schemas,       \* the URLs whose schemas are cached
    schemaUrl,     \* the form's schema URL, or None
    agentUrl,      \* its agent URL: that of a schema, "typed", or None
    agents         \* the remote agents: which, and their schema, methods and url

walletVars == <<wallet, creating, web3agent, broken>>
startVars == <<fetches, isLoading>>
formVars == <<schemas, schemaUrl, agentUrl, agents>>
vars == <<walletVars, startVars, formVars>>

-----------------------------------------------------------------------------
(* The browser's agent.                                                    *)

\* MetaMask connects, or its accounts or chain change: the agent is dropped and another is
\* created with the providers and the accounts of now.
WalletChanges ==
    /\ wallet < MaxChanges
    /\ wallet' = wallet + 1
    /\ creating' = creating \cup {wallet'}
    /\ web3agent' = None
    /\ UNCHANGED <<broken, startVars, formVars>>

CreatedLate(w) ==  \* mutant: a superseded creation cleans up when it ends
    /\ w \in creating
    /\ creating' = creating \ {w} /\ web3agent' = IF w = wallet THEN w ELSE None
    /\ UNCHANGED <<wallet, broken, startVars, formVars>>

\* createWeb3Agent has imported the accounts one by one, and its agent is used, whichever
\* state of the wallet it was made for.
Created(w) ==
    /\ w \in creating
    /\ creating' = creating \ {w} /\ web3agent' = w
    /\ UNCHANGED <<wallet, broken, startVars, formVars>>

\* An import fails; the rejection is handled by nobody.
CreationFails(w) ==
    /\ w \in creating
    /\ creating' = creating \ {w} /\ broken' = broken \cup {w}
    /\ UNCHANGED <<wallet, web3agent, startVars, formVars>>

-----------------------------------------------------------------------------
(* The agents of the configuration.                                        *)

\* Promise.all ends with the first failure or the last success, and the page appears.
Settled(f) ==
    \/ \E a \in Configured : f[a] = "failed"
    \/ \A a \in Configured : f[a] = "ready"

FetchConfigured(a) ==
    /\ fetches[a] = "fetching"
    /\ \E outcome \in {"ready", "failed"} : fetches' = [fetches EXCEPT ![a] = outcome]
    /\ isLoading' = (isLoading /\ ~Settled(fetches'))
    /\ UNCHANGED <<walletVars, formVars>>

-----------------------------------------------------------------------------
(* Remote agents.                                                          *)

DefaultAgent == [id |-> 0, schema |-> DefaultUrl, methods |-> DefaultUrl, url |-> DefaultUrl]

\* The menu's effect: with its schema at hand, a default agent that is missing is added, also
\* when the user has just removed it.
WithDefault(as) ==
    IF DefaultUrl \in schemas' /\ ~\E a \in as : a.id = 0 THEN as \cup {DefaultAgent} ELSE as

\* The effect of the form: the agent URL is the one of the schema that appears.
FillIn == agentUrl' = IF schemaUrl' \in schemas' THEN schemaUrl' ELSE agentUrl

TypeSchemaUrl(u) ==
    /\ ~isLoading
    /\ schemaUrl # u
    /\ UNCHANGED schemas /\ schemaUrl' = u /\ FillIn
    /\ UNCHANGED <<walletVars, startVars, agents>>

\* A schema arrives, for the menu or for the form.  The query is keyed by its URL: that of a
\* URL which is no longer in the form fills nothing in.
SchemaArrives(u) ==
    /\ ~isLoading
    /\ u \in {DefaultUrl, schemaUrl} \ schemas
    /\ schemas' = schemas \cup {u} /\ UNCHANGED schemaUrl
    /\ agents' = WithDefault(agents)
    /\ IF u = schemaUrl THEN FillIn ELSE agentUrl' = agentUrl
    /\ UNCHANGED <<walletVars, startVars>>

TypeAgentUrl ==
    /\ schemaUrl \in schemas
    /\ agentUrl' = "typed"
    /\ UNCHANGED <<walletVars, startVars, schemas, schemaUrl, agents>>

\* newAgentConfig: what was typed, with the methods of the schema; the page is left.
Submit ==
    /\ schemaUrl \in schemas
    /\ \E id \in (1..MaxAgents) \ {a.id : a \in agents} :
           agents' = agents \cup {[id |-> id, schema |-> schemaUrl, methods |-> schemaUrl,
                                   url |-> agentUrl]}
    /\ schemaUrl' = None /\ agentUrl' = None
    /\ UNCHANGED <<walletVars, startVars, schemas>>

Remove(a) ==
    /\ a \in agents
    /\ UNCHANGED schemas /\ agents' = WithDefault(agents \ {a})
    /\ UNCHANGED <<walletVars, startVars, schemaUrl, agentUrl>>

-----------------------------------------------------------------------------
Init ==
    /\ wallet = 0 /\ creating = {0} /\ web3agent = None /\ broken = {}
    /\ fetches = [a \in Configured |-> "fetching"]
    /\ isLoading = (Configured # {})
    /\ schemas = {} /\ schemaUrl = None /\ agentUrl = None
    /\ agents = {}

Next ==
    \/ WalletChanges \/ \E w \in 0..MaxChanges : Created(w) \/ CreationFails(w)
    \/ \E a \in Configured : FetchConfigured(a)
    \/ \E u \in Urls : TypeSchemaUrl(u) \/ SchemaArrives(u)
    \/ TypeAgentUrl \/ Submit
    \/ \E a \in agents : Remove(a)

\* Creations and requests end, in one way or another.
Fairness ==
    /\ \A w \in 0..MaxChanges : WF_vars(Created(w) \/ CreationFails(w))
    /\ \A a \in Configured : WF_vars(FetchConfigured(a))

Spec == Init /\ [][Next]_vars /\ Fairness

-----------------------------------------------------------------------------
(* Properties.                                                             *)

\* The page appears, whether the configured agents can be reached or not; and once the wallet
\* rests there is an agent for the browser, unless the import of the last accounts failed:
\* creations overlap, and each change drops the agent in use.
ExplorerComesUp == <>[](~isLoading /\ (web3agent # None \/ wallet \in broken))
=============================================================================
