------------------------------ MODULE Progress ------------------------------
(***************************************************************************)
(* Parts of the system that must come to an end by themselves: the pool    *)
(* of connections, the agent router, the pickup of mail, the quick setup   *)
(* of an identifier, the explorer's own agents and its data generator.     *)
(* They share no state, so a behaviour is one of a single part, chosen at  *)
(* the start, and the others stay as they began.  The pool is extended,    *)
(* the others are instances.                                               *)
(***************************************************************************)
EXTENDS ConnectionPool

CONSTANTS
    None,
    Calls, Methods, Exposed, ApiRoutes, Chains, Modes, ApiKeys, Tokens,  \* of the agent router
    Own, Peers, Pickups, MessageBound,                \* of the mail
    KeyIds, Tasks, SetupDids, Provider,               \* of the quick setup
    Urls, DefaultUrl, Configured, MaxChanges, MaxAgents,   \* of the explorer's agents
    MaxCount, Names                                   \* of the generator

\* Finitely many requests are under way at the pool, and a call is tried at least once.
ASSUME PoolAssumption ==
    /\ IsFiniteSet(Requests)
    /\ PoolSize \in Nat
    /\ MaxRetries \in Nat \ {0}

\* There are finitely many identifiers at a time, and no failure is told from a failure.
ASSUME GeneratorAssumption == IsFiniteSet(Names) /\ None # "page"

VARIABLES
    part,
    mode, apiKey, chain, alive, calls,                                             \* agent
    selected, composing, newRecipient, modal, route, shown, sends, store, sent,
    mailbox, pickups, next,                                                        \* mail
    dids, kms, tasks, enabled, failed, endpoint, byHand,          \* setup
    wallet, creating, web3agent, broken, fetches, isLoading, schemas, schemaUrl, agentUrl,
    agents,                                                                        \* explorer
    identifiers, listed, generating, asked, pending, rejected                      \* generator

agentVars == <<mode, apiKey, chain, alive, calls>>
mailVars == <<selected, composing, newRecipient, modal, route, shown, sends, store, sent, mailbox,
              pickups, next>>
setupVars == <<dids, kms, tasks, enabled, failed, endpoint, byHand>>
explorerVars == <<wallet, creating, web3agent, broken, fetches, isLoading, schemas, schemaUrl,
                  agentUrl, agents>>
generatorVars == <<identifiers, listed, generating, asked, pending, rejected>>
newVars == <<explorerVars, generatorVars>>
progressVars == <<part, vars, agentVars, mailVars, setupVars, newVars>>

Agent == INSTANCE AgentServer WITH Requests <- Calls
Chat == INSTANCE Chat WITH queue <- mailbox, Sends <- {}
Setup == INSTANCE Identifiers WITH Dids <- SetupDids
Explorer == INSTANCE AgentSetup
Generating == INSTANCE Generator

ProgressInit ==
    /\ part \in {"pool", "agent", "mail", "setup", "explorer", "generator"}
    /\ Init
    /\ Agent!Init /\ (part # "agent" => mode = "agent" /\ apiKey = 0 /\ chain = "bare")
    /\ Chat!Init
    /\ Setup!Init /\ (part # "setup" => Setup!Managed = {})
    /\ Explorer!Init
    /\ Generating!Init /\ (part # "generator" => identifiers = {})

ProgressNext ==
    \/ /\ part = "pool" /\ Next
       /\ UNCHANGED <<part, agentVars, mailVars, setupVars, newVars>>
    \/ /\ part = "agent" /\ Agent!Next
       /\ UNCHANGED <<part, vars, mailVars, setupVars, newVars>>
    \/ /\ part = "mail" /\ Chat!Mail
       /\ UNCHANGED <<part, vars, agentVars, setupVars, newVars>>
    \/ /\ part = "setup" /\ Setup!Next
       /\ UNCHANGED <<part, vars, agentVars, mailVars, newVars>>
    \/ /\ part = "explorer" /\ Explorer!Next
       /\ UNCHANGED <<part, vars, agentVars, mailVars, setupVars, generatorVars>>
    \/ /\ part = "generator" /\ Generating!Next
       /\ UNCHANGED <<part, vars, agentVars, mailVars, setupVars, explorerVars>>

\* The fairness of each module: nothing is under way in it until a request or a click.  The
\* timer of the mail never stops, and from some time on its requests are answered.
ProgressSpec ==
    /\ ProgressInit /\ [][ProgressNext]_progressVars
    /\ Fairness /\ Agent!Fairness /\ Setup!Fairness
    /\ \A w \in 0..MaxChanges :
           WF_explorerVars(part = "explorer" /\ (Explorer!Created(w) \/ Explorer!CreationFails(w)))
    /\ \A a \in Configured : WF_explorerVars(part = "explorer" /\ Explorer!FetchConfigured(a))
    /\ \A p \in Pickups : WF_mailVars(part = "mail" /\ (Chat!Ticks(p) \/ Chat!Pickup(p)))
    /\ <>[][\A p \in Pickups : ~Chat!Lose(p)]_mailVars

-----------------------------------------------------------------------------
(* The properties of the instances; the pool's safety is its own.  What    *)
(* holds of one request holds of all: nothing tells them apart.            *)

One(S) == CHOOSE r \in S : TRUE

\* Every call is answered, also when the pool waits on itself.
PoolAnswers == CallAnswered(One(Requests))

\* Every request to the agent's routers is answered, or something that may end the process has.
EveryRequestAnswered == Agent!RequestAnswered(One(Calls))

\* What a peer writes arrives.
EverythingArrives == Chat!EverythingArrives

\* The button of the quick setup works again, however the setup ends, but for did:peer.
ButtonComesBack == Setup!ButtonComesBack

\* The page appears, and once the wallet rests there is an agent for the browser.
ExplorerComesUp == part = "explorer" => Explorer!ExplorerComesUp

\* A generation fails by the agent or by the service of profiles only.
FailuresComeFromOutside == Generating!FailuresComeFromOutside
=============================================================================
