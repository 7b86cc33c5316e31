\* Three calls over a pool of two connections: two changes can take the whole pool, and a
\* third call of any kind queues behind them.  Two requests of the agent router, three messages and two
\* pickups at a time, one task of the page of two identifiers.
CONSTANTS
    None = None
    Requests = {r1, r2, r3}
    PoolSize = 2
    MaxRetries = 2
    Calls = {c1, c2}
    Methods = {"routeCreationVerifiableCredential", "hidden"}
    Exposed = {"routeCreationVerifiableCredential"}
    ApiRoutes = {"routeCreationVerifiableCredential"}
    Chains = {"guarded", "bare"}
    Modes = {"agent", "function", "neither", "unused"}
    ApiKeys = {0, 1}
    Tokens = {1, 2}
    Own = {a1}
    Peers = {b}
    Pickups = {p1, p2}
    MessageBound = 3
    KeyIds = {k1}
    Tasks = {t1}
    SetupDids = {"web", "peer"}
    Provider <- WebAndPeer
    Urls = {u1, u2}
    DefaultUrl = u1
    Configured = {g1, g2}
    MaxChanges = 1
    MaxAgents = 1
    MaxCount = 2
    Names = {"i"}
SPECIFICATION ProgressSpec
CHECK_DEADLOCK FALSE
INVARIANTS ConnectionsAccounted 
PROPERTIES
    StarvedOnlyByChanges PoolAnswers
    EveryRequestAnswered
    EverythingArrives ButtonComesBack
    ExplorerComesUp
