\* Two own identities, which may write to each other, a peer, a send and a
\* pickup; two tasks on the pages of two identifiers; two processes on one database.
CONSTANTS
    None = None
    Own = {a1, a2}
    Peers = {b}
    Sends = {m1}
    Pickups = {p1}
    MessageBound = 2
    PageDids <- WebAndEthr
    Provider <- TheirProvider
    KeyIds = {a1, a2}
    Tasks = {t1, t2}
    Sessions = {t1, t2}
    CliDids = {d1, d2}
    Ethr = {d1}
    CliKeys <- ThreeKeys
    DocKey <- KeyOfDid
    MaxPicks = 1
    Requests = {t1, t2}
    Claims = {a1, a2}
    Shares = {s1}
    Creds = {a1, a2}
    Checks = {t1, t2}
    Providers = {"WebRenderingTemplate2022"}
    Default = "WebRenderingTemplate2022"
    Schemas = {a1, a2}
    Issuers = {t1, t2}
    Presentations = {t1, t2}
    MaxClicks = 2
    FindDids = {"x"}
    Words = {"a", "ab"}
    Texts = {"ab"}
    Within <- WithinText
    InDid <- WithinDid
    MaxChanges = 1
    MaxFillings = 3
SYMMETRY Symmetry
SPECIFICATION ClientsSpec
CHECK_DEADLOCK FALSE
INVARIANTS
    RepliesStayInThread StoredWasSent PresentedAboutHolder SentIsStored
    RequestsAreKept ResponseAnswersRequest ShownWasVerified StatusIsCurrent
    AsClicked KeysAreAccounted
PROPERTIES
    SetupIsWhole FindsWhatIsKnown InputIsSentOnce
