\* Three requests of the VC API for one id; one request for a document of a server without
\* a port in its address.
CONSTANTS
    None = None
    Ids = {"i"}
    Formats = {"lds", "EthereumEip712Signature2021", "OpenAttestationMerkleProofSignature2018"}
    Issuers = {"eth", "plain", "unknown"}
    Managed = {"eth", "plain"}
    EthIssuers = {"eth"}
    Plugins = {"CredentialW3c", "CredentialOA"}
    Requests = {r1, r2, r3}
    DocRequests = {q1}
    Hosts = {"host"}
    BaseHost = "host"
    BaseName = "host"
    KeyBound = 3
    Keys <- ServerKeys
    KeyType <- TypeOfKey
    KeyMappings <- Mappings
    Paths <- APaths
    Parent <- ParentPath
    Configs <- Configurations
SYMMETRY Symmetry
SPECIFICATION ServerSpec
CHECK_DEADLOCK FALSE
INVARIANTS
    IssuedIsFound DeletedIsGone
    KeysAreListed DefaultComplete
    PointersShareWholes FailsIffBroken
