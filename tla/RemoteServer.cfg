SPECIFICATION FairSpec
CONSTANTS
    Clients = {c1, c2}
    NoClient = NoClient
    ConfigFiles <- TwoConfigs
    UserFiles <- TwoRegistries
    Credentials = {"root"}
    Fallback = {}
    Explicit = {}
    ServerProtocol = "text"
    ClientLines <- EveryPath
INVARIANTS
    MutationsPermitted
    PayloadNeverCommand
PROPERTY
    ShutdownCompletes
