SPECIFICATION Spec
CONSTANTS
    None = None
    SegLen <- MCSegLen
    Entries <- MCEntries
    Ids <- MCIds
    Catalogue <- MCCatalogue
    HookFiles <- MCHookFiles
    Directories = {"d"}
    Inside <- MCInside
    TextPrefix <- MCTextPrefix
    Requests <- MCRequests
    Plugins = {"apt"}
    Records <- MCRecords
    Host <- MCHost
    Aliases <- MCAliases
    MaxCalls = 3
    MaxFaults = 1
INVARIANTS
    ReadableMeansComplete
    SharedFilesKept
    
    UpdateKeepsNewest
    
CHECK_DEADLOCK FALSE
