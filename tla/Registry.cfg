SPECIFICATION Spec
CONSTANTS
    Names <- MCNames
    Sources <- MCSources
    Layout <- MCLayout
    Tags <- MCTags
    Asked <- MCAsked
    BundleFiles <- MCBundleFiles
    Moving <- MCMoving
    Explicit <- MCExplicit
    FirstTree <- MCFirstTree
    Trees <- MCTrees
    RequireThinLayer = TRUE
    BadHash = 9
    MaxCommits = 3
    MaxVersion = 2
    MaxFaults = 1
INVARIANTS
    MirrorsUpstream
    ExplicitWins
    
PROPERTIES
    
    OneGoodSyncSuffices
CHECK_DEADLOCK FALSE
