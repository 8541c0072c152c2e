SPECIFICATION Spec
CONSTANTS
    MAX_PROXY_RESOLUTION_DEPTH = 4
    Commands <- MCCommands
    Worlds <- MCWorlds
INVARIANTS
    NoSilentLoss
    ResolutionExact
    
    
CHECK_DEADLOCK FALSE
