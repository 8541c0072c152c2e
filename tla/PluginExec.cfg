CONSTANTS
    Calls <- MCCalls
    WorkingDirectory <- MCWorkingDirectory
    PluginDirectory <- MCPluginDirectory
    ScopeBases <- MCScopeBases
    PipeCapacity = 12
    Faults = {"spawn", "read", "wait"}

SPECIFICATION Spec

INVARIANTS
    LinesExact
    TerminalLinesExact
    NeverAnsweredTwice
    CallComplete
    

PROPERTIES
    Terminates

CHECK_DEADLOCK FALSE
