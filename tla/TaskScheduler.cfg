SPECIFICATION FairSpec
CONSTANTS
    GroupCount = 3
    Systems = {apt, npm}
    Workers = {w1, w2}
    NoWorker = NoWorker
INVARIANTS
    SystemExclusive
    DependenciesSucceeded
    NoGroupAbandoned
PROPERTIES
    Terminates
    ImplementsExecution
