SPECIFICATION UpdateFairSpec
CONSTANTS
    RequestCount = 3
    Systems = {apt, npm}
    Workers = {w1, w2, w3}
INVARIANT
    NoFalseSuccess
PROPERTIES
    UpdateImplementsExecution
    UpdateTerminates
