SPECIFICATION Spec
CONSTANTS
    Items = {1, 2, 3}
    RunIds = {r1, r2}
    NoRun = NoRun
    Procs = {p1}
    GroupCount = 2
    GroupOf <- TwoGroups
    DirectGroups = {2}
    DryRuns = {FALSE}
    DeleteCommitted = TRUE
    MaxCrashes = 2
    MaxDbErrors = 0
SYMMETRY RunSymmetry
INVARIANTS
    OneOpenRun
    
PROPERTIES
    
    NothingDoneTwice
