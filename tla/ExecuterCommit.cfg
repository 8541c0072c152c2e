SPECIFICATION Spec
CONSTANTS
    Items = {1, 2}
    RunIds = {r1, r2}
    NoRun = NoRun
    Procs = {p1}
    GroupCount = 2
    GroupOf <- SingleGroups
    DirectGroups = {}
    DryRuns = {FALSE}
    DeleteCommitted = TRUE
    MaxCrashes = 0
    MaxDbErrors = 0
PROPERTY
    CommitOnlySuccess
