SPECIFICATION FairSpec
CONSTANTS
    Items = {1, 2}
    RunIds = {r1, r2}
    NoRun = NoRun
    Procs = {p1}
    GroupCount = 2
    GroupOf <- SingleGroups
    DirectGroups = {2}
    DryRuns = {FALSE, TRUE}
    DeleteCommitted = TRUE
    MaxCrashes = 1
    MaxDbErrors = 1
PROPERTY
    ActiveRunCleared
