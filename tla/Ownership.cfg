SPECIFICATION Spec
CONSTANTS
    Names = {"alpha", "beta", "maven", "node"}
    Systems = {"app", "other", "dep"}
    System <- SystemOf
    Requires <- ThreeLevels
    Latest <- TwoVersions
    Unlisted = {"other"}
    Requests = {{"alpha"}, {"beta"}, {"maven"}}
    MaxCrashes = 1
INVARIANTS
    
    
    
    InstalledStateExact
