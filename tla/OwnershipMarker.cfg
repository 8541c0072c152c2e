SPECIFICATION Spec
CONSTANTS
    Names = {"alpha", "beta", "maven", "node"}
    Systems = {"app", "other", "dep"}
    System <- SystemOf
    Requires <- ThreeLevels
    Latest <- TwoVersions
    Unlisted = {"other"}
    Requests = {{"alpha"}, {"beta"}}
    MaxCrashes = 0
INVARIANT
    RequirementsProvisioned
