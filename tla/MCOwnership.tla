---------------------------- MODULE MCOwnership -----------------------------
(* Three levels of packages: beta needs alpha and maven, alpha needs maven *)
(* and node, which share a system.                                         *)
EXTENDS Ownership

SystemOf == [n \in Names |->
    CASE n = "alpha" -> "app" [] n = "beta" -> "other" [] n \in {"maven", "node"} -> "dep"]

ThreeLevels == [s \in Systems |->
    CASE s = "app" -> {"maven", "node"} [] s = "other" -> {"alpha", "maven"} [] s = "dep" -> {}]

\* One package has a newer version.
TwoVersions == [n \in Names |-> IF n = "maven" THEN 2 ELSE 1]
=============================================================================
