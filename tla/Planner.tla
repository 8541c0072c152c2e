------------------------------ MODULE Planner -------------------------------
(***************************************************************************)
(* The planner (engine/planner/): which packages a command works on.  The  *)
(* requirements of a package are those of its system's plugin, so they are *)
(* given for each system.  `missing' is what getMissingPackages of the     *)
(* plugins answers, `ready' the set of systems that have the marker file   *)
(* .requirements_ready in their plugin directory.                          *)
(***************************************************************************)
EXTENDS Naturals, FiniteSets, InstalledState

CONSTANT Requires   \* for each system, the packages its plugin requires

\* Plugins that require packages of each other would make the graph cyclic.
ASSUME RequiresAssumption ==
    /\ IsFiniteSet(Systems)
    /\ Requires \in [Systems -> SUBSET Names]
    /\ \E rank \in [Systems -> 1 .. Cardinality(Systems)] :
          \A s \in Systems : \A d \in Requires[s] : rank[System[d]] < rank[s]

RequirementsOf(n) == Requires[System[n]]

\* filterRequestedPackages: requests that are satisfied already are dropped.
FilterRequestedPackages(requested, missing) == requested \cap missing

\* pluginRequirementsSatisfied
RequirementsSatisfied(s, missing) == Requires[s] \cap missing = {}

\* shouldInstallPluginDependencies: the marker is believed.
ShouldInstallDependencies(s, ready, missing) ==
    s \notin ready /\ ~RequirementsSatisfied(s, missing)

\* markPluginRequirementsProvisioned, for the systems the planner looks at.
MarkReady(systems, ready, missing) ==
    ready \cup {s \in systems : RequirementsSatisfied(s, missing)}

\* addPackageToGraph: the packages, and with each one that is missing what it
\* requires and is missing as well.
WithDependencies(packages, missing) ==
    LET level[k \in 0 .. Cardinality(Systems)] ==
            IF k = 0 THEN packages
            ELSE level[k - 1] \cup
                 UNION {RequirementsOf(p) \cap missing : p \in level[k - 1]}
    IN  level[Cardinality(Systems)]

\* buildDag for an install: the packages that bring their dependencies along.
Expanded(requested, ready, missing) ==
    WithDependencies({p \in FilterRequestedPackages(requested, missing) :
                        ShouldInstallDependencies(System[p], ready, missing)},
                     missing)

InstallGraph(requested, ready, missing) ==
    [packages |-> FilterRequestedPackages(requested, missing)
                     \cup Expanded(requested, ready, missing),
     edges |-> {e \in missing \X Expanded(requested, ready, missing) :
                   e[1] \in RequirementsOf(e[2])}]

\* collectPluginDependencies and buildDependencyDag for `ensure'.
EnsureGraph(system, missing) ==
    LET packages == WithDependencies(Requires[system] \cap missing, missing)
    IN  [packages |-> packages,
         edges |-> {e \in missing \X packages : e[1] \in RequirementsOf(e[2])}]

\* buildDag for every other action: the requested packages and nothing else.
PlainGraph(requested) == [packages |-> requested, edges |-> {}]
=============================================================================
