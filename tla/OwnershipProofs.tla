-------------------------- MODULE OwnershipProofs ---------------------------
(***************************************************************************)
(* Proofs about Ownership for every set of packages, systems, requirements *)
(* and every sequence of commands, failures and crashes: what is relied on *)
(* keeps its owners, so it is never removed as an orphan, and as long as   *)
(* nothing fails the installed state is exact and nothing outlives what    *)
(* needed it.                                                              *)
(***************************************************************************)
EXTENDS Ownership, FiniteSetTheorems, NaturalsInduction, WellFoundedInduction, TLAPS

Labels == {"idle", "recover", "execute", "sync", "owners", "orphans"}

-----------------------------------------------------------------------------
(* The planner.  The expansion of a request is the value of a recursive    *)
(* function; what it computes is shown by induction, in the form that a    *)
(* nonempty set of natural numbers has a least element.                    *)

LEMMA LeastNumber ==
    ASSUME NEW T \in SUBSET Nat, T # {}
    PROVE  \E n \in T : \A m \in T : n <= m
<1> DEFINE less == {ss \in Nat \X Nat : ss[1] < ss[2]}
<1>1. IsWellFoundedOn(less, Nat)
  BY NatLessThanWellFounded DEF OpToRel
<1>2. \A x, y \in T : <<y, x>> \in less <=> y < x
  OBVIOUS
<1> HIDE DEF less
<1>3. PICK x \in T : \A y \in T : ~(<<y, x>> \in less)
  BY <1>1, WFMin
<1>4. \A y \in T : ~(y < x)
  BY <1>2, <1>3
<1>5. \A y \in T : x <= y
  BY <1>4
<1> QED
  BY <1>5

Depth == Cardinality(Systems)

\* One step of the recursion of WithDependencies.
LevelStep(packages, missing, f, k) ==
    IF k = 0 THEN packages
    ELSE f[k - 1] \cup UNION {RequirementsOf(p) \cap missing : p \in f[k - 1]}

\* Up to depth b the recursion has the solution f.
Solution(packages, missing, f, b) ==
    f = [k \in 0 .. b |-> LevelStep(packages, missing, f, k)]

LEMMA DepthType == Depth \in Nat
BY RequiresAssumption, FS_CardinalityType DEF Depth

LEMMA LevelsExist ==
    ASSUME NEW P, NEW M
    PROVE  \A b \in Nat : \E f : Solution(P, M, f, b)
<1> DEFINE Solved(b) == \E f : Solution(P, M, f, b)
           T == {b \in Nat : ~Solved(b)}
<1> SUFFICES ASSUME T # {} PROVE FALSE
  OBVIOUS
<1>1. PICK b \in T : \A m \in T : b <= m
  BY LeastNumber
<1>2. Solved(0)
  <2> DEFINE f == [k \in 0 .. 0 |-> P]
  <2>1. Solution(P, M, f, 0)
    BY DEF Solution, LevelStep
  <2> QED
    BY <2>1
<1>3. b # 0 /\ b - 1 \in Nat /\ Solved(b - 1)
  <2> HIDE DEF Solved
  <2>1. b \in Nat /\ ~Solved(b)
    BY <1>1
  <2>2. b # 0
    BY <1>2, <2>1
  <2>3. b - 1 \in Nat /\ ~(b <= b - 1)
    BY <2>1, <2>2
  <2> QED
    BY <1>1, <2>2, <2>3
<1>4. PICK f : Solution(P, M, f, b - 1)
  BY <1>3
<1> DEFINE h == [k \in 0 .. b |-> IF k = b THEN LevelStep(P, M, f, b) ELSE f[k]]
<1>5. ASSUME NEW k \in 0 .. b PROVE h[k] = LevelStep(P, M, h, k)
  <2>1. LevelStep(P, M, h, k) = LevelStep(P, M, f, k)
    <3>1. CASE k = 0
      BY <3>1 DEF LevelStep
    <3>2. CASE k # 0
      <4>1. k - 1 \in 0 .. b /\ k - 1 # b
        BY <1>3, <3>2
      <4>2. h[k - 1] = f[k - 1]
        BY <4>1
      <4> HIDE DEF h
      <4> QED
        BY <4>2 DEF LevelStep
    <3> QED
      BY <3>1, <3>2
  <2>2. h[k] = LevelStep(P, M, f, k)
    <3>1. CASE k = b
      BY <3>1
    <3>2. CASE k # b
      <4>1. k \in 0 .. b - 1
        BY <1>3, <3>2
      <4> QED
        BY <1>4, <3>2, <4>1 DEF Solution
    <3> QED
      BY <3>1, <3>2
  <2> QED
    BY <2>1, <2>2
<1>6. Solution(P, M, h, b)
  BY <1>5 DEF Solution
<1>7. Solved(b)
  BY <1>6
<1> QED
  BY <1>1, <1>7

\* WithDependencies is the last of the levels.
LEMMA WithDependenciesLevels ==
    ASSUME NEW P, NEW M
    PROVE  \E f : Solution(P, M, f, Depth) /\ WithDependencies(P, M) = f[Depth]
<1> DEFINE g == CHOOSE f : f = [k \in 0 .. Depth |-> LevelStep(P, M, f, k)]
<1>1. Solution(P, M, g, Depth)
  <2>1. \E f : f = [k \in 0 .. Depth |-> LevelStep(P, M, f, k)]
    BY DepthType, LevelsExist DEF Solution
  <2> QED
    BY <2>1 DEF Solution
<1>2. WithDependencies(P, M) = g[Depth]
  BY DEF WithDependencies, LevelStep, Depth
<1> QED
  BY <1>1, <1>2

LEMMA LevelMember ==
    ASSUME NEW P, NEW M, NEW f, Solution(P, M, f, Depth), NEW k \in 0 .. Depth, k # 0, NEW d
    PROVE  d \in f[k] <=>
              d \in f[k - 1] \/ \E p \in f[k - 1] : d \in RequirementsOf(p) \cap M
<1> DEFINE before == f[k - 1]
<1>1. f[k] = before \cup UNION {RequirementsOf(p) \cap M : p \in before}
  BY DEF Solution, LevelStep
<1> HIDE DEF before
<1>2. d \in f[k] <=> d \in before \/ \E p \in before : d \in RequirementsOf(p) \cap M
  BY <1>1, Zenon
<1> QED
  BY <1>2 DEF before

LEMMA LevelsGrow ==
    ASSUME NEW P, NEW M, NEW f, Solution(P, M, f, Depth), NEW k \in 0 .. Depth
    PROVE  f[k] \subseteq f[Depth]
<1> DEFINE T == {m \in 0 .. Depth : k <= m /\ ~(f[k] \subseteq f[m])}
<1>1. T = {}
  <2> SUFFICES ASSUME T # {} PROVE FALSE
    OBVIOUS
  <2>1. T \in SUBSET Nat
    OBVIOUS
  <2>2. PICK m \in T : \A j \in T : m <= j
    BY <2>1, LeastNumber
  <2>3. m \in 0 .. Depth /\ m # 0 /\ m - 1 \in 0 .. Depth /\ k <= m - 1 /\ ~(m <= m - 1)
    <3>1. m # k
      BY <2>2
    <3> QED
      BY <2>2, <3>1, DepthType
  <2>4. m - 1 \notin T
    BY <2>2, <2>3
  <2>5. f[k] \subseteq f[m - 1]
    BY <2>3, <2>4
  <2>6. f[m - 1] \subseteq f[m]
    BY <2>3, LevelMember
  <2> QED
    BY <2>2, <2>5, <2>6
<1>2. Depth \in 0 .. Depth /\ k <= Depth
  BY DepthType
<1> QED
  BY <1>1, <1>2

\* The expansion contains the packages it starts from, and everything else in it is
\* missing and required by something in it.
LEMMA ExpansionFacts ==
    ASSUME NEW P \in SUBSET Names, NEW M
    PROVE  /\ WithDependencies(P, M) \in SUBSET Names
           /\ P \subseteq WithDependencies(P, M)
           /\ \A d \in WithDependencies(P, M) \ P :
                 d \in M /\ \E p \in WithDependencies(P, M) : d \in RequirementsOf(p)
<1>1. PICK f : Solution(P, M, f, Depth) /\ WithDependencies(P, M) = f[Depth]
  BY WithDependenciesLevels
<1>2. f[0] = P /\ 0 \in 0 .. Depth /\ Depth \in 0 .. Depth
  BY <1>1, DepthType DEF Solution, LevelStep
<1>3. ASSUME NEW d \in f[Depth], d \notin P
      PROVE  \E k \in 0 .. Depth : k # 0 /\ k - 1 \in 0 .. Depth
                /\ \E p \in f[k - 1] : d \in RequirementsOf(p) \cap M
  <2> DEFINE T == {k \in 0 .. Depth : d \in f[k]}
  <2>1. T \in SUBSET Nat /\ T # {}
    BY <1>2
  <2>2. PICK k \in T : \A j \in T : k <= j
    BY <2>1, LeastNumber
  <2>3. k \in 0 .. Depth /\ k # 0 /\ k - 1 \in 0 .. Depth /\ ~(k <= k - 1) /\ d \in f[k]
    BY <1>2, <1>3, <2>2, DepthType
  <2>4. d \notin f[k - 1]
    BY <2>2, <2>3
  <2>5. \E p \in f[k - 1] : d \in RequirementsOf(p) \cap M
    BY <1>1, <2>3, <2>4, LevelMember
  <2> QED
    BY <2>3, <2>5
<1>4. P \subseteq f[Depth]
  BY <1>1, <1>2, LevelsGrow
<1>5. ASSUME NEW d \in f[Depth], d \notin P
      PROVE  d \in M /\ \E p \in f[Depth] : d \in RequirementsOf(p)
  <2>1. PICK k \in 0 .. Depth : k # 0 /\ k - 1 \in 0 .. Depth
           /\ \E p \in f[k - 1] : d \in RequirementsOf(p) \cap M
    BY <1>3, <1>5
  <2>2. f[k - 1] \subseteq f[Depth]
    BY <1>1, <2>1, LevelsGrow
  <2> QED
    BY <2>1, <2>2
<1>6. \A k \in 0 .. Depth : f[k] \subseteq Names
  <2> DEFINE T == {k \in 0 .. Depth : ~(f[k] \subseteq Names)}
  <2> SUFFICES ASSUME T # {} PROVE FALSE
    OBVIOUS
  <2>1. T \in SUBSET Nat
    OBVIOUS
  <2>2. PICK k \in T : \A j \in T : k <= j
    BY <2>1, LeastNumber
  <2>3. k \in 0 .. Depth /\ k # 0 /\ k - 1 \in 0 .. Depth /\ ~(k <= k - 1)
    BY <1>2, <2>2, DepthType
  <2>4. f[k - 1] \subseteq Names
    BY <2>2, <2>3
  <2>5. \A p \in Names : RequirementsOf(p) \subseteq Names
    BY RequiresAssumption, SystemAssumption DEF RequirementsOf
  <2>6. f[k] \subseteq Names
    BY <1>1, <2>3, <2>4, <2>5, LevelMember
  <2> QED
    BY <2>2, <2>6
<1> QED
  BY <1>1, <1>2, <1>4, <1>5, <1>6

\* The expansion leaves nothing out: whatever is missing and required by something
\* in it is in it, however long the chain of requirements.  A package that first
\* appears at level k belongs to a system of rank Depth - k at most, so the levels
\* end before the recursion does.
THEOREM ExpansionClosed ==
    ASSUME NEW P \in SUBSET Names, NEW M, NEW p \in WithDependencies(P, M)
    PROVE  RequirementsOf(p) \cap M \subseteq WithDependencies(P, M)
<1>1. PICK f : Solution(P, M, f, Depth) /\ WithDependencies(P, M) = f[Depth]
  BY WithDependenciesLevels
<1>2. PICK rank \in [Systems -> 1 .. Depth] :
         \A s \in Systems : \A d \in Requires[s] : rank[System[d]] < rank[s]
  BY RequiresAssumption DEF Depth
<1>3. f[Depth] \in SUBSET Names
  BY <1>1, ExpansionFacts
<1> DEFINE Late == {k \in 0 .. Depth : \E d \in f[k] :
                       (k = 0 \/ d \notin f[k - 1]) /\ rank[System[d]] > Depth - k}
<1>4. Late = {}
  <2> SUFFICES ASSUME Late # {} PROVE FALSE
    OBVIOUS
  <2>1. Late \in SUBSET Nat
    OBVIOUS
  <2>2. PICK k \in Late : \A j \in Late : k <= j
    BY <2>1, LeastNumber
  <2>3. PICK d \in f[k] : (k = 0 \/ d \notin f[k - 1]) /\ rank[System[d]] > Depth - k
    BY <2>2
  <2>4. k \in 0 .. Depth
    BY <2>2
  <2>5. \A j \in 0 .. Depth : \A q \in f[j] : q \in Names /\ System[q] \in Systems
    <3>1. \A j \in 0 .. Depth : f[j] \subseteq f[Depth]
      BY <1>1, LevelsGrow
    <3> QED
      BY <1>3, <3>1, SystemAssumption
  <2>6. k # 0
    BY <1>2, <2>3, <2>4, <2>5, DepthType
  <2>7. k - 1 \in 0 .. Depth /\ ~(k <= k - 1)
    BY <2>4, <2>6, DepthType
  <2>8. PICK q \in f[k - 1] : d \in RequirementsOf(q) \cap M
    BY <1>1, <2>3, <2>4, <2>6, LevelMember
  <2>9. rank[System[d]] < rank[System[q]]
    BY <1>2, <2>5, <2>7, <2>8 DEF RequirementsOf
  <2>10. k - 1 = 0 \/ q \notin f[(k - 1) - 1]
    BY <1>1, <2>3, <2>6, <2>7, <2>8, LevelMember
  <2>11. k - 1 \notin Late
    BY <2>2, <2>7
  <2>12. ~(rank[System[q]] > Depth - (k - 1))
    BY <2>7, <2>8, <2>10, <2>11
  <2>13. rank[System[q]] \in Nat /\ rank[System[d]] \in Nat /\ Depth \in Nat /\ k \in Nat
    BY <1>2, <2>3, <2>4, <2>5, <2>7, <2>8, DepthType
  <2> QED
    BY <2>3, <2>9, <2>12, <2>13
<1> DEFINE T == {k \in 0 .. Depth : p \in f[k]}
<1>5. T \in SUBSET Nat /\ T # {}
  BY <1>1, DepthType
<1>6. PICK k \in T : \A j \in T : k <= j
  BY <1>5, LeastNumber
<1>7. k \in 0 .. Depth /\ p \in f[k] /\ (k = 0 \/ p \notin f[k - 1])
  <2>1. k \in 0 .. Depth /\ p \in f[k]
    BY <1>6
  <2>2. ASSUME k # 0 PROVE p \notin f[k - 1]
    <3>1. k - 1 \in 0 .. Depth /\ ~(k <= k - 1)
      BY <2>1, <2>2, DepthType
    <3> QED
      BY <1>6, <3>1
  <2> QED
    BY <2>1, <2>2
<1>8. ~(rank[System[p]] > Depth - k)
  BY <1>4, <1>7
<1>9. p \in Names /\ System[p] \in Systems
  BY <1>1, <1>3, SystemAssumption
<1>10. k + 1 \in 0 .. Depth /\ k + 1 # 0 /\ (k + 1) - 1 = k
  BY <1>2, <1>7, <1>8, <1>9, DepthType
<1>11. RequirementsOf(p) \cap M \subseteq f[k + 1]
  <2>1. p \in f[(k + 1) - 1]
    BY <1>7, <1>10
  <2> QED
    BY <1>1, <1>10, <2>1, LevelMember
<1>12. f[k + 1] \subseteq f[Depth]
  BY <1>1, <1>10, LevelsGrow
<1> QED
  BY <1>1, <1>11, <1>12

-----------------------------------------------------------------------------
(* The transactions of the installed state.                                *)

LEMMA UpsertFacts ==
    ASSUME NEW st, IsStore(st), NEW n \in Names
    PROVE  /\ IsStore(UpsertEntry(st, n))
           /\ \A m \in Names : m # n =>
                 /\ m \in DOMAIN UpsertEntry(st, n) <=> m \in DOMAIN st
                 /\ m \in DOMAIN st => UpsertEntry(st, n)[m] = st[m]
BY DEF UpsertEntry, IsStore, Entries, AnyVersion

LEMMA RemoveFacts ==
    ASSUME NEW st, IsStore(st), NEW n \in Names
    PROVE  /\ IsStore(RemoveEntry(st, n))
           /\ \A m \in Names : m # n =>
                 /\ m \in DOMAIN RemoveEntry(st, n) <=> m \in DOMAIN st
                 /\ m \in DOMAIN st => RemoveEntry(st, n)[m] = st[m]
BY DEF RemoveEntry, IsStore, Entries

\* Changing owners leaves the entries and their versions alone.
LEMMA MergeFacts ==
    ASSUME NEW st, IsStore(st), NEW n \in Names, NEW os \in SUBSET Owners
    PROVE  /\ IsStore(MergeOwners(st, n, os))
           /\ DOMAIN MergeOwners(st, n, os) = DOMAIN st
           /\ \A m \in DOMAIN st :
                 /\ MergeOwners(st, n, os)[m].version = st[m].version
                 /\ MergeOwners(st, n, os)[m].owners =
                       IF m = n THEN st[m].owners \cup os ELSE st[m].owners
<1>1. /\ \A m \in DOMAIN st : st[m] \in Entries
      /\ DOMAIN st \subseteq Names /\ st \in [DOMAIN st -> Entries]
  BY DEF IsStore
<1>2. CASE n \notin DOMAIN st
  BY <1>1, <1>2 DEF MergeOwners, IsStore
<1>3. CASE n \in DOMAIN st
  <2> DEFINE new == [st EXCEPT ![n].owners = @ \cup os]
  <2>1. MergeOwners(st, n, os) = new
    BY <1>3 DEF MergeOwners
  <2>2. DOMAIN new = DOMAIN st
    OBVIOUS
  <2>3. \A m \in DOMAIN st :
          /\ new[m].version = st[m].version
          /\ new[m].owners = IF m = n THEN st[m].owners \cup os ELSE st[m].owners
          /\ new[m] \in Entries
    BY <1>1, <1>3 DEF Entries
  <2>4. new = [m \in DOMAIN st |-> new[m]]
    OBVIOUS
  <2> HIDE DEF new
  <2>5. IsStore(new)
    BY <1>1, <2>2, <2>3, <2>4 DEF IsStore
  <2> QED
    BY <2>1, <2>2, <2>3, <2>5
<1> QED
  BY <1>2, <1>3

LEMMA SubtractFacts ==
    ASSUME NEW st, IsStore(st), NEW n \in Names, NEW os \in SUBSET Owners
    PROVE  /\ IsStore(SubtractOwners(st, n, os))
           /\ DOMAIN SubtractOwners(st, n, os) = DOMAIN st
           /\ \A m \in DOMAIN st :
                 /\ SubtractOwners(st, n, os)[m].version = st[m].version
                 /\ SubtractOwners(st, n, os)[m].owners =
                       IF m = n THEN st[m].owners \ os ELSE st[m].owners
<1>1. /\ \A m \in DOMAIN st : st[m] \in Entries
      /\ DOMAIN st \subseteq Names /\ st \in [DOMAIN st -> Entries]
  BY DEF IsStore
<1>2. CASE n \notin DOMAIN st
  BY <1>1, <1>2 DEF SubtractOwners, IsStore
<1>3. CASE n \in DOMAIN st
  <2> DEFINE new == [st EXCEPT ![n].owners = @ \ os]
  <2>1. SubtractOwners(st, n, os) = new
    BY <1>3 DEF SubtractOwners
  <2>2. DOMAIN new = DOMAIN st
    OBVIOUS
  <2>3. \A m \in DOMAIN st :
          /\ new[m].version = st[m].version
          /\ new[m].owners = IF m = n THEN st[m].owners \ os ELSE st[m].owners
          /\ new[m] \in Entries
    BY <1>1, <1>3 DEF Entries
  <2>4. new = [m \in DOMAIN st |-> new[m]]
    OBVIOUS
  <2> HIDE DEF new
  <2>5. IsStore(new)
    BY <1>1, <2>2, <2>3, <2>4 DEF IsStore
  <2> QED
    BY <2>1, <2>2, <2>3, <2>5
<1> QED
  BY <1>2, <1>3

-----------------------------------------------------------------------------
(* The plans and the plugins.                                              *)

LEMMA RequirementsTyped == \A n \in Names : /\ System[n] \in Systems
                                            /\ RequirementsOf(n) = Requires[System[n]]
                                            /\ RequirementsOf(n) \in SUBSET Names
BY SystemAssumption, RequiresAssumption DEF RequirementsOf

LEMMA MissingTyped ==
    ASSUME NEW action, NEW packages \in SUBSET Names
    PROVE  Missing(action, packages) \in SUBSET packages
BY DEF Missing

\* What an install plans: packages that are missing, and those the user did not ask
\* for are required by others of the plan.
LEMMA InstallGraphFacts ==
    \A requested, M \in SUBSET Names : \A R :
        LET G == InstallGraph(requested, R, M) IN
        /\ G.packages \in SUBSET M /\ G.edges \in SUBSET (Names \X Names)
        /\ \A d \in G.packages \ requested : \E p \in G.packages : d \in RequirementsOf(p)
<1> SUFFICES ASSUME NEW requested \in SUBSET Names, NEW M \in SUBSET Names, NEW R
             PROVE  LET G == InstallGraph(requested, R, M) IN
                    /\ G.packages \in SUBSET M /\ G.edges \in SUBSET (Names \X Names)
                    /\ \A d \in G.packages \ requested :
                          \E p \in G.packages : d \in RequirementsOf(p)
  OBVIOUS
<1> DEFINE G == InstallGraph(requested, R, M)
           P == {p \in FilterRequestedPackages(requested, M) :
                    ShouldInstallDependencies(System[p], R, M)}
           E == Expanded(requested, R, M)
<1>1. P \in SUBSET Names /\ P \subseteq requested /\ P \subseteq M
  BY DEF FilterRequestedPackages
<1>2. E = WithDependencies(P, M)
  BY DEF Expanded
<1>3. G.packages = (requested \cap M) \cup E /\ G.edges = {e \in M \X E : e[1] \in RequirementsOf(e[2])}
  BY DEF InstallGraph, FilterRequestedPackages
<1> HIDE DEF P, E
<1>4. /\ E \in SUBSET Names
      /\ \A d \in E \ P : d \in M /\ \E p \in E : d \in RequirementsOf(p)
  BY <1>1, <1>2, ExpansionFacts
<1>5. G.edges \in SUBSET (Names \X Names)
  BY <1>3, <1>4
<1>6. G.packages \in SUBSET M
  BY <1>1, <1>3, <1>4
<1>7. \A d \in G.packages \ requested : \E p \in G.packages : d \in RequirementsOf(p)
  BY <1>1, <1>3, <1>4
<1> QED
  BY <1>5, <1>6, <1>7

LEMMA EnsureGraphFacts ==
    ASSUME NEW s \in Systems, NEW M \in SUBSET Names, NEW G, G = EnsureGraph(s, M)
    PROVE  G.packages \in SUBSET M /\ G.edges \in SUBSET (Names \X Names)
<1> DEFINE P == Requires[s] \cap M
           E == WithDependencies(P, M)
<1>1. P \in SUBSET Names
  OBVIOUS
<1>2. G.packages = E /\ G.edges = {e \in M \X E : e[1] \in RequirementsOf(e[2])}
  BY DEF EnsureGraph
<1>3. E \in SUBSET Names /\ \A d \in E \ P : d \in M
  BY <1>1, ExpansionFacts
<1> HIDE DEF E
<1>4. G.packages \in SUBSET M
  BY <1>2, <1>3
<1>5. G.edges \in SUBSET (Names \X Names)
  BY <1>2, <1>3
<1> QED
  BY <1>4, <1>5

\* What an action makes of the machine.
LEMMA PerformFacts ==
    ASSUME world \in [Names -> Nat], NEW action \in Actions, NEW S \in SUBSET Names,
           Perform(action, S)
    PROVE  /\ world' \in [Names -> Nat]
           /\ \A n \in Names \ S : world'[n] = world[n]
           /\ Installed' = IF action = "remove" THEN Installed \ S ELSE Installed \cup S
           /\ relies' = relies \cap (Installed' \X Installed')
           /\ explicit' = explicit \cap Installed'
           /\ ensured' = ensured \cap Installed'
<1>1. \A n \in Names : Latest[n] \in Nat /\ Latest[n] > 0
  BY OwnershipAssumption
<1> DEFINE after == [n \in Names |->
              IF n \notin S THEN world[n]
              ELSE CASE action \in {"install", "ensure"} -> 1
                     [] action = "update" -> Latest[n]
                     [] action = "remove" -> 0]
           there == {n \in Names : after[n] > 0}
<1>2. /\ world' = after /\ relies' = relies \cap (there \X there)
      /\ explicit' = explicit \cap there /\ ensured' = ensured \cap there
  BY DEF Perform
<1>3. \A n \in Names : /\ n \notin S => after[n] = world[n]
                       /\ n \in S /\ action = "remove" => after[n] = 0
                       /\ n \in S /\ action # "remove" => after[n] \in Nat /\ after[n] > 0
  BY <1>1 DEF Actions
<1>4. after \in [Names -> Nat]
  BY <1>1 DEF Actions
<1> HIDE DEF after
<1>5. Installed' = there
  BY <1>2 DEF Installed
<1>6. Installed' = IF action = "remove" THEN Installed \ S ELSE Installed \cup S
  BY <1>2, <1>3 DEF Installed
<1>7. \A n \in Names \ S : world'[n] = world[n]
  BY <1>2, <1>3
<1> QED
  BY <1>2, <1>4, <1>5, <1>6, <1>7

-----------------------------------------------------------------------------
(* OwnersInv: planning.                                                    *)

LEMMA InitOwners == Init => OwnersInv
<1> SUFFICES ASSUME Init PROVE OwnersInv
  OBVIOUS
<1>1. TypeOK
  <2>1. IsStore(store)
    BY DEF Init, IsStore
  <2>2. crashes \in 0 .. MaxCrashes
    BY OwnershipAssumption DEF Init
  <2> QED
    BY <2>1, <2>2 DEF Init, TypeOK, NoCommand, NoPending, Actions
<1>2. PhaseInv
  BY DEF Init, PhaseInv, Removing, NoCommand
<1>3. ChangesInv
  BY DEF Init, ChangesInv
<1>4. TrackingInv
  BY DEF Init, TrackingInv
<1> QED
  BY <1>1, <1>2, <1>3, <1>4 DEF OwnersInv

LEMMA PlanOwners ==
    ASSUME OwnersInv, pc = "idle", NEW action \in Actions, NEW direct \in SUBSET Names,
           NEW G, G.packages \in SUBSET Names, G.edges \in SUBSET (Names \X Names),
           Plan(action, direct, G), ready' \in SUBSET Systems
    PROVE  OwnersInv'
<1> USE DEF machine, round
<1>1. TypeOK /\ PhaseInv /\ ChangesInv /\ TrackingInv
  BY DEF OwnersInv
<1>2. /\ planned = {} /\ records = {} /\ done = {} /\ syncing = {} /\ entries = {}
      /\ owning = {} /\ orphans = {}
  BY <1>1 DEF PhaseInv, TypeOK
<1>3. /\ UNCHANGED <<world, relies, explicit, ensured, store, planned, done, records, syncing,
                     entries, owning, orphans, pending, crashes, disturbed>>
      /\ pc' \in {"idle", "recover"}
      /\ command' \in [action : Actions, direct : SUBSET Names, packages : SUBSET Names,
                       edges : SUBSET (Names \X Names)]
      /\ command'.direct \subseteq command'.packages
  <2>1. CASE G.packages = {}
    BY <1>1, <2>1 DEF Plan, TypeOK
  <2>2. CASE G.packages # {}
    <3>1. command' = [action |-> action, direct |-> direct \cap G.packages,
                      packages |-> G.packages, edges |-> G.edges]
      BY <2>2 DEF Plan
    <3> QED
      BY <2>2, <3>1 DEF Plan
  <2> QED
    BY <2>1, <2>2
<1>4. Installed' = Installed
  BY <1>3 DEF Installed
<1>5. TypeOK'
  BY <1>1, <1>2, <1>3 DEF TypeOK
<1>6. PhaseInv'
  BY <1>2, <1>3 DEF PhaseInv
<1>7. ChangesInv'
  BY <1>2, <1>3 DEF ChangesInv
<1>8. TrackingInv'
  BY <1>1, <1>2, <1>3, <1>4 DEF TrackingInv, Listed
<1> QED
  BY <1>5, <1>6, <1>7, <1>8 DEF OwnersInv

LEMMA PlanningOwners ==
    ASSUME OwnersInv,
           \/ \E r \in Requests : PlanInstall(r)
           \/ \E r \in Requests, action \in {"update", "remove"} : PlanChange(action, r)
           \/ \E s \in Systems : PlanEnsure(s)
    PROVE  OwnersInv'
<1>1. ready \in SUBSET Systems
  BY DEF OwnersInv, TypeOK
<1> DEFINE M == Missing("install", Names)
<1>2. M \in SUBSET Names
  BY MissingTyped
<1>3. ASSUME NEW r \in Requests, PlanInstall(r) PROVE OwnersInv'
  <2> DEFINE G == InstallGraph(r, ready, M)
  <2>1. r \in SUBSET Names
    BY OwnershipAssumption
  <2>2. G.packages \in SUBSET Names /\ G.edges \in SUBSET (Names \X Names)
    <3> HIDE DEF M
    <3>1. G.packages \in SUBSET M /\ G.edges \in SUBSET (Names \X Names)
      BY <1>2, <2>1, InstallGraphFacts
    <3> QED
      BY <1>2, <3>1
  <2>3. pc = "idle" /\ Plan("install", r, G)
    BY <1>3 DEF PlanInstall
  <2>4. ready' \in SUBSET Systems
    <3> DEFINE F == {System[n] : n \in FilterRequestedPackages(r, M)}
    <3>1. F \in SUBSET Systems
      BY <2>1, SystemAssumption DEF FilterRequestedPackages
    <3>2. ready' = MarkReady(F, ready, M)
      BY <1>3 DEF PlanInstall
    <3> HIDE DEF F, M
    <3> QED
      BY <1>1, <3>1, <3>2 DEF MarkReady
  <2> HIDE DEF G
  <2> QED
    BY <2>1, <2>2, <2>3, <2>4, PlanOwners DEF Actions
<1>4. ASSUME NEW r \in Requests, NEW action \in {"update", "remove"}, PlanChange(action, r)
      PROVE  OwnersInv'
  <2> DEFINE G == PlainGraph(r)
  <2>1. r \in SUBSET Names
    BY OwnershipAssumption
  <2>2. G.packages \in SUBSET Names /\ G.edges \in SUBSET (Names \X Names)
    BY <2>1 DEF PlainGraph
  <2>3. pc = "idle" /\ Plan(action, r, G) /\ ready' \in SUBSET Systems
    BY <1>1, <1>4 DEF PlanChange
  <2> HIDE DEF G
  <2> QED
    BY <2>1, <2>2, <2>3, PlanOwners DEF Actions
<1>5. ASSUME NEW s \in Systems, PlanEnsure(s) PROVE OwnersInv'
  <2> DEFINE G == EnsureGraph(s, M)
  <2>1. G.packages \in SUBSET Names /\ G.edges \in SUBSET (Names \X Names)
    BY <1>2, EnsureGraphFacts
  <2>2. pc = "idle" /\ Plan("ensure", {}, G) /\ ready' \in SUBSET Systems
    BY <1>1, <1>5 DEF PlanEnsure
  <2> HIDE DEF G
  <2> QED
    BY <2>1, <2>2, PlanOwners DEF Actions
<1> QED
  BY <1>3, <1>4, <1>5

-----------------------------------------------------------------------------
(* OwnersInv: recovery and execution.                                      *)

\* Whatever plugins do to the machine, what is left of the history still has its
\* owners, as long as the store is left alone.
LEMMA PerformTracking ==
    ASSUME OwnersInv, NEW action \in Actions, NEW S \in SUBSET Names, Perform(action, S),
           store' = store
    PROVE  /\ relies' \in SUBSET (Names \X Names) /\ explicit' \in SUBSET Names
           /\ ensured' \in SUBSET Names /\ world' \in [Names -> Nat]
           /\ relies' \subseteq relies /\ explicit' \subseteq explicit
           /\ relies' \subseteq Installed' \X Installed' /\ explicit' \subseteq Installed'
           /\ \A r \in relies' : Listed(r[2]) =>
                 r[2] \in DOMAIN store' /\ Pkg(r[1]) \in store'[r[2]].owners
           /\ \A n \in explicit' : Listed(n) =>
                 n \in DOMAIN store' /\ Root(n) \in store'[n].owners
<1>1. TypeOK /\ TrackingInv
  BY DEF OwnersInv
<1>2. /\ world' \in [Names -> Nat]
      /\ relies' = relies \cap (Installed' \X Installed')
      /\ explicit' = explicit \cap Installed' /\ ensured' = ensured \cap Installed'
  BY <1>1, PerformFacts DEF TypeOK
<1>3. relies' \subseteq relies /\ explicit' \subseteq explicit
  BY <1>2
<1>4. /\ \A r \in relies : Listed(r[2]) =>
            r[2] \in DOMAIN store /\ Pkg(r[1]) \in store[r[2]].owners
      /\ \A n \in explicit : Listed(n) => n \in DOMAIN store /\ Root(n) \in store[n].owners
      /\ relies \in SUBSET (Names \X Names) /\ explicit \in SUBSET Names
      /\ ensured \in SUBSET Names
  BY <1>1 DEF TrackingInv, TypeOK
<1> QED
  BY <1>2, <1>3, <1>4

LEMMA RecoverOwners ==
    ASSUME OwnersInv, Recover
    PROVE  OwnersInv'
<1> USE DEF round
<1>1. TypeOK /\ PhaseInv /\ ChangesInv /\ TrackingInv
  BY DEF OwnersInv
<1>2. PICK recovered \in SUBSET pending.packages :
        /\ Perform(pending.action, recovered)
        /\ IF recovered = pending.packages
           THEN /\ pc' = "execute"
                /\ pending' = NoPending
                /\ UNCHANGED <<command, disturbed>>
           ELSE /\ pc' = "idle"
                /\ \E rest \in SUBSET (pending.packages \ recovered) :
                      /\ rest # pending.packages \ recovered
                      /\ pending' = IF rest = {} THEN NoPending
                                    ELSE [pending EXCEPT !.packages = rest]
                /\ command' = NoCommand
                /\ disturbed' = TRUE
  BY DEF Recover
<1>3. /\ pc = "recover"
      /\ UNCHANGED <<store, ready, planned, done, records, syncing, entries, owning, orphans,
                     crashes>>
  BY DEF Recover
<1>4. /\ planned = {} /\ records = {} /\ done = {} /\ syncing = {} /\ entries = {}
      /\ owning = {} /\ orphans = {}
  BY <1>1, <1>3 DEF PhaseInv, TypeOK
<1>5. /\ pending.action \in Actions /\ recovered \in SUBSET Names
      /\ pending \in [action : Actions, packages : SUBSET Names]
  BY <1>1 DEF TypeOK
<1>6. /\ relies' \in SUBSET (Names \X Names) /\ explicit' \in SUBSET Names
      /\ ensured' \in SUBSET Names /\ world' \in [Names -> Nat]
      /\ relies' \subseteq Installed' \X Installed' /\ explicit' \subseteq Installed'
      /\ \A r \in relies' : Listed(r[2]) =>
            r[2] \in DOMAIN store' /\ Pkg(r[1]) \in store'[r[2]].owners
      /\ \A n \in explicit' : Listed(n) =>
            n \in DOMAIN store' /\ Root(n) \in store'[n].owners
  BY <1>2, <1>3, <1>5, PerformTracking
<1>7. /\ pc' \in {"idle", "execute"} /\ disturbed' \in BOOLEAN
      /\ pending' \in [action : Actions, packages : SUBSET Names]
      /\ command' \in {command, NoCommand}
  <2>1. CASE recovered = pending.packages
    BY <1>1, <1>2, <2>1 DEF NoPending, Actions, TypeOK
  <2>2. CASE recovered # pending.packages
    <3>1. PICK rest \in SUBSET (pending.packages \ recovered) :
             pending' = IF rest = {} THEN NoPending ELSE [pending EXCEPT !.packages = rest]
      BY <1>2, <2>2
    <3>2. [pending EXCEPT !.packages = rest] \in [action : Actions, packages : SUBSET Names]
      BY <1>5
    <3>3. NoPending \in [action : Actions, packages : SUBSET Names]
      BY DEF NoPending, Actions
    <3> QED
      BY <1>2, <2>2, <3>1, <3>2, <3>3
  <2> QED
    BY <2>1, <2>2
<1>8. /\ command' \in [action : Actions, direct : SUBSET Names, packages : SUBSET Names,
                       edges : SUBSET (Names \X Names)]
      /\ command'.direct \subseteq command'.packages
  BY <1>1, <1>7 DEF TypeOK, NoCommand, Actions
<1>9. TypeOK'
  BY <1>1, <1>3, <1>4, <1>6, <1>7, <1>8 DEF TypeOK
<1>10. PhaseInv'
  BY <1>3, <1>4, <1>7 DEF PhaseInv
<1>11. ChangesInv'
  BY <1>3, <1>4 DEF ChangesInv
<1>12. TrackingInv'
  BY <1>3, <1>4, <1>6, <1>7 DEF TrackingInv, Listed
<1> QED
  BY <1>9, <1>10, <1>11, <1>12 DEF OwnersInv

LEMMA ExecuteOwners ==
    ASSUME OwnersInv, Execute
    PROVE  OwnersInv'
<1>1. TypeOK /\ PhaseInv /\ ChangesInv /\ TrackingInv
  BY DEF OwnersInv
<1>2. PICK S \in SUBSET planned' :
        /\ Perform(command.action, S)
        /\ done' = S /\ records' = S
        /\ syncing' = {System[n] : n \in S}
        /\ pending' = IF S = planned' THEN NoPending
                      ELSE [action |-> command.action, packages |-> planned' \ S]
        /\ disturbed' = (disturbed \/ S # planned')
  BY DEF Execute
<1>3. /\ pc = "execute" /\ pc' = "sync"
      /\ planned' = Missing(command.action, command.packages)
      /\ UNCHANGED <<store, ready, command, entries, owning, orphans, crashes>>
  BY DEF Execute
<1>4. /\ entries = {} /\ owning = {} /\ orphans = {}
  BY <1>1, <1>3 DEF PhaseInv
<1>5. /\ command.action \in Actions /\ command.packages \in SUBSET Names
      /\ planned' \in SUBSET command.packages /\ S \in SUBSET Names
  <2>1. command.action \in Actions /\ command.packages \in SUBSET Names
    BY <1>1 DEF TypeOK
  <2>2. planned' \in SUBSET command.packages
    BY <1>3, <2>1, MissingTyped
  <2> QED
    BY <2>1, <2>2
<1>6. /\ relies' \in SUBSET (Names \X Names) /\ explicit' \in SUBSET Names
      /\ ensured' \in SUBSET Names /\ world' \in [Names -> Nat]
      /\ relies' \subseteq Installed' \X Installed' /\ explicit' \subseteq Installed'
      /\ \A r \in relies' : Listed(r[2]) =>
            r[2] \in DOMAIN store' /\ Pkg(r[1]) \in store'[r[2]].owners
      /\ \A n \in explicit' : Listed(n) =>
            n \in DOMAIN store' /\ Root(n) \in store'[n].owners
  BY <1>2, <1>3, <1>5, PerformTracking
<1>7. Installed' = IF Removing THEN Installed \ S ELSE Installed \cup S
  BY <1>1, <1>2, <1>5, PerformFacts DEF TypeOK, Removing
<1>8. TypeOK'
  <2>1. syncing' \in SUBSET Systems
    BY <1>2, <1>5, SystemAssumption
  <2>2. pending' \in [action : Actions, packages : SUBSET Names]
    BY <1>2, <1>5 DEF NoPending, Actions
  <2>3. disturbed' \in BOOLEAN
    BY <1>2
  <2> QED
    BY <1>1, <1>2, <1>3, <1>5, <1>6, <2>1, <2>2, <2>3 DEF TypeOK
<1>9. PhaseInv'
  <2>1. Removing' = Removing
    BY <1>3 DEF Removing
  <2>2. \A s \in syncing' : \E n \in records' : System[n] = s
    BY <1>2
  <2>3. IF Removing' THEN records' \cap Installed' = {}
                     ELSE records' = done' /\ done' \subseteq Installed'
    BY <1>2, <1>7, <2>1
  <2> QED
    BY <1>3, <1>4, <2>2, <2>3 DEF PhaseInv
<1>10. ChangesInv'
  BY <1>3, <1>4 DEF ChangesInv
<1>11. TrackingInv'
  BY <1>3, <1>4, <1>6 DEF TrackingInv, Listed
<1> QED
  BY <1>8, <1>9, <1>10, <1>11 DEF OwnersInv

-----------------------------------------------------------------------------
(* OwnersInv: the installed state and the owners.                          *)

LEMMA IdsDistinct ==
    /\ \A p, q \in Names : (Pkg(p) = Pkg(q) => p = q) /\ (Root(p) = Root(q) => p = q)
    /\ \A p, q : Pkg(p) # Root(q)
    /\ \A p \in Names : Pkg(p) \in Owners /\ Root(p) \in Owners
BY DEF Pkg, Root, Owners

LEMMA ListingTyped ==
    ASSUME world \in [Names -> Nat], NEW s \in Systems
    PROVE  /\ DOMAIN Listing(s) = IF s \in Unlisted THEN {} ELSE Installed \cap OfSystem(s)
           /\ DOMAIN Listing(s) \in SUBSET OfSystem(s)
           /\ Listing(s) \in [DOMAIN Listing(s) -> Nat]
           /\ \A n \in DOMAIN Listing(s) : Listing(s)[n] = world[n]
           /\ \A n \in Names : n \in DOMAIN Listing(s) <=> n \in Installed /\ Listed(n) /\ System[n] = s
BY DEF Listing, OfSystem, Installed, Listed

\* What a listing does to the entry of a package that is installed and listed, and
\* to one of another system.
LEMMA SyncStore ==
    ASSUME TypeOK, NEW s \in Systems, NEW new, new = ReplaceSystem(store, s, Listing(s))
    PROVE  /\ IsStore(new)
           /\ \A n \in Names : System[n] # s =>
                 /\ n \in DOMAIN new <=> n \in DOMAIN store
                 /\ n \in DOMAIN store => new[n] = store[n]
           /\ \A n \in Names : System[n] = s => (n \in DOMAIN new <=> n \in Installed /\ Listed(n))
           /\ \A n \in Names : System[n] = s /\ Listed(n) /\ n \in Installed =>
                 /\ new[n].version = world[n]
                 /\ n \in DOMAIN store => new[n].owners = store[n].owners
                 /\ n \notin DOMAIN store => new[n].owners = {}
<1> DEFINE listing == Listing(s)
           D == DOMAIN listing
<1>1. /\ D \in SUBSET OfSystem(s) /\ listing \in [D -> Nat]
      /\ \A n \in D : listing[n] = world[n]
      /\ \A n \in Names : n \in D <=> n \in Installed /\ Listed(n) /\ System[n] = s
      /\ IsStore(store) /\ new = ReplaceSystem(store, s, listing)
  BY ListingTyped DEF TypeOK
<1> HIDE DEF listing, D
<1>2. /\ IsStore(new)
      /\ \A n \in Names : System[n] # s =>
            /\ n \in DOMAIN new <=> n \in DOMAIN store
            /\ n \in DOMAIN store => new[n] = store[n]
      /\ \A n \in Names : System[n] = s => (n \in DOMAIN new <=> n \in D)
      /\ \A n \in D : /\ new[n].version = listing[n]
                      /\ n \in DOMAIN store => new[n].owners = store[n].owners
                      /\ n \notin DOMAIN store => new[n].owners = {}
  <2> DEFINE dom == (DOMAIN store \ OfSystem(s)) \cup D
             entry(n) == IF n \notin D THEN store[n]
                         ELSE [version |-> listing[n],
                               owners |-> IF n \in DOMAIN store THEN store[n].owners ELSE {}]
  <2>1. DOMAIN listing = D
    BY <1>1
  <2>2. DOMAIN store \subseteq Names /\ dom \subseteq Names
        /\ \A n \in DOMAIN store : store[n] \in Entries /\ store[n].owners \in SUBSET Owners
    BY <1>1 DEF IsStore, OfSystem, Entries
  <2>3. new = [n \in dom |-> entry(n)]
    BY <1>1, <2>1 DEF ReplaceSystem
  <2>4. \A n \in dom : entry(n) \in Entries
    BY <1>1, <2>2 DEF Entries
  <2>5. \A n \in Names : System[n] # s => n \notin OfSystem(s) /\ n \notin D
    BY <1>1 DEF OfSystem
  <2>6. \A n \in Names : System[n] = s => n \in OfSystem(s)
    BY DEF OfSystem
  <2>7. \A n \in D : /\ entry(n).version = listing[n]
                     /\ n \in DOMAIN store => entry(n).owners = store[n].owners
                     /\ n \notin DOMAIN store => entry(n).owners = {}
    OBVIOUS
  <2>8. \A n \in Names : n \notin D => entry(n) = store[n]
    OBVIOUS
  <2> HIDE DEF entry
  <2>9. DOMAIN new = dom /\ \A n \in dom : new[n] = entry(n)
    BY <2>3
  <2>10. IsStore(new)
    BY <2>2, <2>3, <2>4, <2>9 DEF IsStore
  <2>11. ASSUME NEW n \in Names, System[n] # s
         PROVE  (n \in DOMAIN new <=> n \in DOMAIN store) /\ (n \in DOMAIN store => new[n] = store[n])
    <3>1. n \notin OfSystem(s) /\ n \notin D /\ entry(n) = store[n]
      BY <2>5, <2>8, <2>11
    <3>2. n \in dom <=> n \in DOMAIN store
      BY <3>1
    <3> HIDE DEF dom
    <3> QED
      BY <2>9, <3>1, <3>2
  <2>12. \A n \in Names : System[n] = s => (n \in DOMAIN new <=> n \in D)
    BY <2>6, <2>9
  <2>13. \A n \in D : n \in dom
    OBVIOUS
  <2> HIDE DEF dom
  <2>14. ASSUME NEW n \in D
         PROVE  /\ new[n].version = listing[n]
                /\ n \in DOMAIN store => new[n].owners = store[n].owners
                /\ n \notin DOMAIN store => new[n].owners = {}
    <3>1. new[n] = entry(n)
      BY <2>9, <2>13
    <3> QED
      BY <2>7, <3>1
  <2> QED
    BY <2>10, <2>11, <2>12, <2>14
<1> QED
  BY <1>1, <1>2

LEMMA SyncOwners ==
    ASSUME OwnersInv, NEW s \in Systems, Sync(s)
    PROVE  OwnersInv'
<1> USE DEF machine
<1>1. TypeOK /\ PhaseInv /\ ChangesInv /\ TrackingInv
  BY DEF OwnersInv
<1>2. /\ pc = "sync" /\ s \in syncing /\ syncing' = syncing \ {s}
      /\ UNCHANGED <<world, relies, explicit, ensured, ready, pc, command, planned, done,
                     records, owning, orphans, pending, crashes, disturbed>>
  BY DEF Sync
<1>3. /\ Installed' = Installed /\ Removing' = Removing
  BY <1>2 DEF Installed, Removing
<1>4. CASE SyncAllowed(s)
  <2>1. store' = ReplaceSystem(store, s, Listing(s)) /\ entries' = entries
    BY <1>4 DEF Sync
  <2>2. /\ IsStore(store')
        /\ \A n \in Names : System[n] # s =>
              /\ n \in DOMAIN store' <=> n \in DOMAIN store
              /\ n \in DOMAIN store => store'[n] = store[n]
        /\ \A n \in Names : System[n] = s => (n \in DOMAIN store' <=> n \in Installed /\ Listed(n))
        /\ \A n \in Names : System[n] = s /\ Listed(n) /\ n \in Installed =>
              (n \in DOMAIN store => store'[n].owners = store[n].owners)
    BY <1>1, <2>1, SyncStore
  <2>3. TypeOK'
    BY <1>1, <1>2, <2>1, <2>2 DEF TypeOK
  <2>4. PhaseInv'
    BY <1>1, <1>2, <1>3, <2>1 DEF PhaseInv, Listed
  <2>5. ChangesInv'
    BY <1>1, <1>2 DEF ChangesInv, PhaseInv
  <2>6. \A n \in Names : n \in Installed /\ Listed(n) /\ n \in DOMAIN store =>
           n \in DOMAIN store' /\ store'[n].owners = store[n].owners
    BY <2>2
  <2>7. TrackingInv'
    <3>1. /\ relies \in SUBSET (Names \X Names) /\ explicit \in SUBSET Names
          /\ explicit \subseteq Installed /\ relies \subseteq Installed \X Installed
      BY <1>1, <1>2 DEF TypeOK, TrackingInv
    <3>2. \A r \in relies : r[1] \in Installed /\ r[2] \in Installed /\ r[2] \in Names
      BY <3>1
    <3>3. \A r \in relies : Listed(r[2]) =>
             r[2] \in DOMAIN store' /\ Pkg(r[1]) \in store'[r[2]].owners
      BY <1>1, <2>6, <3>2 DEF TrackingInv
    <3>4. \A n \in explicit : Listed(n) => n \in DOMAIN store' /\ Root(n) \in store'[n].owners
      BY <1>1, <2>6, <3>1 DEF TrackingInv
    <3>5. orphans = {}
      BY <1>1, <1>2 DEF PhaseInv
    <3> QED
      BY <1>2, <1>3, <3>1, <3>3, <3>4, <3>5 DEF TrackingInv, Listed
  <2> QED
    BY <2>3, <2>4, <2>5, <2>7 DEF OwnersInv
<1>5. CASE ~SyncAllowed(s)
  <2>1. store' = store /\ entries' = entries \cup (records \cap OfSystem(s))
    BY <1>5 DEF Sync
  <2>2. \A n \in records \cap OfSystem(s) : ~Listed(n)
    <3>1. DOMAIN Listing(s) = {} /\ ~Removing
      BY <1>5 DEF SyncAllowed, Removing
    <3>2. records \subseteq Installed
      BY <1>1, <3>1 DEF PhaseInv
    <3>3. \A n \in Names : n \in DOMAIN Listing(s) <=> n \in Installed /\ Listed(n) /\ System[n] = s
      BY <1>1, ListingTyped DEF TypeOK
    <3> QED
      BY <3>1, <3>2, <3>3 DEF OfSystem
  <2>3. TypeOK'
    BY <1>1, <1>2, <2>1 DEF TypeOK
  <2>4. PhaseInv'
    <3>1. \A n \in entries' : ~Listed(n)
      BY <1>1, <2>1, <2>2 DEF PhaseInv
    <3> QED
      BY <1>1, <1>2, <1>3, <3>1 DEF PhaseInv, Listed
  <2>5. ChangesInv'
    BY <1>1, <1>2 DEF ChangesInv, PhaseInv
  <2>6. TrackingInv'
    BY <1>1, <1>2, <1>3, <2>1 DEF TrackingInv, Listed
  <2> QED
    BY <2>3, <2>4, <2>5, <2>6 DEF OwnersInv
<1> QED
  BY <1>4, <1>5

\* Entries are written one by one only for systems that cannot be listed.
LEMMA UpdateEntryStore ==
    ASSUME OwnersInv, NEW n \in Names, UpdateEntry(n)
    PROVE  /\ IsStore(store') /\ ~Listed(n)
           /\ \A m \in Names : Listed(m) => /\ m \in DOMAIN store' <=> m \in DOMAIN store
                                            /\ m \in DOMAIN store => store'[m] = store[m]
<1>1. ~Listed(n) /\ IsStore(store)
  BY DEF UpdateEntry, OwnersInv, PhaseInv, TypeOK
<1>2. store' = RemoveEntry(store, n) \/ store' = UpsertEntry(store, n)
  BY DEF UpdateEntry
<1>3. \A m \in Names : Listed(m) => m # n
  BY <1>1
<1>4. IsStore(store') /\ \A m \in Names : m # n =>
         /\ m \in DOMAIN store' <=> m \in DOMAIN store
         /\ m \in DOMAIN store => store'[m] = store[m]
  <2>1. CASE store' = RemoveEntry(store, n)
    <3> DEFINE new == RemoveEntry(store, n)
    <3>1. IsStore(new) /\ \A m \in Names : m # n =>
             /\ m \in DOMAIN new <=> m \in DOMAIN store
             /\ m \in DOMAIN store => new[m] = store[m]
      BY <1>1, RemoveFacts
    <3> HIDE DEF new
    <3>2. store' = new
      BY <2>1 DEF new
    <3> QED
      BY <3>1, <3>2
  <2>2. CASE store' = UpsertEntry(store, n)
    <3> DEFINE new == UpsertEntry(store, n)
    <3>1. IsStore(new) /\ \A m \in Names : m # n =>
             /\ m \in DOMAIN new <=> m \in DOMAIN store
             /\ m \in DOMAIN store => new[m] = store[m]
      BY <1>1, UpsertFacts
    <3> HIDE DEF new
    <3>2. store' = new
      BY <2>2 DEF new
    <3> QED
      BY <3>1, <3>2
  <2> QED
    BY <1>2, <2>1, <2>2
<1> QED
  BY <1>1, <1>3, <1>4

LEMMA UpdateEntryOwners ==
    ASSUME OwnersInv, NEW n \in Names, UpdateEntry(n)
    PROVE  OwnersInv'
<1> USE DEF machine
<1>1. TypeOK /\ PhaseInv /\ ChangesInv /\ TrackingInv
  BY DEF OwnersInv
<1>2. /\ pc = "sync" /\ entries' = entries \ {n}
      /\ UNCHANGED <<world, relies, explicit, ensured, ready, pc, command, planned, done,
                     records, syncing, owning, orphans, pending, crashes, disturbed>>
  BY DEF UpdateEntry
<1>3. /\ Installed' = Installed /\ Removing' = Removing
  BY <1>2 DEF Installed, Removing
<1>4. /\ IsStore(store')
      /\ \A m \in Names : Listed(m) => /\ m \in DOMAIN store' <=> m \in DOMAIN store
                                       /\ m \in DOMAIN store => store'[m] = store[m]
  BY UpdateEntryStore
<1>5. TypeOK'
  BY <1>1, <1>2, <1>4 DEF TypeOK
<1>6. PhaseInv'
  BY <1>1, <1>2, <1>3 DEF PhaseInv, Listed
<1>7. ChangesInv'
  BY <1>1, <1>2 DEF ChangesInv, PhaseInv
<1>8. TrackingInv'
  <2>1. /\ relies \in SUBSET (Names \X Names) /\ explicit \in SUBSET Names
        /\ explicit \subseteq Installed /\ relies \subseteq Installed \X Installed
    BY <1>1, <1>2 DEF TypeOK, TrackingInv
  <2>2. \A r \in relies : r[2] \in Names
    BY <2>1
  <2>3. \A r \in relies : Listed(r[2]) =>
           r[2] \in DOMAIN store' /\ Pkg(r[1]) \in store'[r[2]].owners
    BY <1>1, <1>4, <2>2 DEF TrackingInv
  <2>4. \A m \in explicit : Listed(m) => m \in DOMAIN store' /\ Root(m) \in store'[m].owners
    BY <1>1, <1>4, <2>1 DEF TrackingInv
  <2>5. orphans = {}
    BY <1>1, <1>2 DEF PhaseInv
  <2> QED
    BY <1>2, <1>3, <2>1, <2>3, <2>4, <2>5 DEF TrackingInv, Listed
<1> QED
  BY <1>5, <1>6, <1>7, <1>8 DEF OwnersInv

LEMMA OwnerChangesMember ==
    \A c : c \in OwnerChanges <=>
        IF Removing THEN \E n \in records : c \in Subtracts(n)
                    ELSE \E n \in Kept : c \in Merges(n)
<1> SUFFICES ASSUME NEW c
             PROVE  c \in OwnerChanges <=>
                       IF Removing THEN \E n \in records : c \in Subtracts(n)
                                   ELSE \E n \in Kept : c \in Merges(n)
  OBVIOUS
<1>1. c \in UNION {Subtracts(n) : n \in records} <=> \E n \in records : c \in Subtracts(n)
  BY Zenon
<1>2. c \in UNION {Merges(n) : n \in Kept} <=> \E n \in Kept : c \in Merges(n)
  BY Zenon
<1> QED
  BY <1>1, <1>2 DEF OwnerChanges, Removing

\* The change that enters package n as an owner of d, and the one for n itself.
DependencyChange(n, d) == [op |-> "merge", name |-> d, owners |-> {Pkg(n)}]
PackageChange(n) ==
    [op |-> "merge", name |-> n,
     owners |-> NeededBy(n) \cup (IF n \in command.direct THEN {Root(n)} ELSE {})]

LEMMA MergesMember ==
    ASSUME NEW n, NEW c
    PROVE  c \in Merges(n) <=> c = PackageChange(n)
                               \/ \E d \in RequirementsOf(n) : c = DependencyChange(n, d)
BY DEF Merges, PackageChange, DependencyChange

LEMMA NeededByMember ==
    ASSUME NEW n \in Names, NEW id, id \in NeededBy(n)
    PROVE  \E q \in command.packages : id = Pkg(q) /\ n \in RequirementsOf(q)
BY DEF NeededBy

LEMMA ReconcileOwners ==
    ASSUME OwnersInv, Reconcile
    PROVE  OwnersInv'
<1> USE DEF machine
<1>1. TypeOK /\ PhaseInv /\ ChangesInv /\ TrackingInv
  BY DEF OwnersInv
<1>2. /\ pc = "sync" /\ pc' = "owners" /\ owning' = OwnerChanges
      /\ syncing = {} /\ entries = {}
      /\ UNCHANGED <<world, relies, explicit, ensured, store, ready, command, planned, done,
                     records, syncing, entries, orphans, pending, crashes, disturbed>>
  BY DEF Reconcile
<1>3. /\ Installed' = Installed /\ Removing' = Removing /\ Kept' = Kept
  BY <1>2 DEF Installed, Removing, Kept
<1>4. /\ records \in SUBSET Names /\ Kept \in SUBSET command.packages
      /\ command.packages \in SUBSET Names
  BY <1>1 DEF TypeOK, Kept
<1>5. ASSUME NEW c \in owning'
      PROVE  /\ c \in Changes
             /\ IF Removing
                THEN c.op = "subtract" /\ \E n \in records : c.owners = {Pkg(n)}
                ELSE /\ c.op = "merge"
                     /\ \A q \in Names : Pkg(q) \in c.owners =>
                           q \in command.packages /\ c.name \in RequirementsOf(q)
                     /\ \A d \in Names : Root(d) \in c.owners =>
                           d = c.name /\ d \in command.direct \cap Kept
  <2>1. CASE Removing
    <3>1. PICK n \in records : c \in Subtracts(n)
      BY <1>2, <2>1, OwnerChangesMember
    <3>2. PICK d \in RequirementsOf(n) : c = [op |-> "subtract", name |-> d, owners |-> {Pkg(n)}]
      BY <3>1 DEF Subtracts
    <3>3. d \in Names /\ {Pkg(n)} \in SUBSET Owners
      BY <1>4, RequirementsTyped, IdsDistinct
    <3> QED
      BY <2>1, <3>2, <3>3 DEF Changes
  <2>2. CASE ~Removing
    <3>1. PICK n \in Kept : c \in Merges(n)
      BY <1>2, <2>2, OwnerChangesMember
    <3>2. n \in Names
      BY <1>4
    <3>3. CASE c = PackageChange(n)
      <4>1. \A id \in NeededBy(n) : \E q \in command.packages : id = Pkg(q) /\ n \in RequirementsOf(q)
        BY <3>2, NeededByMember
      <4>2. NeededBy(n) \in SUBSET Owners
        BY <1>4, <4>1, IdsDistinct
      <4>3. /\ c.op = "merge" /\ c.name = n
            /\ c.owners = NeededBy(n) \cup (IF n \in command.direct THEN {Root(n)} ELSE {})
        BY <3>3 DEF PackageChange
      <4>4. c.owners \in SUBSET Owners
        BY <3>2, <4>2, <4>3, IdsDistinct
      <4>5. c \in Changes
        BY <3>2, <3>3, <4>3, <4>4 DEF PackageChange, Changes
      <4>6. \A q \in Names : Pkg(q) \in c.owners => q \in command.packages /\ n \in RequirementsOf(q)
        BY <1>4, <3>2, <4>1, <4>3, IdsDistinct
      <4>7. \A d \in Names : Root(d) \in c.owners => d = n /\ n \in command.direct
        BY <1>4, <3>2, <4>1, <4>3, IdsDistinct
      <4> QED
        BY <2>2, <3>1, <4>3, <4>5, <4>6, <4>7
    <3>4. ASSUME NEW d \in RequirementsOf(n), c = DependencyChange(n, d)
          PROVE  /\ c \in Changes /\ c.op = "merge"
                 /\ \A q \in Names : Pkg(q) \in c.owners =>
                       q \in command.packages /\ c.name \in RequirementsOf(q)
                 /\ \A m \in Names : Root(m) \notin c.owners
      <4>1. d \in Names /\ {Pkg(n)} \in SUBSET Owners
        BY <3>2, RequirementsTyped, IdsDistinct
      <4>2. c.op = "merge" /\ c.name = d /\ c.owners = {Pkg(n)} /\ c \in Changes
        BY <3>4, <4>1 DEF DependencyChange, Changes
      <4> QED
        BY <1>4, <3>1, <3>2, <4>1, <4>2, IdsDistinct
    <3> QED
      BY <2>2, <3>1, <3>3, <3>4, MergesMember
  <2> QED
    BY <2>1, <2>2
<1>6. TypeOK'
  <2>1. owning' \in SUBSET Changes
    BY <1>5
  <2> QED
    BY <1>1, <1>2, <2>1 DEF TypeOK
<1>7. PhaseInv'
  BY <1>1, <1>2, <1>3 DEF PhaseInv, Listed
<1>8. ChangesInv'
  BY <1>2, <1>3, <1>5 DEF ChangesInv
<1>9. ASSUME ~Removing, NEW n \in Kept
      PROVE  /\ \A d \in RequirementsOf(n) : \E c \in owning' : c.name = d /\ Pkg(n) \in c.owners
             /\ n \in command.direct => \E c \in owning' : c.name = n /\ Root(n) \in c.owners
  <2>1. ASSUME NEW d \in RequirementsOf(n)
        PROVE  \E c \in owning' : c.name = d /\ Pkg(n) \in c.owners
    <3>1. DependencyChange(n, d) \in owning'
      BY <1>2, <1>9, OwnerChangesMember, MergesMember
    <3>2. DependencyChange(n, d).name = d /\ Pkg(n) \in DependencyChange(n, d).owners
      BY DEF DependencyChange
    <3> QED
      BY <3>1, <3>2
  <2>2. ASSUME n \in command.direct
        PROVE  \E c \in owning' : c.name = n /\ Root(n) \in c.owners
    <3>1. PackageChange(n) \in owning'
      BY <1>2, <1>9, OwnerChangesMember, MergesMember
    <3>2. PackageChange(n).name = n /\ Root(n) \in PackageChange(n).owners
      BY <2>2 DEF PackageChange
    <3> QED
      BY <3>1, <3>2
  <2> QED
    BY <2>1, <2>2
<1>10. TrackingInv'
  <2>1. orphans = {}
    BY <1>1, <1>2 DEF PhaseInv
  <2>2. ~Removing => \A n \in Kept :
          /\ \A d \in RequirementsOf(n) : Entered(Pkg(n), d)'
          /\ n \in command.direct => Entered(Root(n), n)'
    BY <1>9 DEF Entered
  <2>3. explicit \subseteq Installed
    BY <1>1, <1>2 DEF TrackingInv
  <2> QED
    BY <1>1, <1>2, <1>3, <2>1, <2>2, <2>3 DEF TrackingInv, Listed
<1> QED
  BY <1>6, <1>7, <1>8, <1>10 DEF OwnersInv

\* What one change of owners does to the installed state.
LEMMA ChangeStore ==
    ASSUME OwnersInv, ChangeOwners
    PROVE  \E c \in owning :
              /\ owning' = owning \ {c}
              /\ IsStore(store') /\ DOMAIN store' = DOMAIN store
              /\ \A m \in DOMAIN store :
                    /\ store'[m].version = store[m].version
                    /\ store'[m].owners = IF m # c.name THEN store[m].owners
                                          ELSE IF Removing THEN store[m].owners \ c.owners
                                          ELSE store[m].owners \cup c.owners
<1> DEFINE c == CHOOSE x \in owning : TRUE
<1>1. owning # {} /\ IsStore(store) /\ owning \in SUBSET Changes
  BY DEF ChangeOwners, OwnersInv, TypeOK
<1>2. c \in owning
  BY <1>1
<1>3. /\ owning' = owning \ {c}
      /\ store' = IF c.op = "merge" THEN MergeOwners(store, c.name, c.owners)
                  ELSE SubtractOwners(store, c.name, c.owners)
  BY DEF ChangeOwners
<1> HIDE DEF c
<1>4. c.name \in Names /\ c.owners \in SUBSET Owners
  BY <1>1, <1>2 DEF Changes
<1>5. IF Removing THEN c.op = "subtract" ELSE c.op = "merge"
  BY <1>2 DEF OwnersInv, ChangesInv
<1>6. CASE Removing
  <2> DEFINE new == SubtractOwners(store, c.name, c.owners)
  <2>1. store' = new
    BY <1>3, <1>5, <1>6
  <2>2. /\ IsStore(new) /\ DOMAIN new = DOMAIN store
        /\ \A m \in DOMAIN store :
              /\ new[m].version = store[m].version
              /\ new[m].owners = IF m = c.name THEN store[m].owners \ c.owners
                                 ELSE store[m].owners
    BY <1>1, <1>4, SubtractFacts
  <2> HIDE DEF new
  <2> QED
    BY <1>2, <1>3, <1>6, <2>1, <2>2
<1>7. CASE ~Removing
  <2> DEFINE new == MergeOwners(store, c.name, c.owners)
  <2>1. store' = new
    BY <1>3, <1>5, <1>7
  <2>2. /\ IsStore(new) /\ DOMAIN new = DOMAIN store
        /\ \A m \in DOMAIN store :
              /\ new[m].version = store[m].version
              /\ new[m].owners = IF m = c.name THEN store[m].owners \cup c.owners
                                 ELSE store[m].owners
    BY <1>1, <1>4, MergeFacts
  <2> HIDE DEF new
  <2> QED
    BY <1>2, <1>3, <1>7, <2>1, <2>2
<1> QED
  BY <1>6, <1>7

LEMMA ChangeOwnersOwners ==
    ASSUME OwnersInv, ChangeOwners
    PROVE  OwnersInv'
<1> USE DEF machine
<1>1. TypeOK /\ PhaseInv /\ ChangesInv /\ TrackingInv
  BY DEF OwnersInv
<1>2. PICK c \in owning :
        /\ owning' = owning \ {c}
        /\ IsStore(store') /\ DOMAIN store' = DOMAIN store
        /\ \A m \in DOMAIN store :
              store'[m].owners = IF m # c.name THEN store[m].owners
                                 ELSE IF Removing THEN store[m].owners \ c.owners
                                 ELSE store[m].owners \cup c.owners
  BY ChangeStore
<1>3. /\ pc = "owners"
      /\ UNCHANGED <<world, relies, explicit, ensured, ready, pc, command, planned, done,
                     records, syncing, entries, orphans, pending, crashes, disturbed>>
  BY DEF ChangeOwners
<1>4. /\ Installed' = Installed /\ Removing' = Removing /\ Kept' = Kept
  BY <1>3 DEF Installed, Removing, Kept
<1>5. TypeOK'
  BY <1>1, <1>2, <1>3 DEF TypeOK
<1>6. PhaseInv'
  BY <1>1, <1>3, <1>4 DEF PhaseInv, Listed
<1>7. ChangesInv'
  BY <1>1, <1>2, <1>3, <1>4 DEF ChangesInv
<1>8. \A m \in DOMAIN store : \A id :
         id \in store[m].owners /\ (Removing => id \notin c.owners) => id \in store'[m].owners
  BY <1>2
<1>9. /\ relies \in SUBSET (Names \X Names) /\ explicit \in SUBSET Names
      /\ explicit \subseteq Installed /\ relies \subseteq Installed \X Installed
      /\ records \in SUBSET Names
  BY <1>1, <1>3 DEF TypeOK, TrackingInv
<1>10. ASSUME Removing
       PROVE  /\ \A p \in Installed : Pkg(p) \notin c.owners
              /\ \A p \in Names : Root(p) \notin c.owners
  <2>1. PICK n \in records : c.owners = {Pkg(n)}
    BY <1>1, <1>10 DEF ChangesInv
  <2>2. n \notin Installed /\ n \in Names
    BY <1>1, <1>9, <1>10 DEF PhaseInv
  <2>3. \A p \in Installed : p \in Names
    BY DEF Installed
  <2> QED
    BY <2>1, <2>2, <2>3, IdsDistinct
<1>11. \A r \in relies : Listed(r[2]) =>
          r[2] \in DOMAIN store' /\ Pkg(r[1]) \in store'[r[2]].owners
  <2> SUFFICES ASSUME NEW r \in relies, Listed(r[2])
               PROVE  r[2] \in DOMAIN store' /\ Pkg(r[1]) \in store'[r[2]].owners
    OBVIOUS
  <2>1. r[2] \in DOMAIN store /\ Pkg(r[1]) \in store[r[2]].owners
    BY <1>1 DEF TrackingInv
  <2>2. r[1] \in Installed
    BY <1>9
  <2> QED
    BY <1>2, <1>8, <1>10, <2>1, <2>2
<1>12. \A n \in explicit : Listed(n) => n \in DOMAIN store' /\ Root(n) \in store'[n].owners
  <2> SUFFICES ASSUME NEW n \in explicit, Listed(n)
               PROVE  n \in DOMAIN store' /\ Root(n) \in store'[n].owners
    OBVIOUS
  <2>1. n \in DOMAIN store /\ Root(n) \in store[n].owners /\ n \in Names
    BY <1>1, <1>9 DEF TrackingInv
  <2> QED
    BY <1>2, <1>8, <1>10, <2>1
<1>13. ASSUME ~Removing, NEW id, NEW n, Entered(id, n) PROVE Entered(id, n)'
  <2> SUFFICES ASSUME n \in DOMAIN store'
               PROVE  \/ id \in store'[n].owners
                      \/ \E x \in owning' : x.name = n /\ id \in x.owners
    BY DEF Entered
  <2>1. n \in DOMAIN store
    BY <1>2
  <2>2. CASE id \in store[n].owners
    BY <1>8, <1>13, <2>1, <2>2
  <2>3. ASSUME NEW x \in owning, x.name = n, id \in x.owners
        PROVE  \/ id \in store'[n].owners
               \/ \E y \in owning' : y.name = n /\ id \in y.owners
    <3>1. CASE x = c
      BY <1>2, <1>13, <2>1, <2>3, <3>1
    <3>2. CASE x # c
      BY <1>2, <2>3, <3>2
    <3> QED
      BY <3>1, <3>2
  <2> QED
    BY <1>13, <2>1, <2>2, <2>3 DEF Entered
<1>14. ~Removing => \A n \in Kept :
          /\ \A d \in RequirementsOf(n) : Entered(Pkg(n), d)'
          /\ n \in command.direct => Entered(Root(n), n)'
  BY <1>1, <1>3, <1>13 DEF TrackingInv
<1>15. orphans = {}
  BY <1>1, <1>3 DEF PhaseInv
<1>16. TrackingInv'
  BY <1>3, <1>4, <1>9, <1>11, <1>12, <1>14, <1>15 DEF TrackingInv, Listed
<1> QED
  BY <1>5, <1>6, <1>7, <1>16 DEF OwnersInv

-----------------------------------------------------------------------------
(* OwnersInv: orphans, the end of a command, and a crash.                  *)

LEMMA FindOrphansMember ==
    \A d : d \in FindOrphans <=>
        Removing /\ Orphaned(d) /\ \E n \in records : d \in RequirementsOf(n)
<1> SUFFICES ASSUME NEW d
             PROVE  d \in FindOrphans <=>
                       Removing /\ Orphaned(d) /\ \E n \in records : d \in RequirementsOf(n)
  OBVIOUS
<1> DEFINE needed == UNION {RequirementsOf(n) : n \in records}
<1>1. d \in needed <=> \E n \in records : d \in RequirementsOf(n)
  BY Zenon
<1> HIDE DEF needed
<1>2. FindOrphans = IF Removing THEN {x \in needed : Orphaned(x)} ELSE {}
  BY DEF FindOrphans, Removing, needed
<1> QED
  BY <1>1, <1>2

LEMMA DecideOwners ==
    ASSUME OwnersInv, DecideOrphans
    PROVE  OwnersInv'
<1> USE DEF machine
<1>1. TypeOK /\ PhaseInv /\ ChangesInv /\ TrackingInv
  BY DEF OwnersInv
<1>2. /\ pc = "owners" /\ owning = {} /\ pc' = "orphans" /\ records' = {}
      /\ orphans' = FindOrphans /\ FindOrphans # {}
      /\ UNCHANGED <<world, relies, explicit, ensured, store, ready, command, planned, done,
                     syncing, entries, owning, pending, crashes, disturbed>>
  BY DEF DecideOrphans
<1>3. Removing /\ Removing' = Removing /\ Installed' = Installed
  BY <1>2, FindOrphansMember DEF Removing, Installed
<1>4. records \in SUBSET Names
  BY <1>1 DEF TypeOK
<1>5. \A d \in orphans' : /\ d \in Names /\ (\E s \in Systems : d \in Requires[s])
                          /\ d \in DOMAIN store /\ store[d].owners = {}
  BY <1>2, <1>4, FindOrphansMember, RequirementsTyped DEF Orphaned
<1>6. TypeOK'
  <2>1. orphans' \in SUBSET Names
    BY <1>5
  <2> QED
    BY <1>1, <1>2, <2>1 DEF TypeOK
<1>7. PhaseInv'
  <2>1. syncing = {} /\ entries = {}
    BY <1>1, <1>2 DEF PhaseInv
  <2>2. \A d \in orphans' : \E s \in Systems : d \in Requires[s]
    BY <1>5
  <2> QED
    BY <1>2, <1>3, <2>1, <2>2 DEF PhaseInv
<1>8. ChangesInv'
  BY <1>2 DEF ChangesInv
<1>9. TrackingInv'
  <2>1. \A d \in orphans' : Listed(d) => d \notin explicit /\ \A r \in relies : r[2] # d
    BY <1>1, <1>5 DEF TrackingInv
  <2>2. explicit \subseteq Installed
    BY <1>1, <1>2 DEF TrackingInv
  <2> QED
    BY <1>1, <1>2, <1>3, <2>1, <2>2 DEF TrackingInv, Listed
<1> QED
  BY <1>6, <1>7, <1>8, <1>9 DEF OwnersInv

LEMMA RemoveOrphansOwners ==
    ASSUME OwnersInv, NEW s \in Systems, RemoveOrphans(s)
    PROVE  OwnersInv'
<1>1. TypeOK /\ PhaseInv /\ ChangesInv /\ TrackingInv
  BY DEF OwnersInv
<1> DEFINE batch == orphans \cap OfSystem(s)
<1>2. /\ pc = "orphans" /\ orphans' = orphans \ batch
      /\ UNCHANGED <<store, ready, pc, command, planned, done, syncing, entries, owning,
                     pending, crashes>>
  BY DEF RemoveOrphans
<1>3. PICK S \in SUBSET batch :
         /\ Perform("remove", S)
         /\ (S = batch /\ records' = records \cup batch /\ disturbed' = disturbed)
            \/ (records' = records /\ disturbed' = TRUE)
  BY DEF RemoveOrphans
<1>4. batch \in SUBSET Names /\ S \in SUBSET Names /\ "remove" \in Actions
  BY <1>1 DEF TypeOK, Actions
<1> HIDE DEF batch
<1>5. /\ relies' \in SUBSET (Names \X Names) /\ explicit' \in SUBSET Names
      /\ ensured' \in SUBSET Names /\ world' \in [Names -> Nat]
      /\ relies' \subseteq relies /\ explicit' \subseteq explicit
      /\ relies' \subseteq Installed' \X Installed' /\ explicit' \subseteq Installed'
      /\ \A r \in relies' : Listed(r[2]) =>
            r[2] \in DOMAIN store' /\ Pkg(r[1]) \in store'[r[2]].owners
      /\ \A n \in explicit' : Listed(n) =>
            n \in DOMAIN store' /\ Root(n) \in store'[n].owners
  BY <1>2, <1>3, <1>4, PerformTracking
<1>6. Installed' = Installed \ S
  BY <1>1, <1>3, <1>4, PerformFacts DEF TypeOK
<1>7. Removing /\ Removing' /\ records \cap Installed = {}
  BY <1>1, <1>2 DEF PhaseInv, Removing
<1>8. records' \in SUBSET Names /\ records' \cap Installed' = {} /\ disturbed' \in BOOLEAN
  BY <1>1, <1>3, <1>4, <1>6, <1>7 DEF TypeOK
<1>9. TypeOK'
  BY <1>1, <1>2, <1>5, <1>8 DEF TypeOK
<1>10. PhaseInv'
  BY <1>1, <1>2, <1>7, <1>8 DEF PhaseInv, Listed
<1>11. ChangesInv'
  BY <1>1, <1>2 DEF ChangesInv, PhaseInv
<1>12. TrackingInv'
  <2>1. \A d \in orphans' : Listed(d) => d \notin explicit' /\ \A r \in relies' : r[2] # d
    BY <1>1, <1>2, <1>5 DEF TrackingInv
  <2> QED
    BY <1>2, <1>5, <2>1 DEF TrackingInv, Listed
<1> QED
  BY <1>9, <1>10, <1>11, <1>12 DEF OwnersInv

LEMMA NextRoundOwners ==
    ASSUME OwnersInv, NextRound
    PROVE  OwnersInv'
<1> USE DEF machine
<1>1. TypeOK /\ PhaseInv /\ ChangesInv /\ TrackingInv
  BY DEF OwnersInv
<1>2. /\ pc = "orphans" /\ pc' = "sync" /\ orphans = {}
      /\ syncing' = {System[n] : n \in records}
      /\ UNCHANGED <<world, relies, explicit, ensured, store, ready, command, planned, done,
                     records, entries, owning, orphans, pending, crashes, disturbed>>
  BY DEF NextRound
<1>3. Removing' = Removing /\ Installed' = Installed
  BY <1>2 DEF Removing, Installed
<1>4. TypeOK'
  <2>1. syncing' \in SUBSET Systems
    BY <1>1, <1>2, SystemAssumption DEF TypeOK
  <2> QED
    BY <1>1, <1>2, <2>1 DEF TypeOK
<1>5. PhaseInv'
  BY <1>1, <1>2, <1>3 DEF PhaseInv, Listed
<1>6. ChangesInv'
  BY <1>1, <1>2 DEF ChangesInv, PhaseInv
<1>7. TrackingInv'
  BY <1>1, <1>2, <1>3 DEF TrackingInv, Listed
<1> QED
  BY <1>4, <1>5, <1>6, <1>7 DEF OwnersInv

\* A command that has ended, one way or the other, leaves nothing under way.
LEMMA ForgetOwners ==
    ASSUME OwnersInv, Forget, UNCHANGED <<world, store, ready>>,
           relies' \in SUBSET (Installed \X Installed), explicit' \in SUBSET Names,
           ensured' \in SUBSET Names,
           pending' \in [action : Actions, packages : SUBSET Names],
           crashes' \in 0 .. MaxCrashes, disturbed' \in BOOLEAN,
           \A r \in relies' : Listed(r[2]) =>
              r[2] \in DOMAIN store /\ Pkg(r[1]) \in store[r[2]].owners,
           \A n \in explicit' : Listed(n) => n \in DOMAIN store /\ Root(n) \in store[n].owners
    PROVE  OwnersInv'
<1>1. /\ pc' = "idle" /\ command' = NoCommand /\ planned' = {} /\ done' = {} /\ records' = {}
      /\ syncing' = {} /\ entries' = {} /\ owning' = {} /\ orphans' = {}
  BY DEF Forget
<1>2. Installed' = Installed /\ Installed \in SUBSET Names
  BY DEF Installed
<1>3. TypeOK'
  <2>1. relies' \in SUBSET (Names \X Names)
    BY <1>2
  <2>2. command' \in [action : Actions, direct : SUBSET Names, packages : SUBSET Names,
                      edges : SUBSET (Names \X Names)] /\ command'.direct \subseteq command'.packages
    BY <1>1 DEF NoCommand, Actions
  <2> QED
    BY <1>1, <2>1, <2>2 DEF OwnersInv, TypeOK
<1>4. PhaseInv'
  BY <1>1 DEF PhaseInv
<1>5. ChangesInv'
  BY <1>1 DEF ChangesInv
<1>6. TrackingInv'
  BY <1>1, <1>2 DEF TrackingInv, Listed
<1> QED
  BY <1>3, <1>4, <1>5, <1>6 DEF OwnersInv

LEMMA FinishOwners ==
    ASSUME OwnersInv, Finish
    PROVE  OwnersInv'
<1>1. TypeOK /\ PhaseInv /\ ChangesInv /\ TrackingInv
  BY DEF OwnersInv
<1> DEFINE newRelies == {r \in done \X Installed :
                 InstallLike(command.action) /\ r[2] \in RequirementsOf(r[1])
                                             /\ r[2] \in DOMAIN store}
           newExplicit == {n \in command.direct \cap Kept :
                 InstallLike(command.action) /\ n \in DOMAIN store}
<1>2. /\ pc = "owners" /\ owning = {} /\ Forget
      /\ UNCHANGED <<world, store, ready, crashes, disturbed>>
      /\ relies' = relies \cup newRelies /\ explicit' = explicit \cup newExplicit
      /\ ensured' = ensured \cup {n \in done : command.action = "ensure"}
  BY DEF Finish
<1>3. pending' \in [action : Actions, packages : SUBSET Names]
  <2>1. CASE pending.packages = {}
    BY <1>1, <2>1 DEF Finish, TypeOK
  <2>2. CASE pending.packages # {}
    <3>1. PICK rest \in SUBSET pending.packages :
             pending' = IF rest = {} THEN NoPending ELSE [pending EXCEPT !.packages = rest]
      BY <2>2 DEF Finish
    <3>2. [pending EXCEPT !.packages = rest] \in [action : Actions, packages : SUBSET Names]
      BY <1>1 DEF TypeOK
    <3>3. NoPending \in [action : Actions, packages : SUBSET Names]
      BY DEF NoPending, Actions
    <3> QED
      BY <3>1, <3>2, <3>3
  <2> QED
    BY <2>1, <2>2
<1>4. ASSUME ~Removing PROVE done \subseteq Installed
  BY <1>1, <1>4 DEF PhaseInv
<1>5. ASSUME NEW r \in newRelies
      PROVE  /\ r \in Installed \X Installed
             /\ r[2] \in DOMAIN store /\ Pkg(r[1]) \in store[r[2]].owners
  <2>1. /\ ~Removing /\ r[1] \in done /\ r[2] \in Installed /\ r \in done \X Installed
        /\ r[2] \in RequirementsOf(r[1]) /\ r[2] \in DOMAIN store
    BY DEF InstallLike, Removing
  <2>2. r[1] \in Kept
    BY <2>1 DEF Kept
  <2>3. Entered(Pkg(r[1]), r[2])
    BY <1>1, <1>2, <2>1, <2>2 DEF TrackingInv
  <2> QED
    BY <1>2, <1>4, <2>1, <2>3 DEF Entered
<1>6. ASSUME NEW n \in newExplicit
      PROVE  n \in Names /\ n \in DOMAIN store /\ Root(n) \in store[n].owners
  <2>1. ~Removing /\ n \in command.direct /\ n \in Kept /\ n \in DOMAIN store
    BY DEF InstallLike, Removing
  <2>2. Entered(Root(n), n)
    BY <1>1, <1>2, <2>1 DEF TrackingInv
  <2> QED
    BY <1>1, <1>2, <2>1, <2>2 DEF Entered, TypeOK
<1> HIDE DEF newRelies, newExplicit
<1>7. relies' \in SUBSET (Installed \X Installed)
  BY <1>1, <1>2, <1>5 DEF TrackingInv
<1>8. explicit' \in SUBSET Names /\ ensured' \in SUBSET Names
  BY <1>1, <1>2, <1>6 DEF TypeOK
<1>9. \A r \in relies' : Listed(r[2]) =>
         r[2] \in DOMAIN store /\ Pkg(r[1]) \in store[r[2]].owners
  BY <1>1, <1>2, <1>5 DEF TrackingInv
<1>10. \A n \in explicit' : Listed(n) => n \in DOMAIN store /\ Root(n) \in store[n].owners
  BY <1>1, <1>2, <1>6 DEF TrackingInv
<1>11. crashes' \in 0 .. MaxCrashes /\ disturbed' \in BOOLEAN
  BY <1>1, <1>2 DEF TypeOK
<1> QED
  BY <1>2, <1>3, <1>7, <1>8, <1>9, <1>10, <1>11, ForgetOwners

LEMMA CrashOwners ==
    ASSUME OwnersInv, Crash
    PROVE  OwnersInv'
<1> USE DEF machine
<1>1. TypeOK /\ TrackingInv
  BY DEF OwnersInv
<1>2. crashes' \in 0 .. MaxCrashes
  BY <1>1, OwnershipAssumption DEF Crash, TypeOK
<1>3. /\ Forget /\ disturbed' \in BOOLEAN
      /\ UNCHANGED <<world, relies, explicit, ensured, store, ready, pending>>
  BY DEF Crash
<1>4. /\ relies' \in SUBSET (Installed \X Installed) /\ explicit' \in SUBSET Names
      /\ ensured' \in SUBSET Names
      /\ pending' \in [action : Actions, packages : SUBSET Names]
      /\ \A r \in relies' : Listed(r[2]) =>
            r[2] \in DOMAIN store /\ Pkg(r[1]) \in store[r[2]].owners
      /\ \A n \in explicit' : Listed(n) => n \in DOMAIN store /\ Root(n) \in store[n].owners
  BY <1>1, <1>3 DEF TypeOK, TrackingInv
<1> QED
  BY <1>2, <1>3, <1>4, ForgetOwners

LEMMA NextOwners == OwnersInv /\ [Next]_vars => OwnersInv'
<1> SUFFICES ASSUME OwnersInv, [Next]_vars PROVE OwnersInv'
  OBVIOUS
<1>1. CASE UNCHANGED vars
  <2> USE DEF vars, machine, round
  <2>1. Installed' = Installed /\ Removing' = Removing /\ Kept' = Kept
    BY <1>1 DEF Installed, Removing, Kept
  <2>2. TypeOK'
    BY <1>1 DEF OwnersInv, TypeOK
  <2>3. PhaseInv'
    BY <1>1, <2>1 DEF OwnersInv, PhaseInv, Listed
  <2>4. ChangesInv'
    BY <1>1, <2>1 DEF OwnersInv, ChangesInv
  <2>5. \A id, n : Entered(id, n)' = Entered(id, n)
    BY <1>1 DEF Entered
  <2>6. TrackingInv'
    BY <1>1, <2>1, <2>5 DEF OwnersInv, TrackingInv, Listed
  <2> QED
    BY <2>2, <2>3, <2>4, <2>6 DEF OwnersInv
<1>2. CASE Next
  BY <1>2, PlanningOwners, RecoverOwners, ExecuteOwners, SyncOwners, UpdateEntryOwners,
     ReconcileOwners, ChangeOwnersOwners, DecideOwners, RemoveOrphansOwners, NextRoundOwners,
     FinishOwners, CrashOwners
  DEF Next
<1> QED
  BY <1>1, <1>2

-----------------------------------------------------------------------------
(* The theorems that hold whatever fails or crashes.                       *)

\* OwnersInv holds in every reachable state of every instance.
THEOREM OwnersInvariant == Spec => []OwnersInv
<1> QED
  BY InitOwners, NextOwners, PTL DEF Spec

\* Every variable of the ownership model keeps its type.
THEOREM TypeCorrect == Spec => []TypeOK
<1>1. OwnersInv => TypeOK
  BY DEF OwnersInv
<1> QED
  BY <1>1, OwnersInvariant, PTL

LEMMA OrphansListed ==
    ASSUME OwnersInv, RequirementsListed
    PROVE  \A d \in orphans : Listed(d)
BY DEF OwnersInv, PhaseInv, RequirementsListed, Listed

\* If what plugins require can be listed, a dependency is never removed as an
\* orphan while a package that was installed on top of it is there.  Where a
\* required package cannot be listed this fails: its entry is written anew,
\* without owners, when it is updated.
THEOREM DependentsNeverCut ==
    ASSUME RequirementsListed
    PROVE  Spec => []DependentsKept
<1>1. OwnersInv => DependentsKept
  <2> SUFFICES ASSUME OwnersInv, NEW d \in orphans, NEW p \in Installed, <<p, d>> \in relies
               PROVE  FALSE
    BY DEF DependentsKept
  <2>1. Listed(d)
    BY OrphansListed, RequirementsListed
  <2>2. \A r \in relies : r[2] # d
    BY <2>1 DEF OwnersInv, TrackingInv
  <2> QED
    BY <2>2
<1> QED
  BY <1>1, OwnersInvariant, PTL

\* Under the same condition a package the user asked for is never removed as an
\* orphan.
THEOREM ExplicitNeverCut ==
    ASSUME RequirementsListed
    PROVE  Spec => []ExplicitKept
<1>1. OwnersInv => ExplicitKept
  <2> SUFFICES ASSUME OwnersInv, NEW d \in orphans PROVE d \notin explicit
    BY DEF ExplicitKept
  <2>1. Listed(d)
    BY OrphansListed, RequirementsListed
  <2> QED
    BY <2>1 DEF OwnersInv, TrackingInv
<1> QED
  BY <1>1, OwnersInvariant, PTL

-----------------------------------------------------------------------------
(* ExactInv: the installed state as long as nothing fails.                 *)

\* Outside a round of refreshing every listed entry is exact.
LEMMA ExactAll ==
    ASSUME OwnersInv, ExactInv, ~disturbed, pc \notin {"sync", "orphans"}
    PROVE  \A n \in Names : Listed(n) => Exact(n)
BY DEF OwnersInv, PhaseInv, ExactInv

\* The entry and the package are as they were.
LEMMA ExactFrame ==
    ASSUME NEW n \in Names, Exact(n), world'[n] = world[n],
           n \in DOMAIN store' <=> n \in DOMAIN store,
           n \in DOMAIN store => store'[n].version = store[n].version
    PROVE  Exact(n)'
BY DEF Exact, Installed

LEMMA PlanningExact ==
    ASSUME OwnersInv, ExactInv, pc = "idle",
           NEW action, NEW direct, NEW G, Plan(action, direct, G)
    PROVE  ExactInv'
<1> USE DEF machine, round
<1>1. /\ UNCHANGED <<world, store, syncing, pending, disturbed>>
  BY DEF Plan
<1>2. \A n \in Names : Exact(n)' = Exact(n)
  BY <1>1 DEF Exact, Installed
<1>3. ~disturbed => \A n \in Names : Listed(n) => Exact(n)
  BY ExactAll
<1> QED
  BY <1>1, <1>2, <1>3 DEF ExactInv, Listed

\* Recovery has nothing to do.
LEMMA RecoverIdle ==
    ASSUME OwnersInv, ExactInv, Recover, ~disturbed'
    PROVE  /\ ~disturbed /\ pc' = "execute" /\ pending'.packages = {}
           /\ world' \in [Names -> Nat] /\ Installed' = Installed
           /\ explicit' = explicit \cap Installed /\ ensured' = ensured \cap Installed
           /\ \A n \in Names : world'[n] = world[n]
           /\ UNCHANGED <<command, store, planned, done, records, syncing, entries, owning,
                          orphans, disturbed>>
<1> USE DEF round
<1>1. PICK recovered \in SUBSET pending.packages :
        /\ Perform(pending.action, recovered)
        /\ recovered = pending.packages => /\ pc' = "execute" /\ pending' = NoPending
                                           /\ UNCHANGED <<command, disturbed>>
        /\ recovered # pending.packages => disturbed' = TRUE
  BY DEF Recover
<1>2. recovered = pending.packages /\ ~disturbed
  BY <1>1
<1>3. pending.packages = {}
  BY <1>2 DEF ExactInv
<1>4. /\ world \in [Names -> Nat] /\ pending.action \in Actions
  BY DEF OwnersInv, TypeOK
<1>5. /\ world' \in [Names -> Nat]
      /\ \A n \in Names \ recovered : world'[n] = world[n]
      /\ explicit' = explicit \cap Installed' /\ ensured' = ensured \cap Installed'
      /\ Installed' = IF pending.action = "remove" THEN Installed \ recovered
                      ELSE Installed \cup recovered
  BY <1>1, <1>2, <1>3, <1>4, PerformFacts
<1>6. Installed' = Installed
  BY <1>2, <1>3, <1>5
<1> QED
  BY <1>1, <1>2, <1>3, <1>5, <1>6 DEF Recover, NoPending

LEMMA RecoverExact ==
    ASSUME OwnersInv, ExactInv, Recover
    PROVE  ExactInv'
<1> SUFFICES ASSUME ~disturbed'
             PROVE  /\ pending'.packages = {}
                    /\ \A n \in Names : Listed(n) => Exact(n)'
  BY DEF ExactInv, Listed
<1>1. /\ ~disturbed /\ pending'.packages = {} /\ store' = store /\ pc = "recover"
      /\ \A n \in Names : world'[n] = world[n]
  BY RecoverIdle DEF Recover
<1>2. \A n \in Names : Listed(n) => Exact(n)
  BY <1>1, ExactAll
<1> QED
  BY <1>1, <1>2, ExactFrame

\* An execution without failures, as the later proofs use it.
LEMMA ExecuteAll ==
    ASSUME OwnersInv, ExactInv, Execute, ~disturbed'
    PROVE  /\ ~disturbed /\ pc = "execute" /\ pc' = "sync"
           /\ planned' = Missing(command.action, command.packages)
           /\ planned' \in SUBSET command.packages
           /\ done' = planned' /\ records' = planned' /\ pending'.packages = {}
           /\ syncing' = {System[n] : n \in planned'}
           /\ world' \in [Names -> Nat]
           /\ \A n \in Names \ planned' : world'[n] = world[n]
           /\ Installed' = IF Removing THEN Installed \ planned' ELSE Installed \cup planned'
           /\ explicit' = explicit \cap Installed' /\ ensured' = ensured \cap Installed'
           /\ UNCHANGED <<store, ready, command, entries, owning, orphans>>
           /\ owning = {} /\ orphans = {} /\ records = {}
<1>1. PICK S \in SUBSET planned' :
        /\ Perform(command.action, S)
        /\ done' = S /\ records' = S
        /\ syncing' = {System[n] : n \in S}
        /\ pending' = IF S = planned' THEN NoPending
                      ELSE [action |-> command.action, packages |-> planned' \ S]
        /\ disturbed' = (disturbed \/ S # planned')
  BY DEF Execute
<1>2. S = planned' /\ ~disturbed
  BY <1>1
<1>3. /\ pc = "execute" /\ pc' = "sync"
      /\ planned' = Missing(command.action, command.packages)
      /\ UNCHANGED <<store, ready, command, entries, owning, orphans>>
  BY DEF Execute
<1>4. /\ world \in [Names -> Nat] /\ command.action \in Actions
      /\ command.packages \in SUBSET Names
      /\ owning = {} /\ orphans = {} /\ records = {}
  BY <1>3 DEF OwnersInv, TypeOK, PhaseInv
<1>5. planned' \in SUBSET command.packages
  BY <1>3, <1>4, MissingTyped
<1>6. S \in SUBSET Names
  BY <1>4, <1>5
<1>7. /\ world' \in [Names -> Nat]
      /\ \A n \in Names \ S : world'[n] = world[n]
      /\ Installed' = IF Removing THEN Installed \ S ELSE Installed \cup S
      /\ explicit' = explicit \cap Installed' /\ ensured' = ensured \cap Installed'
  BY <1>1, <1>4, <1>6, PerformFacts DEF Removing
<1>8. pending'.packages = {}
  BY <1>1, <1>2 DEF NoPending
<1> QED
  BY <1>1, <1>2, <1>3, <1>4, <1>5, <1>7, <1>8

LEMMA ExecuteExact ==
    ASSUME OwnersInv, ExactInv, Execute
    PROVE  ExactInv'
<1> SUFFICES ASSUME ~disturbed'
             PROVE  /\ pending'.packages = {}
                    /\ \A n \in Names : Listed(n) => Exact(n)' \/ System[n] \in syncing'
  BY DEF ExactInv, Listed
<1>1. /\ ~disturbed /\ pending'.packages = {} /\ store' = store /\ pc = "execute"
      /\ \A n \in Names \ planned' : world'[n] = world[n]
      /\ syncing' = {System[n] : n \in planned'}
  BY ExecuteAll
<1>2. \A n \in Names : Listed(n) => Exact(n)
  BY <1>1, ExactAll
<1>3. \A n \in planned' : System[n] \in syncing'
  BY <1>1
<1>4. \A n \in Names \ planned' : Listed(n) => Exact(n)'
  BY <1>1, <1>2, ExactFrame
<1> QED
  BY <1>1, <1>3, <1>4

LEMMA SyncExact ==
    ASSUME OwnersInv, ExactInv, NEW s \in Systems, Sync(s)
    PROVE  ExactInv'
<1> USE DEF machine
<1>1. /\ pc = "sync" /\ pc' = "sync" /\ s \in syncing /\ syncing' = syncing \ {s}
      /\ UNCHANGED <<world, command, records, pending, disturbed>>
  BY DEF Sync
<1> SUFFICES ASSUME ~disturbed', NEW n \in Names, Listed(n)
             PROVE  Exact(n)' \/ System[n] \in syncing'
  BY <1>1 DEF ExactInv, Listed
<1>2. ~disturbed /\ (Exact(n) \/ System[n] \in syncing)
  BY <1>1 DEF ExactInv
<1>3. TypeOK /\ PhaseInv
  BY DEF OwnersInv
<1>4. CASE System[n] # s
  <2>1. /\ n \in DOMAIN store' <=> n \in DOMAIN store
        /\ n \in DOMAIN store => store'[n] = store[n]
    <3>1. CASE SyncAllowed(s)
      <4>1. store' = ReplaceSystem(store, s, Listing(s))
        BY <3>1 DEF Sync
      <4> QED
        BY <1>3, <1>4, <4>1, SyncStore
    <3>2. CASE ~SyncAllowed(s)
      BY <3>2 DEF Sync
    <3> QED
      BY <3>1, <3>2
  <2> QED
    BY <1>1, <1>2, <1>4, <2>1, ExactFrame
<1>5. CASE System[n] = s
  <2>1. SyncAllowed(s)
    <3>1. CASE Removing
      BY <3>1 DEF SyncAllowed, Removing
    <3>2. CASE ~Removing
      <4>1. PICK m \in records : System[m] = s
        BY <1>1, <1>3 DEF PhaseInv
      <4>2. m \in Installed /\ m \in Names
        BY <1>3, <3>2, <4>1 DEF PhaseInv, TypeOK
      <4>3. Listed(m)
        BY <1>5, <4>1 DEF Listed
      <4>4. m \in DOMAIN Listing(s)
        BY <1>3, <4>1, <4>2, <4>3, ListingTyped DEF TypeOK
      <4> QED
        BY <4>4 DEF SyncAllowed
    <3> QED
      BY <3>1, <3>2
  <2>2. store' = ReplaceSystem(store, s, Listing(s))
    BY <2>1 DEF Sync
  <2>3. /\ n \in DOMAIN store' <=> n \in Installed
        /\ n \in Installed => store'[n].version = world[n]
    BY <1>3, <1>5, <2>2, SyncStore
  <2>4. Exact(n)'
    BY <1>1, <2>3 DEF Exact, Installed
  <2> QED
    BY <2>4
<1> QED
  BY <1>4, <1>5

LEMMA OwnersExact ==
    ASSUME OwnersInv, ExactInv,
           (\E n \in Names : UpdateEntry(n)) \/ Reconcile \/ ChangeOwners \/ DecideOrphans
    PROVE  ExactInv'
<1> USE DEF machine
<1>1. /\ UNCHANGED <<world, syncing, pending, disturbed>>
      /\ pc \in {"sync", "owners"} /\ pc # "orphans"
  BY DEF UpdateEntry, Reconcile, ChangeOwners, DecideOrphans
<1> SUFFICES ASSUME ~disturbed, NEW n \in Names, Listed(n)
             PROVE  Exact(n)' \/ System[n] \in syncing'
  BY <1>1 DEF ExactInv, Listed
<1>2. Exact(n) \/ System[n] \in syncing
  BY <1>1 DEF ExactInv
<1>3. /\ n \in DOMAIN store' <=> n \in DOMAIN store
      /\ n \in DOMAIN store => store'[n].version = store[n].version
  <2>1. ASSUME NEW m \in Names, UpdateEntry(m)
        PROVE  /\ n \in DOMAIN store' <=> n \in DOMAIN store
               /\ n \in DOMAIN store => store'[n] = store[n]
    BY <2>1, UpdateEntryStore
  <2>2. CASE ChangeOwners
    BY <2>2, ChangeStore
  <2>3. CASE Reconcile \/ DecideOrphans
    BY <2>3 DEF Reconcile, DecideOrphans
  <2> QED
    BY <2>1, <2>2, <2>3
<1> QED
  BY <1>1, <1>2, <1>3, ExactFrame

\* A removal of orphans without a failure, as the later proofs use it.
LEMMA RemoveOrphansAll ==
    ASSUME OwnersInv, NEW s \in Systems, RemoveOrphans(s), ~disturbed'
    PROVE  \E batch \in SUBSET orphans :
              /\ ~disturbed /\ pc = "orphans" /\ pc' = "orphans"
              /\ orphans' = orphans \ batch /\ records' = records \cup batch
              /\ \A n \in Names \ batch : world'[n] = world[n]
              /\ Installed' = Installed \ batch
              /\ explicit' = explicit \cap Installed' /\ ensured' = ensured \cap Installed'
              /\ UNCHANGED <<store, command, planned, done, syncing, entries, owning, pending>>
<1> DEFINE batch == orphans \cap OfSystem(s)
<1>1. /\ Perform("remove", batch) /\ records' = records \cup batch /\ disturbed' = disturbed
      /\ pc = "orphans" /\ orphans' = orphans \ batch
      /\ UNCHANGED <<store, pc, command, planned, done, syncing, entries, owning, pending>>
  BY DEF RemoveOrphans
<1>2. batch \in SUBSET Names /\ "remove" \in Actions /\ world \in [Names -> Nat]
  BY DEF OwnersInv, TypeOK, Actions
<1>3. batch \in SUBSET orphans
  OBVIOUS
<1> HIDE DEF batch
<1>4. /\ \A n \in Names \ batch : world'[n] = world[n]
      /\ Installed' = Installed \ batch
      /\ explicit' = explicit \cap Installed' /\ ensured' = ensured \cap Installed'
  BY <1>1, <1>2, PerformFacts
<1> QED
  BY <1>1, <1>3, <1>4

LEMMA RemoveOrphansExact ==
    ASSUME OwnersInv, ExactInv, NEW s \in Systems, RemoveOrphans(s)
    PROVE  ExactInv'
<1> SUFFICES ASSUME ~disturbed'
             PROVE  /\ pending'.packages = {} /\ pc' = "orphans"
                    /\ \A n \in Names : Listed(n) => Exact(n)' \/ n \in records'
  BY DEF ExactInv, Listed
<1>1. PICK batch \in SUBSET orphans :
        /\ ~disturbed /\ pc = "orphans" /\ pc' = "orphans"
        /\ records' = records \cup batch
        /\ \A n \in Names \ batch : world'[n] = world[n]
        /\ UNCHANGED <<store, syncing, pending>>
  BY RemoveOrphansAll
<1>2. syncing = {}
  BY <1>1 DEF OwnersInv, PhaseInv
<1>3. pending.packages = {} /\ \A n \in Names : Listed(n) => Exact(n) \/ n \in records
  BY <1>1, <1>2 DEF ExactInv
<1>4. \A n \in Names : Listed(n) /\ n \notin records' => Exact(n)'
  BY <1>1, <1>3, ExactFrame
<1> QED
  BY <1>1, <1>3, <1>4

LEMMA EndExact ==
    ASSUME OwnersInv, ExactInv, NextRound \/ Finish \/ Crash
    PROVE  ExactInv'
<1> USE DEF machine
<1>1. CASE Crash
  BY <1>1 DEF Crash, ExactInv
<1>2. CASE NextRound
  <2>1. /\ pc = "orphans" /\ syncing' = {System[n] : n \in records}
        /\ UNCHANGED <<world, store, pending, disturbed>>
    BY <1>2 DEF NextRound
  <2>2. \A n \in Names : Exact(n)' = Exact(n)
    BY <2>1 DEF Exact, Installed
  <2>3. syncing = {}
    BY <2>1 DEF OwnersInv, PhaseInv
  <2>4. ~disturbed => pending.packages = {} /\ \A n \in Names : Listed(n) => Exact(n) \/ n \in records
    BY <2>3 DEF ExactInv
  <2>5. \A n \in records : System[n] \in syncing'
    BY <2>1
  <2> QED
    BY <2>1, <2>2, <2>4, <2>5 DEF ExactInv, Listed
<1>3. CASE Finish
  <2>1. /\ pc = "owners" /\ UNCHANGED <<world, store, disturbed>>
        /\ pending.packages = {} => UNCHANGED pending
    BY <1>3 DEF Finish
  <2>2. \A n \in Names : Exact(n)' = Exact(n)
    BY <2>1 DEF Exact, Installed
  <2>3. ~disturbed => pending.packages = {} /\ \A n \in Names : Listed(n) => Exact(n)
    BY <2>1, ExactAll DEF ExactInv
  <2> QED
    BY <2>1, <2>2, <2>3 DEF ExactInv, Listed
<1> QED
  BY <1>1, <1>2, <1>3

LEMMA InitExact == Init => ExactInv
BY DEF Init, ExactInv, Exact, Installed, NoPending

LEMMA NextExact == OwnersInv /\ ExactInv /\ [Next]_vars => ExactInv'
<1> SUFFICES ASSUME OwnersInv, ExactInv, [Next]_vars PROVE ExactInv'
  OBVIOUS
<1>1. CASE UNCHANGED vars
  <2>1. UNCHANGED <<world, store, syncing, pc, records, pending, disturbed>>
    BY <1>1 DEF vars, machine, round
  <2>2. \A n \in Names : Exact(n)' = Exact(n)
    BY <2>1 DEF Exact, Installed
  <2> QED
    BY <2>1, <2>2 DEF ExactInv, Listed
<1>2. ASSUME \/ \E r \in Requests : PlanInstall(r)
             \/ \E r \in Requests, action \in {"update", "remove"} : PlanChange(action, r)
             \/ \E s \in Systems : PlanEnsure(s)
      PROVE  ExactInv'
  BY <1>2, PlanningExact DEF PlanInstall, PlanChange, PlanEnsure
<1>3. CASE Next
  BY <1>2, <1>3, RecoverExact, ExecuteExact, SyncExact, OwnersExact, RemoveOrphansExact, EndExact
  DEF Next
<1> QED
  BY <1>1, <1>3

LEMMA ExactInvariant == Spec => []ExactInv
<1> QED
  BY InitExact, NextExact, OwnersInvariant, PTL DEF Spec

\* As long as no package fails and no process dies, the installed state of every
\* system that can be listed is what is installed whenever a command has ended,
\* the orphans it removed included.
THEOREM InstalledStateCorrect == Spec => []InstalledStateExact
<1>1. OwnersInv /\ ExactInv => InstalledStateExact
  BY ExactAll DEF InstalledStateExact, Exact, Listed
<1> QED
  BY <1>1, OwnersInvariant, ExactInvariant, PTL

-----------------------------------------------------------------------------
(* NeedInv: why each package is there, as long as nothing fails.           *)

\* The two parts of NeedInv for one package.
Needed(d) == Accounted(d) /\ (d \in DOMAIN store => OwnersReal(d))

\* What NeedInv says of the packages of the command.
CommandNeed ==
    /\ pc \in {"recover", "execute"} =>
          /\ command.action = "update" => command.packages \subseteq Installed
          /\ command.action = "install" =>
                \A d \in command.packages \ command.direct :
                    \E p \in command.packages : d \in RequirementsOf(p)
    /\ pc \in {"sync", "owners"} /\ ~Removing => command.packages \subseteq Installed

LEMMA NeedParts ==
    NeedInv <=> (~disturbed => CommandNeed /\ \A d \in Installed : Listed(d) => Needed(d))
BY DEF NeedInv, Needed, CommandNeed

\* When no command is past planning, a package is asked for, ensured or required,
\* and its owners are installed.
LEMMA SettledNeed ==
    ASSUME OwnersInv, pc \in {"idle", "recover", "execute"}, NEW d \in Names
    PROVE  /\ Accounted(d) <=> \/ d \in explicit \cup ensured
                               \/ \E p \in Installed : d \in RequirementsOf(p)
           /\ OwnersReal(d) <=>
                 /\ \A q \in Names : Pkg(q) \in store[d].owners =>
                       d \in RequirementsOf(q) /\ q \in Installed
                 /\ \A m \in Names : Root(m) \in store[d].owners => m = d /\ d \in explicit
<1>1. /\ planned = {} /\ records = {} /\ done = {} /\ owning = {} /\ orphans = {}
      /\ pc # "owners"
  BY DEF OwnersInv, PhaseInv, TypeOK
<1> QED
  BY <1>1 DEF Accounted, OwnersReal

\* A step between such states that leaves the machine and the store alone.
LEMMA SettledFrame ==
    ASSUME OwnersInv, OwnersInv', NeedInv, ~disturbed,
           pc \in {"idle", "recover", "execute"}, pc' \in {"idle", "recover", "execute"},
           Installed' = Installed, explicit' \cap Installed = explicit \cap Installed,
           ensured' \cap Installed = ensured \cap Installed, store' = store
    PROVE  \A d \in Installed' : Listed(d) => Needed(d)'
<1> SUFFICES ASSUME NEW d \in Installed, Listed(d) PROVE Needed(d)'
  OBVIOUS
<1>1. Needed(d) /\ d \in Names
  BY NeedParts DEF Installed
<1>2. /\ d \in explicit' <=> d \in explicit
      /\ d \in ensured' <=> d \in ensured
  OBVIOUS
<1>3. /\ Accounted(d)' <=> \/ d \in explicit' \cup ensured'
                           \/ \E p \in Installed' : d \in RequirementsOf(p)
      /\ OwnersReal(d)' <=>
            /\ \A q \in Names : Pkg(q) \in store'[d].owners =>
                  d \in RequirementsOf(q) /\ q \in Installed'
            /\ \A m \in Names : Root(m) \in store'[d].owners => m = d /\ d \in explicit'
  <2>1. /\ planned' = {} /\ records' = {} /\ done' = {} /\ owning' = {} /\ orphans' = {}
        /\ pc' # "owners"
    BY DEF OwnersInv, PhaseInv, TypeOK
  <2> QED
    BY <2>1 DEF Accounted, OwnersReal, RequirementsOf
<1>4. /\ Accounted(d) <=> \/ d \in explicit \cup ensured
                          \/ \E p \in Installed : d \in RequirementsOf(p)
      /\ OwnersReal(d) <=>
            /\ \A q \in Names : Pkg(q) \in store[d].owners =>
                  d \in RequirementsOf(q) /\ q \in Installed
            /\ \A m \in Names : Root(m) \in store[d].owners => m = d /\ d \in explicit
  BY <1>1, SettledNeed
<1>5. Accounted(d)'
  BY <1>1, <1>2, <1>3, <1>4 DEF Needed
<1>6. d \in DOMAIN store' => OwnersReal(d)'
  BY <1>1, <1>2, <1>3, <1>4 DEF Needed
<1> QED
  BY <1>5, <1>6 DEF Needed

LEMMA PlanNeed ==
    ASSUME OwnersInv, OwnersInv', NeedInv, pc = "idle",
           NEW action, NEW direct, NEW G, Plan(action, direct, G),
           action = "update" => G.packages \subseteq Installed,
           action = "install" => \A d \in G.packages \ direct :
                                    \E p \in G.packages : d \in RequirementsOf(p)
    PROVE  NeedInv'
<1> USE DEF machine, round
<1> SUFFICES ASSUME ~disturbed'
             PROVE  CommandNeed' /\ \A d \in Installed' : Listed(d) => Needed(d)'
  BY DEF NeedInv, Needed, CommandNeed, Listed
<1>1. /\ UNCHANGED <<world, explicit, ensured, store, disturbed>>
      /\ pc' \in {"idle", "recover"}
      /\ pc' = "recover" => command' = [action |-> action, direct |-> direct \cap G.packages,
                                       packages |-> G.packages, edges |-> G.edges]
  BY DEF Plan
<1>2. Installed' = Installed
  BY <1>1 DEF Installed
<1>3. \A d \in Installed' : Listed(d) => Needed(d)'
  BY <1>1, <1>2, SettledFrame
<1>4. CommandNeed'
  BY <1>1, <1>2 DEF CommandNeed, RequirementsOf
<1> QED
  BY <1>3, <1>4

LEMMA PlanningNeed ==
    ASSUME OwnersInv, OwnersInv', NeedInv,
           \/ \E r \in Requests : PlanInstall(r)
           \/ \E r \in Requests, action \in {"update", "remove"} : PlanChange(action, r)
           \/ \E s \in Systems : PlanEnsure(s)
    PROVE  NeedInv'
<1>1. ASSUME NEW r \in Requests, PlanInstall(r) PROVE NeedInv'
  <2> DEFINE M == Missing("install", Names)
             G == InstallGraph(r, ready, M)
  <2>1. M \in SUBSET Names /\ r \in SUBSET Names
    BY MissingTyped, OwnershipAssumption
  <2>2. pc = "idle" /\ Plan("install", r, G)
    BY <1>1 DEF PlanInstall
  <2> HIDE DEF M
  <2>3. \A d \in G.packages \ r : \E p \in G.packages : d \in RequirementsOf(p)
    BY <2>1, InstallGraphFacts
  <2> HIDE DEF G
  <2> QED
    BY <2>2, <2>3, PlanNeed
<1>2. ASSUME NEW r \in Requests, NEW action \in {"update", "remove"}, PlanChange(action, r)
      PROVE  NeedInv'
  <2> DEFINE G == PlainGraph(r)
  <2>1. pc = "idle" /\ Plan(action, r, G) /\ G.packages \subseteq Installed
    BY <1>2 DEF PlanChange, PlainGraph
  <2> HIDE DEF G
  <2> QED
    BY <2>1, PlanNeed
<1>3. ASSUME NEW s \in Systems, PlanEnsure(s) PROVE NeedInv'
  <2> DEFINE G == EnsureGraph(s, Missing("install", Names))
  <2>1. pc = "idle" /\ Plan("ensure", {}, G)
    BY <1>3 DEF PlanEnsure
  <2> HIDE DEF G
  <2> QED
    BY <2>1, PlanNeed
<1> QED
  BY <1>1, <1>2, <1>3

LEMMA RecoverNeed ==
    ASSUME OwnersInv, OwnersInv', ExactInv, NeedInv, Recover
    PROVE  NeedInv'
<1> SUFFICES ASSUME ~disturbed'
             PROVE  CommandNeed' /\ \A d \in Installed' : Listed(d) => Needed(d)'
  BY DEF NeedInv, Needed, CommandNeed, Listed
<1>1. /\ ~disturbed /\ pc = "recover" /\ pc' = "execute" /\ Installed' = Installed
      /\ explicit' = explicit \cap Installed /\ ensured' = ensured \cap Installed
      /\ UNCHANGED <<command, store>>
  BY RecoverIdle DEF Recover
<1>2. \A d \in Installed' : Listed(d) => Needed(d)'
  BY <1>1, SettledFrame
<1>3. CommandNeed
  BY <1>1, NeedParts
<1>4. CommandNeed'
  BY <1>1, <1>3 DEF CommandNeed, RequirementsOf
<1> QED
  BY <1>2, <1>4

\* An execution without failures leaves all packages of the command installed, if
\* it is not a removal.
LEMMA ExecuteInstalls ==
    ASSUME OwnersInv, ExactInv, NeedInv, Execute, ~disturbed', ~Removing
    PROVE  command.packages \subseteq Installed'
<1>1. /\ ~disturbed /\ pc = "execute" /\ Installed' = Installed \cup planned'
      /\ planned' = Missing(command.action, command.packages)
  BY ExecuteAll
<1>2. command.packages \in SUBSET Names /\ command.action \in Actions /\ world \in [Names -> Nat]
  BY DEF OwnersInv, TypeOK
<1>3. CommandNeed
  BY <1>1, NeedParts
<1>4. CASE command.action = "update"
  BY <1>1, <1>3, <1>4 DEF CommandNeed
<1>5. CASE command.action \in {"install", "ensure"}
  <2>1. planned' = {n \in command.packages : world[n] = 0}
    BY <1>1, <1>5 DEF Missing
  <2> QED
    BY <1>1, <1>2, <2>1 DEF Installed
<1> QED
  BY <1>2, <1>4, <1>5 DEF Actions, Removing

LEMMA ExecuteNeed ==
    ASSUME OwnersInv, ExactInv, NeedInv, Execute
    PROVE  NeedInv'
<1> SUFFICES ASSUME ~disturbed'
             PROVE  CommandNeed' /\ \A d \in Installed' : Listed(d) => Needed(d)'
  BY DEF NeedInv, Needed, CommandNeed, Listed
<1>1. /\ ~disturbed /\ pc = "execute" /\ pc' = "sync"
      /\ planned' \in SUBSET command.packages
      /\ done' = planned' /\ records' = planned'
      /\ Installed' = IF Removing THEN Installed \ planned' ELSE Installed \cup planned'
      /\ explicit' = explicit \cap Installed' /\ ensured' = ensured \cap Installed'
      /\ UNCHANGED <<store, command, owning, orphans>>
      /\ owning = {} /\ orphans = {} /\ records = {}
  BY ExecuteAll
<1>2. Removing' = Removing
  BY <1>1 DEF Removing
<1>3. CommandNeed'
  <2>1. ~Removing => command.packages \subseteq Installed'
    BY ExecuteInstalls
  <2> QED
    BY <1>1, <1>2, <2>1 DEF CommandNeed
<1> SUFFICES ASSUME NEW d \in Installed', Listed(d) PROVE Needed(d)'
  BY <1>3
<1>4. d \in Names
  BY DEF Installed
<1>5. CASE d \in Installed
  <2>1. Needed(d)
    BY <1>1, <1>5, NeedParts
  <2>2. /\ d \in explicit \cup ensured \/ \E p \in Installed : d \in RequirementsOf(p)
        /\ d \in DOMAIN store =>
              /\ \A q \in Names : Pkg(q) \in store[d].owners =>
                    d \in RequirementsOf(q) /\ q \in Installed
              /\ \A m \in Names : Root(m) \in store[d].owners => m = d /\ d \in explicit
    BY <1>1, <1>4, <2>1, SettledNeed DEF Needed
  <2>3. \A p \in Installed : p \in Installed' \/ (Removing /\ p \in records')
    BY <1>1
  <2>4. Accounted(d)'
    BY <1>1, <1>2, <2>2, <2>3 DEF Accounted, RequirementsOf
  <2>5. d \in DOMAIN store' => OwnersReal(d)'
    BY <1>1, <1>2, <2>2, <2>3 DEF OwnersReal, RequirementsOf
  <2> QED
    BY <2>4, <2>5 DEF Needed
<1>6. CASE d \notin Installed
  <2>1. ~Removing /\ d \in planned' /\ d \in command.packages
    BY <1>1, <1>6
  <2>2. command.packages \subseteq Installed'
    BY <2>1, ExecuteInstalls
  <2>3. d \notin DOMAIN store'
    <3>1. Exact(d)
      BY <1>1, <1>4, ExactAll
    <3> QED
      BY <1>1, <1>6, <3>1 DEF Exact
  <2>4. CommandNeed /\ command.action \in Actions
    BY <1>1, NeedParts DEF OwnersInv, TypeOK
  <2>5. command.action # "update"
    BY <1>1, <1>6, <2>1, <2>4 DEF CommandNeed
  <2>6. CASE d \in command.direct \/ command.action = "ensure"
    <3>1. Accounted(d)'
      BY <1>1, <1>2, <2>1, <2>6 DEF Accounted
    <3> QED
      BY <2>3, <3>1 DEF Needed
  <2>7. CASE d \notin command.direct /\ command.action = "install"
    <3>1. PICK p \in command.packages : d \in RequirementsOf(p)
      BY <1>1, <2>1, <2>4, <2>7 DEF CommandNeed
    <3>2. Accounted(d)'
      BY <2>2, <3>1 DEF Accounted, RequirementsOf
    <3> QED
      BY <2>3, <3>2 DEF Needed
  <2> QED
    BY <2>1, <2>4, <2>5, <2>6, <2>7 DEF Actions, Removing
<1> QED
  BY <1>5, <1>6

\* The reasons that do not depend on the store stay what they are.
LEMMA AccountedFrame ==
    ASSUME NEW d, UNCHANGED <<world, explicit, ensured, orphans, command, records, done>>
    PROVE  Accounted(d)' = Accounted(d)
BY DEF Accounted, Removing, Installed, RequirementsOf

LEMMA SyncNeed ==
    ASSUME OwnersInv, NeedInv,
           (\E s \in Systems : Sync(s)) \/ (\E n \in Names : UpdateEntry(n))
    PROVE  NeedInv'
<1> USE DEF machine
<1>1. /\ UNCHANGED <<world, explicit, ensured, orphans, command, planned, records, done,
                     owning, pc, disturbed>>
      /\ pc = "sync"
  BY DEF Sync, UpdateEntry
<1>2. Installed' = Installed /\ Removing' = Removing
  BY <1>1 DEF Installed, Removing
<1> SUFFICES ASSUME ~disturbed
             PROVE  CommandNeed' /\ \A d \in Installed : Listed(d) => Needed(d)'
  BY <1>1, <1>2 DEF NeedInv, Needed, CommandNeed, Listed
<1>3. CommandNeed'
  BY <1>1, <1>2, NeedParts DEF CommandNeed, RequirementsOf
<1> SUFFICES ASSUME NEW d \in Installed, Listed(d) PROVE Needed(d)'
  BY <1>3
<1>4. d \in Names /\ Needed(d) /\ TypeOK
  BY NeedParts DEF Installed, OwnersInv
<1>5. Accounted(d)'
  BY <1>1, <1>4, AccountedFrame DEF Needed
<1>6. \/ d \in DOMAIN store' => d \in DOMAIN store /\ store'[d].owners = store[d].owners
      \/ store'[d].owners = {}
  <2>1. ASSUME NEW s \in Systems, Sync(s), SyncAllowed(s)
        PROVE  \/ d \in DOMAIN store' => d \in DOMAIN store /\ store'[d].owners = store[d].owners
               \/ store'[d].owners = {}
    <3>1. store' = ReplaceSystem(store, s, Listing(s))
      BY <2>1 DEF Sync
    <3> QED
      BY <1>4, <3>1, SyncStore
  <2>2. ASSUME NEW s \in Systems, Sync(s), ~SyncAllowed(s)
        PROVE  store' = store
    BY <2>2 DEF Sync
  <2>3. ASSUME NEW n \in Names, UpdateEntry(n)
        PROVE  /\ d \in DOMAIN store' <=> d \in DOMAIN store
               /\ d \in DOMAIN store => store'[d] = store[d]
    BY <1>4, <2>3, UpdateEntryStore
  <2> QED
    BY <2>1, <2>2, <2>3
<1>7. d \in DOMAIN store' => OwnersReal(d)'
  BY <1>1, <1>2, <1>4, <1>6 DEF OwnersReal, Needed, RequirementsOf, Kept
<1> QED
  BY <1>5, <1>7 DEF Needed

LEMMA ReconcileNeed ==
    ASSUME OwnersInv, NeedInv, Reconcile
    PROVE  NeedInv'
<1> USE DEF machine
<1>1. /\ UNCHANGED <<world, explicit, ensured, store, orphans, command, planned, records, done,
                     disturbed>>
      /\ pc = "sync" /\ pc' = "owners" /\ owning' = OwnerChanges /\ owning = {}
  BY DEF Reconcile, OwnersInv, PhaseInv
<1>2. Installed' = Installed /\ Removing' = Removing
  BY <1>1 DEF Installed, Removing
<1> SUFFICES ASSUME ~disturbed
             PROVE  CommandNeed' /\ \A d \in Installed : Listed(d) => Needed(d)'
  BY <1>1, <1>2 DEF NeedInv, Needed, CommandNeed, Listed
<1>3. CommandNeed'
  BY <1>1, <1>2, NeedParts DEF CommandNeed
<1> SUFFICES ASSUME NEW d \in Installed, Listed(d) PROVE Needed(d)'
  BY <1>3
<1>4. d \in Names /\ Needed(d)
  BY NeedParts DEF Installed
<1>5. Accounted(d)'
  BY <1>1, <1>4, AccountedFrame DEF Needed
<1>6. ASSUME d \in DOMAIN store, NEW q \in Names, Pkg(q) \in store[d].owners
      PROVE  /\ d \in RequirementsOf(q)
             /\ \/ q \in Installed
                \/ \E c \in owning' : c.op = "subtract" /\ c.name = d /\ Pkg(q) \in c.owners
  <2>1. d \in RequirementsOf(q) /\ (q \in Installed \/ q \in records)
    BY <1>1, <1>4, <1>6 DEF OwnersReal, Needed
  <2>2. CASE q \in records /\ Removing
    <3> DEFINE c == [op |-> "subtract", name |-> d, owners |-> {Pkg(q)}]
    <3>1. c \in Subtracts(q)
      BY <2>1 DEF Subtracts
    <3>2. c \in owning'
      BY <1>1, <2>2, <3>1, OwnerChangesMember
    <3> QED
      BY <2>1, <3>2
  <2>3. CASE q \in records /\ ~Removing
    BY <2>1, <2>3 DEF OwnersInv, PhaseInv
  <2> QED
    BY <2>1, <2>2, <2>3
<1>7. d \in DOMAIN store' => OwnersReal(d)'
  BY <1>1, <1>2, <1>4, <1>6 DEF OwnersReal, Needed, RequirementsOf
<1> QED
  BY <1>5, <1>7 DEF Needed

LEMMA ChangeOwnersNeed ==
    ASSUME OwnersInv, NeedInv, ChangeOwners
    PROVE  NeedInv'
<1> USE DEF machine
<1>1. /\ UNCHANGED <<world, explicit, ensured, orphans, command, planned, records, done,
                     pc, disturbed>>
      /\ pc = "owners"
  BY DEF ChangeOwners
<1>2. Installed' = Installed /\ Removing' = Removing /\ Kept' = Kept
  BY <1>1 DEF Installed, Removing, Kept
<1> SUFFICES ASSUME ~disturbed
             PROVE  CommandNeed' /\ \A d \in Installed : Listed(d) => Needed(d)'
  BY <1>1, <1>2 DEF NeedInv, Needed, CommandNeed, Listed
<1>3. CommandNeed /\ CommandNeed'
  BY <1>1, <1>2, NeedParts DEF CommandNeed
<1> SUFFICES ASSUME NEW d \in Installed, Listed(d) PROVE Needed(d)'
  BY <1>3
<1>4. d \in Names /\ Needed(d) /\ ChangesInv /\ TypeOK
  BY NeedParts DEF Installed, OwnersInv
<1>5. Accounted(d)'
  BY <1>1, <1>4, AccountedFrame DEF Needed
<1>6. PICK c \in owning :
        /\ owning' = owning \ {c} /\ DOMAIN store' = DOMAIN store
        /\ \A m \in DOMAIN store :
              store'[m].owners = IF m # c.name THEN store[m].owners
                                 ELSE IF Removing THEN store[m].owners \ c.owners
                                 ELSE store[m].owners \cup c.owners
  BY ChangeStore
<1>7. ASSUME d \in DOMAIN store, NEW q \in Names, Pkg(q) \in store'[d].owners
      PROVE  /\ d \in RequirementsOf(q)
             /\ \/ q \in Installed
                \/ \E x \in owning' : x.op = "subtract" /\ x.name = d /\ Pkg(q) \in x.owners
  <2>1. CASE Removing
    <3>1. Pkg(q) \in store[d].owners /\ ~(d = c.name /\ Pkg(q) \in c.owners)
      BY <1>6, <1>7, <2>1
    <3> QED
      BY <1>1, <1>4, <1>6, <1>7, <3>1 DEF Needed, OwnersReal
  <2>2. CASE ~Removing
    <3>1. Pkg(q) \in store[d].owners \/ (d = c.name /\ Pkg(q) \in c.owners)
      BY <1>6, <1>7, <2>2
    <3>2. \A x \in owning : x.op = "merge"
      BY <1>4, <2>2 DEF ChangesInv
    <3>3. CASE Pkg(q) \in store[d].owners
      BY <1>1, <1>4, <1>7, <3>2, <3>3 DEF Needed, OwnersReal
    <3>4. CASE d = c.name /\ Pkg(q) \in c.owners
      <4>1. q \in command.packages /\ d \in RequirementsOf(q)
        BY <1>4, <2>2, <3>4 DEF ChangesInv
      <4> QED
        BY <1>1, <1>3, <2>2, <4>1 DEF CommandNeed
    <3> QED
      BY <3>1, <3>3, <3>4
  <2> QED
    BY <2>1, <2>2
<1>8. ASSUME d \in DOMAIN store, NEW m \in Names, Root(m) \in store'[d].owners
      PROVE  m = d /\ (d \in explicit \/ (~Removing /\ d \in command.direct \cap Kept))
  <2>1. \/ Root(m) \in store[d].owners
        \/ d = c.name /\ ~Removing /\ Root(m) \in c.owners
    BY <1>6, <1>8
  <2>2. CASE Root(m) \in store[d].owners
    BY <1>4, <1>8, <2>2 DEF Needed, OwnersReal
  <2>3. CASE d = c.name /\ ~Removing /\ Root(m) \in c.owners
    BY <1>4, <2>3 DEF ChangesInv
  <2> QED
    BY <2>1, <2>2, <2>3
<1>9. d \in DOMAIN store' => OwnersReal(d)'
  BY <1>1, <1>2, <1>6, <1>7, <1>8 DEF OwnersReal, RequirementsOf
<1> QED
  BY <1>5, <1>9 DEF Needed

\* Once the changes of a removal are written, a package that is still there and no
\* orphan was asked for or is required by one that is installed.
LEMMA OwnedIsNeeded ==
    ASSUME OwnersInv, ExactInv, NeedInv, ~disturbed, pc = "owners", owning = {}, Removing,
           NEW d \in Installed, Listed(d), ~Orphaned(d)
    PROVE  d \in explicit \/ \E p \in Installed : d \in RequirementsOf(p)
<1>1. d \in Names /\ Needed(d) /\ IsStore(store)
  BY NeedParts DEF Installed, OwnersInv, TypeOK
<1>2. d \in DOMAIN store
  BY <1>1, ExactAll DEF Exact
<1>3. PICK id \in store[d].owners : TRUE
  BY <1>2 DEF Orphaned
<1>4. id \in Owners
  BY <1>1, <1>2, <1>3 DEF IsStore, Entries
<1>5. CASE \E q \in Names : id = Pkg(q)
  BY <1>1, <1>2, <1>3, <1>5 DEF Needed, OwnersReal
<1>6. CASE \E m \in Names : id = Root(m)
  BY <1>1, <1>2, <1>3, <1>6 DEF Needed, OwnersReal
<1> QED
  BY <1>4, <1>5, <1>6 DEF Owners

LEMMA DecideNeed ==
    ASSUME OwnersInv, ExactInv, NeedInv, DecideOrphans
    PROVE  NeedInv'
<1> USE DEF machine
<1>1. /\ UNCHANGED <<world, explicit, ensured, store, command, planned, done, owning, disturbed>>
      /\ pc = "owners" /\ pc' = "orphans" /\ owning = {}
      /\ orphans' = FindOrphans /\ records' = {} /\ FindOrphans # {}
  BY DEF DecideOrphans
<1>2. Installed' = Installed /\ Removing /\ Removing' = Removing /\ orphans = {}
  BY <1>1, FindOrphansMember DEF Installed, Removing, OwnersInv, PhaseInv
<1> SUFFICES ASSUME ~disturbed
             PROVE  CommandNeed' /\ \A d \in Installed : Listed(d) => Needed(d)'
  BY <1>1, <1>2 DEF NeedInv, Needed, CommandNeed, Listed
<1>3. CommandNeed'
  BY <1>1 DEF CommandNeed
<1> SUFFICES ASSUME NEW d \in Installed, Listed(d) PROVE Needed(d)'
  BY <1>3
<1>4. d \in Names /\ Needed(d)
  BY NeedParts DEF Installed
<1>5. Accounted(d)'
  <2>1. \/ d \in explicit \cup ensured
        \/ \E p \in Installed : d \in RequirementsOf(p)
        \/ \E n \in records : d \in RequirementsOf(n)
    BY <1>2, <1>4 DEF Needed, Accounted
  <2>2. CASE d \in FindOrphans
    BY <1>1, <2>2 DEF Accounted
  <2>3. CASE d \notin FindOrphans
    <3>1. \/ d \in explicit \cup ensured
          \/ \E p \in Installed : d \in RequirementsOf(p)
      BY <1>1, <1>2, <2>1, <2>3, FindOrphansMember, OwnedIsNeeded
    <3> QED
      BY <1>1, <1>2, <3>1 DEF Accounted, RequirementsOf
  <2> QED
    BY <2>2, <2>3
<1>6. d \in DOMAIN store' => OwnersReal(d)'
  BY <1>1, <1>2, <1>4 DEF Needed, OwnersReal, RequirementsOf
<1> QED
  BY <1>5, <1>6 DEF Needed

LEMMA RemoveOrphansNeed ==
    ASSUME OwnersInv, NeedInv, NEW s \in Systems, RemoveOrphans(s)
    PROVE  NeedInv'
<1> SUFFICES ASSUME ~disturbed'
             PROVE  CommandNeed' /\ \A d \in Installed' : Listed(d) => Needed(d)'
  BY DEF NeedInv, Needed, CommandNeed, Listed
<1>1. PICK batch \in SUBSET orphans :
        /\ ~disturbed /\ pc = "orphans" /\ pc' = "orphans"
        /\ orphans' = orphans \ batch /\ records' = records \cup batch
        /\ Installed' = Installed \ batch
        /\ explicit' = explicit \cap Installed' /\ ensured' = ensured \cap Installed'
        /\ UNCHANGED <<store, command, planned, done, owning>>
  BY RemoveOrphansAll
<1>2. Removing /\ Removing' /\ owning = {}
  BY <1>1 DEF OwnersInv, PhaseInv, Removing
<1>3. CommandNeed'
  BY <1>1 DEF CommandNeed
<1> SUFFICES ASSUME NEW d \in Installed', Listed(d) PROVE Needed(d)'
  BY <1>3
<1>4. d \in Installed /\ d \notin batch /\ Needed(d)
  BY <1>1, NeedParts
<1>5. \A p \in Installed : p \in Installed' \/ p \in records'
  BY <1>1
<1>6. Accounted(d)'
  BY <1>1, <1>2, <1>4, <1>5 DEF Needed, Accounted, RequirementsOf
<1>7. d \in DOMAIN store' => OwnersReal(d)'
  BY <1>1, <1>2, <1>4, <1>5 DEF Needed, OwnersReal, RequirementsOf
<1> QED
  BY <1>6, <1>7 DEF Needed

LEMMA NextRoundNeed ==
    ASSUME OwnersInv, NeedInv, NextRound
    PROVE  NeedInv'
<1> USE DEF machine
<1>1. /\ UNCHANGED <<world, explicit, ensured, store, orphans, command, planned, records, done,
                     owning, disturbed>>
      /\ pc = "orphans" /\ pc' = "sync"
  BY DEF NextRound
<1>2. Installed' = Installed /\ Removing /\ Removing' = Removing
  BY <1>1 DEF Installed, Removing, OwnersInv, PhaseInv
<1> SUFFICES ASSUME ~disturbed, NEW d \in Installed, Listed(d) PROVE Needed(d)'
  BY <1>1, <1>2 DEF NeedInv, Needed, CommandNeed, Listed
<1>3. Needed(d)
  BY NeedParts
<1>4. Accounted(d)'
  BY <1>1, <1>3, AccountedFrame DEF Needed
<1>5. d \in DOMAIN store' => OwnersReal(d)'
  BY <1>1, <1>2, <1>3 DEF Needed, OwnersReal, RequirementsOf
<1> QED
  BY <1>4, <1>5 DEF Needed

LEMMA FinishNeed ==
    ASSUME OwnersInv, ExactInv, NeedInv, Finish
    PROVE  NeedInv'
<1>1. /\ UNCHANGED <<world, store, disturbed>>
      /\ pc = "owners" /\ owning = {} /\ FindOrphans = {}
      /\ pc' = "idle" /\ done' = {} /\ records' = {} /\ owning' = {} /\ orphans' = {}
      /\ explicit' = explicit \cup
            {n \in command.direct \cap Kept : InstallLike(command.action) /\ n \in DOMAIN store}
      /\ ensured' = ensured \cup {n \in done : command.action = "ensure"}
  BY DEF Finish, Forget
<1>2. Installed' = Installed /\ orphans = {}
  BY <1>1 DEF Installed, OwnersInv, PhaseInv
<1>3. InstallLike(command.action) <=> ~Removing
  BY DEF InstallLike, Removing
<1> SUFFICES ASSUME ~disturbed, NEW d \in Installed, Listed(d) PROVE Needed(d)'
  BY <1>1, <1>2 DEF NeedInv, Needed, CommandNeed, Listed
<1>4. d \in Names /\ Needed(d)
  BY NeedParts DEF Installed
<1>5. d \in DOMAIN store
  BY <1>1, <1>4, ExactAll DEF Exact
<1>6. d \in explicit \cup ensured \/ (\E p \in Installed : d \in RequirementsOf(p))
        => Accounted(d)'
  BY <1>1, <1>2 DEF Accounted, RequirementsOf
<1>7. Accounted(d)'
  <2>1. CASE Removing /\ \E n \in records : d \in RequirementsOf(n)
    BY <1>1, <1>6, <2>1, FindOrphansMember, OwnedIsNeeded
  <2>2. CASE ~Removing /\ d \in done /\ (d \in command.direct \/ command.action = "ensure")
    <3>1. d \in explicit' \cup ensured'
      BY <1>1, <1>3, <1>5, <2>2 DEF Kept
    <3> QED
      BY <3>1 DEF Accounted
  <2> QED
    BY <1>2, <1>4, <1>6, <2>1, <2>2 DEF Needed, Accounted
<1>8. OwnersReal(d)'
  <2>1. ASSUME NEW q \in Names, Pkg(q) \in store[d].owners
        PROVE  d \in RequirementsOf(q) /\ q \in Installed
    BY <1>1, <1>4, <1>5, <2>1 DEF Needed, OwnersReal
  <2>2. ASSUME NEW m \in Names, Root(m) \in store[d].owners
        PROVE  m = d /\ d \in explicit'
    BY <1>1, <1>3, <1>4, <1>5, <2>2 DEF Needed, OwnersReal
  <2> QED
    BY <1>1, <1>2, <2>1, <2>2 DEF OwnersReal, RequirementsOf
<1> QED
  BY <1>7, <1>8 DEF Needed

LEMMA InitNeed == Init => NeedInv
BY DEF Init, NeedInv, Installed

LEMMA NextNeed ==
    OwnersInv /\ OwnersInv' /\ ExactInv /\ NeedInv /\ [Next]_vars => NeedInv'
<1> SUFFICES ASSUME OwnersInv, OwnersInv', ExactInv, NeedInv, [Next]_vars PROVE NeedInv'
  OBVIOUS
<1>1. CASE UNCHANGED vars
  <2>1. UNCHANGED <<world, explicit, ensured, store, orphans, command, planned, records, done,
                    owning, pc, disturbed>>
    BY <1>1 DEF vars, machine, round
  <2> QED
    BY <2>1 DEF NeedInv, Accounted, OwnersReal, Removing, Installed, Kept, Listed, RequirementsOf
<1>2. CASE Crash
  BY <1>2 DEF Crash, NeedInv
<1>3. CASE Next
  BY <1>2, <1>3, PlanningNeed, RecoverNeed, ExecuteNeed, SyncNeed, ReconcileNeed,
     ChangeOwnersNeed, DecideNeed, RemoveOrphansNeed, NextRoundNeed, FinishNeed DEF Next
<1> QED
  BY <1>1, <1>3

LEMMA NeedInvariant == Spec => []NeedInv
BY InitNeed, NextNeed, OwnersInvariant, ExactInvariant, PTL DEF Spec

\* As long as no package fails and no process dies, removeOrphanedDependencies goes
\* on to the end of every chain of dependencies: when a command has ended, each
\* package of a system that can be listed was asked for, was brought by `ensure' or
\* is required by one that is installed.
THEOREM CleanupIsComplete == Spec => []CleanupComplete
<1>1. OwnersInv /\ NeedInv => CleanupComplete
  <2> SUFFICES ASSUME OwnersInv, NeedInv, pc = "idle", ~disturbed,
                      NEW d \in Installed, d \notin explicit \cup ensured, Listed(d)
               PROVE  \E p \in Installed : d \in RequirementsOf(p)
    BY DEF CleanupComplete, Listed
  <2>1. Accounted(d) /\ d \in Names
    BY DEF NeedInv, Installed
  <2> QED
    BY <2>1, SettledNeed
<1> QED
  BY <1>1, OwnersInvariant, NeedInvariant, PTL
=============================================================================
