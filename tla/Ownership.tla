----------------------------- MODULE Ownership ------------------------------
(***************************************************************************)
(* How dependencies come and go (engine/scheduler/executor_history_sync.cpp *)
(* with the planner and the installed state): a command is planned,        *)
(* executed, written to the installed state, the owners of the packages    *)
(* are adjusted, and dependencies left without an owner are removed, with  *)
(* what they needed in turn.  Commands follow each other; the process may  *)
(* die between any two writes, and the next command then recovers what was *)
(* not executed, without telling the installed state.                      *)
(*                                                                         *)
(* The execution of a plan is taken as the modules TaskScheduler and       *)
(* Executer have it: a package is executed only after its dependencies     *)
(* succeeded, and is recorded as a success exactly if it was done.         *)
(***************************************************************************)
EXTENDS Planner

CONSTANTS Latest,       \* the newest version of a package
          Unlisted,     \* systems whose plugin lists nothing
          Requests,     \* the sets of packages users ask for in one command
          MaxCrashes    \* bound

ASSUME OwnershipAssumption ==
    /\ Latest \in [Names -> Nat \ {0}]
    /\ Unlisted \subseteq Systems
    /\ Requests \subseteq SUBSET Names
    /\ MaxCrashes \in Nat

Actions == {"install", "ensure", "update", "remove"}

InstallLike(action) == action # "remove"

VARIABLES
    world,      \* version of each package on the machine, 0 if it is not installed
    store,      \* the installed state
    ready,      \* systems with the marker .requirements_ready
    pc,
    command,    \* what the planner handed to execute()
    planned,    \* what was left of it by filterExecutable
    done,       \* success records of the plan
    records,    \* success records the current round works on
    syncing,    \* systems still to be listed
    entries,    \* packages still to be entered one by one
    owning,     \* changes of owners still to be written
    orphans,    \* dependencies still to be removed
    pending,    \* unfinished packages of an earlier run, and its action
    crashes,
    \* History.  relies: a package was installed when the dependency was there and
    \* tracked.  explicit: the user asked for it.  ensured: brought by `ensure'.
    relies, explicit, ensured,
    disturbed   \* something failed or crashed so far

machine == <<world, relies, explicit, ensured>>
round == <<records, syncing, entries, owning, orphans>>
vars == <<machine, store, ready, pc, command, planned, done, round, pending, crashes,
          disturbed>>

NoCommand == [action |-> "install", direct |-> {}, packages |-> {}, edges |-> {}]
NoPending == [action |-> "install", packages |-> {}]

Installed == {n \in Names : world[n] > 0}

Init ==
    /\ world = [n \in Names |-> 0]
    /\ store = [n \in {} |-> [version |-> AnyVersion, owners |-> {}]]
    /\ ready = {}
    /\ pc = "idle"
    /\ command = NoCommand
    /\ planned = {} /\ done = {} /\ records = {}
    /\ syncing = {} /\ entries = {} /\ owning = {} /\ orphans = {}
    /\ pending = NoPending
    /\ crashes = 0
    /\ relies = {} /\ explicit = {} /\ ensured = {}
    /\ disturbed = FALSE
-----------------------------------------------------------------------------
(* The plugins.                                                            *)

\* getMissingPackages: what is left to do for an action.
Missing(action, packages) ==
    {n \in packages :
        CASE action \in {"install", "ensure"} -> world[n] = 0
          [] action = "update" -> world[n] > 0 /\ world[n] < Latest[n]
          [] action = "remove" -> world[n] > 0}

\* The machine after an action on some packages; what the history says of
\* packages that are gone is forgotten.
Perform(action, packages) ==
    LET after == [n \in Names |->
            IF n \notin packages THEN world[n]
            ELSE CASE action \in {"install", "ensure"} -> 1
                   [] action = "update" -> Latest[n]
                   [] action = "remove" -> 0]
        there == {n \in Names : after[n] > 0}
    IN  /\ world' = after
        /\ relies' = relies \cap (there \X there)
        /\ explicit' = explicit \cap there
        /\ ensured' = ensured \cap there

\* list()
Listing(s) == [n \in IF s \in Unlisted THEN {} ELSE Installed \cap OfSystem(s) |-> world[n]]
-----------------------------------------------------------------------------
(* Planning, recovery and execution.                                       *)

\* Planner::plan.  An install or ensure with nothing to do ends here.
Plan(action, direct, graph) ==
    /\ IF graph.packages = {}
       THEN UNCHANGED <<pc, command>>
       ELSE /\ command' = [action |-> action, direct |-> direct \cap graph.packages,
                           packages |-> graph.packages, edges |-> graph.edges]
            /\ pc' = "recover"
    /\ UNCHANGED <<machine, store, planned, done, round, pending, crashes, disturbed>>

PlanInstall(requested) ==
    LET missing == Missing("install", Names) IN
    /\ pc = "idle"
    /\ Plan("install", requested, InstallGraph(requested, ready, missing))
    /\ ready' = MarkReady({System[n] : n \in FilterRequestedPackages(requested, missing)},
                          ready, missing)

PlanEnsure(s) ==
    /\ pc = "idle"
    /\ Plan("ensure", {}, EnsureGraph(s, Missing("install", Names)))
    /\ UNCHANGED ready

\* Users update and remove what is installed.
PlanChange(action, requested) ==
    /\ pc = "idle"
    /\ requested \subseteq Installed
    /\ Plan(action, requested, PlainGraph(requested))
    /\ UNCHANGED ready

\* recoverPendingTaskGroups: the rest of an earlier run is executed first, and no
\* history is written of it.  If it fails, the command is given up.
Recover ==
    /\ pc = "recover"
    /\ \E recovered \in SUBSET pending.packages :
          /\ Perform(pending.action, recovered)
          /\ IF recovered = pending.packages
             THEN /\ pc' = "execute"
                  /\ pending' = NoPending
                  /\ UNCHANGED <<command, disturbed>>
             ELSE /\ pc' = "idle"
                  /\ \E rest \in SUBSET (pending.packages \ recovered) :
                        /\ rest # pending.packages \ recovered
                        /\ pending' = IF rest = {} THEN NoPending
                                      ELSE [pending EXCEPT !.packages = rest]
                  /\ command' = NoCommand
                  /\ disturbed' = TRUE
    /\ UNCHANGED <<store, ready, planned, done, round, crashes>>

\* filterExecutable and executeTaskGroups: any of the packages may fail, and one
\* whose dependency fails is not executed.
Execute ==
    /\ pc = "execute"
    /\ planned' = Missing(command.action, command.packages)
    /\ \E succeeded \in SUBSET planned' :
          /\ \A e \in command.edges :
                e[2] \in succeeded => e[1] \in succeeded \/ e[1] \notin planned'
          /\ Perform(command.action, succeeded)
          /\ done' = succeeded
          /\ records' = succeeded
          /\ syncing' = {System[n] : n \in succeeded}
          /\ pending' = IF succeeded = planned' THEN NoPending
                        ELSE [action |-> command.action, packages |-> planned' \ succeeded]
          /\ disturbed' = (disturbed \/ succeeded # planned')
    /\ pc' = "sync"
    /\ UNCHANGED <<store, ready, command, entries, owning, orphans, crashes>>
-----------------------------------------------------------------------------
(* recordHistory and the owners.                                           *)

\* syncInstalledStateForSystem: an empty listing is believed after a removal only.
SyncAllowed(s) == DOMAIN Listing(s) # {} \/ command.action = "remove"

\* refreshInstalledState, one system after the other.
Sync(s) ==
    /\ pc = "sync"
    /\ s \in syncing
    /\ syncing' = syncing \ {s}
    /\ IF SyncAllowed(s)
       THEN store' = ReplaceSystem(store, s, Listing(s)) /\ UNCHANGED entries
       ELSE entries' = entries \cup (records \cap OfSystem(s)) /\ UNCHANGED store
    /\ UNCHANGED <<machine, ready, pc, command, planned, done, records, owning, orphans,
                   pending, crashes, disturbed>>

\* updateInstalledState, for the packages of a system that could not be listed.
UpdateEntry(n) ==
    /\ pc = "sync"
    /\ syncing = {} /\ n \in entries
    /\ entries' = entries \ {n}
    /\ store' = IF command.action = "remove" THEN RemoveEntry(store, n)
                ELSE UpsertEntry(store, n)
    /\ UNCHANGED <<machine, ready, pc, command, planned, done, records, syncing, owning,
                   orphans, pending, crashes, disturbed>>

\* The other packages of the command that require a package, installed or not.
NeededBy(n) == {Pkg(c) : c \in {p \in command.packages \ {n} : n \in RequirementsOf(p)}}

\* Merges that enters a bare name where an owner id belongs.
MergesByName(n) ==
    {[op |-> "merge", name |-> d, owners |-> {<<"name", n>>}] : d \in RequirementsOf(n)}

\* mergeOwnershipForPackage
Merges(n) ==
    {[op |-> "merge", name |-> n,
      owners |-> NeededBy(n) \cup (IF n \in command.direct THEN {Root(n)} ELSE {})]}
    \cup {[op |-> "merge", name |-> d, owners |-> {Pkg(n)}] : d \in RequirementsOf(n)}

\* reconcileInstalledOwnership: the packages that were installed, and the ones the
\* user asked for that needed nothing.
Kept == done \cup (command.direct \ planned)

\* subtractDependencyOwnership
Subtracts(n) ==
    {[op |-> "subtract", name |-> d, owners |-> {Pkg(n)}] : d \in RequirementsOf(n)}

OwnerChanges ==
    IF command.action = "remove" THEN UNION {Subtracts(n) : n \in records}
    ELSE UNION {Merges(n) : n \in Kept}

Reconcile ==
    /\ pc = "sync"
    /\ syncing = {} /\ entries = {}
    /\ owning' = OwnerChanges
    /\ pc' = "owners"
    /\ UNCHANGED <<machine, store, ready, command, planned, done, records, syncing,
                   entries, orphans, pending, crashes, disturbed>>

\* One transaction for each change; a round only merges or only subtracts, so the
\* order makes no difference.
ChangeOwners ==
    /\ pc = "owners"
    /\ owning # {}
    /\ LET change == CHOOSE c \in owning : TRUE IN
       /\ store' = IF change.op = "merge"
                   THEN MergeOwners(store, change.name, change.owners)
                   ELSE SubtractOwners(store, change.name, change.owners)
       /\ owning' = owning \ {change}
    /\ UNCHANGED <<machine, ready, pc, command, planned, done, records, syncing, entries,
                   orphans, pending, crashes, disturbed>>
-----------------------------------------------------------------------------
(* removeOrphanedDependencies                                              *)

\* Orphaned that counts the user as the only owner.
OrphanedUnlessRoot(n) == n \in DOMAIN store /\ Root(n) \notin store[n].owners

\* A tracked dependency without owners.
Orphaned(n) == n \in DOMAIN store /\ store[n].owners = {}

FindOrphans ==
    IF command.action = "remove"
    THEN {d \in UNION {RequirementsOf(n) : n \in records} : Orphaned(d)}
    ELSE {}

DecideOrphans ==
    /\ pc = "owners"
    /\ owning = {}
    /\ FindOrphans # {}
    /\ orphans' = FindOrphans
    /\ records' = {}
    /\ pc' = "orphans"
    /\ UNCHANGED <<machine, store, ready, command, planned, done, syncing, entries,
                   owning, pending, crashes, disturbed>>

\* executeTaskGroup for the orphans of one system, outside any run: the batch is a
\* success as a whole, or failed whatever it has done.
RemoveOrphans(s) ==
    LET batch == orphans \cap OfSystem(s) IN
    /\ pc = "orphans"
    /\ batch # {}
    /\ orphans' = orphans \ batch
    /\ \/ /\ Perform("remove", batch)
          /\ records' = records \cup batch
          /\ UNCHANGED disturbed
       \/ /\ \E some \in SUBSET batch : Perform("remove", some)
          /\ disturbed' = TRUE
          /\ UNCHANGED records
    /\ UNCHANGED <<store, ready, pc, command, planned, done, syncing, entries, owning,
                   pending, crashes>>

\* NextRound that records nothing.
NextRoundUnrecorded ==
    /\ pc = "orphans"
    /\ orphans = {}
    /\ pc' = "sync"
    /\ UNCHANGED <<machine, store, ready, command, planned, done, round, pending, crashes,
                   disturbed>>

\* NextRound that looks no further.
NextRoundLast ==
    /\ pc = "orphans"
    /\ orphans = {}
    /\ syncing' = {System[n] : n \in records}
    /\ records' = {}
    /\ pc' = "sync"
    /\ UNCHANGED <<machine, store, ready, command, planned, done, entries, owning,
                   orphans, pending, crashes, disturbed>>

\* The removed orphans are recorded in turn, and their dependencies looked at.
NextRound ==
    /\ pc = "orphans"
    /\ orphans = {}
    /\ syncing' = {System[n] : n \in records}
    /\ pc' = "sync"
    /\ UNCHANGED <<machine, store, ready, command, planned, done, records, entries, owning,
                   orphans, pending, crashes, disturbed>>
-----------------------------------------------------------------------------

\* What a command forgets when it ends or dies.
Forget ==
    /\ pc' = "idle"
    /\ command' = NoCommand
    /\ planned' = {} /\ done' = {} /\ records' = {}
    /\ syncing' = {} /\ entries' = {} /\ owning' = {} /\ orphans' = {}

\* The command ends.  Packages that were never started stay pending in the run
\* after a failure.
Finish ==
    /\ pc = "owners"
    /\ owning = {}
    /\ FindOrphans = {}
    /\ Forget
    /\ IF pending.packages = {} THEN UNCHANGED pending
       ELSE \E rest \in SUBSET pending.packages :
              /\ rest # pending.packages
              /\ pending' = IF rest = {} THEN NoPending
                            ELSE [pending EXCEPT !.packages = rest]
    /\ relies' = relies \cup
          {r \in done \X Installed :
              InstallLike(command.action) /\ r[2] \in RequirementsOf(r[1])
                                          /\ r[2] \in DOMAIN store}
    /\ explicit' = explicit \cup
          {n \in command.direct \cap Kept : InstallLike(command.action) /\ n \in DOMAIN store}
    /\ ensured' = ensured \cup {n \in done : command.action = "ensure"}
    /\ UNCHANGED <<world, store, ready, crashes, disturbed>>

\* The process dies; the run stays in the transaction database.
Crash ==
    /\ pc # "idle"
    /\ crashes < MaxCrashes
    /\ crashes' = crashes + 1
    /\ disturbed' = TRUE
    /\ Forget
    /\ UNCHANGED <<machine, store, ready, pending>>

Next ==
    \/ \E r \in Requests : PlanInstall(r)
    \/ \E r \in Requests, action \in {"update", "remove"} : PlanChange(action, r)
    \/ \E s \in Systems : PlanEnsure(s) \/ Sync(s) \/ RemoveOrphans(s)
    \/ \E n \in Names : UpdateEntry(n)
    \/ Recover \/ Execute \/ Reconcile \/ ChangeOwners \/ DecideOrphans \/ NextRound
    \/ Finish \/ Crash

Spec == Init /\ [][Next]_vars
-----------------------------------------------------------------------------
(* Properties.                                                             *)

Changes == [op : {"merge", "subtract"}, name : Names, owners : SUBSET Owners]

\* Every variable keeps its type.
TypeOK ==
    /\ world \in [Names -> Nat]
    /\ IsStore(store)
    /\ ready \in SUBSET Systems
    /\ pc \in {"idle", "recover", "execute", "sync", "owners", "orphans"}
    /\ command \in [action : Actions, direct : SUBSET Names, packages : SUBSET Names,
                    edges : SUBSET (Names \X Names)]
    /\ command.direct \subseteq command.packages
    /\ planned \in SUBSET command.packages /\ done \in SUBSET planned
    /\ records \in SUBSET Names /\ syncing \in SUBSET Systems
    /\ entries \in SUBSET Names /\ orphans \in SUBSET Names
    /\ owning \in SUBSET Changes
    /\ pending \in [action : Actions, packages : SUBSET Names]
    /\ crashes \in 0 .. MaxCrashes
    /\ relies \in SUBSET (Names \X Names)
    /\ explicit \in SUBSET Names /\ ensured \in SUBSET Names
    /\ disturbed \in BOOLEAN

\* A dependency is never removed as an orphan while a package that was installed
\* on top of it is still there: whatever was installed, updated, removed, failed or
\* crashed in between, its owner has survived in the installed state.
DependentsKept ==
    \A d \in orphans : ~ \E p \in Installed : <<p, d>> \in relies

\* A package the user asked for is never removed as an orphan.
ExplicitKept == orphans \cap explicit = {}

\* As long as nothing fails, a dependency does not outlive the packages that need
\* it, however long the chain: when a command has ended, each package was asked
\* for, was brought by `ensure', or is needed by one that is installed.
CleanupComplete ==
    pc = "idle" /\ ~disturbed =>
        \A d \in Installed \ (explicit \cup ensured) :
            System[d] \in Unlisted \/ \E p \in Installed : d \in RequirementsOf(p)

\* As long as nothing fails, the installed state of every system that can be listed
\* is what is installed, orphans that were removed included.
InstalledStateExact ==
    pc = "idle" /\ ~disturbed =>
        \A n \in Names : System[n] \notin Unlisted =>
            /\ n \in DOMAIN store <=> n \in Installed
            /\ n \in Installed => store[n].version = world[n]

\* A package that was installed has the packages its plugin requires.
RequirementsProvisioned ==
    pc = "owners" /\ command.action = "install" /\ ~disturbed =>
        \A n \in done : RequirementsOf(n) \subseteq Installed

-----------------------------------------------------------------------------
(* The inductive invariants behind the safety properties.                  *)

\* The plugin of the package's system can list it.
Listed(n) == System[n] \notin Unlisted

\* What plugins require can be listed.
RequirementsListed == \A s \in Systems : \A d \in Requires[s] : System[d] \notin Unlisted

Removing == command.action = "remove"

\* What each phase of a command may have under way, and that it works on packages
\* that are installed, or gone.
PhaseInv ==
    /\ pc # "sync" => syncing = {} /\ entries = {}
    /\ pc # "owners" => owning = {}
    /\ pc # "orphans" => orphans = {}
    /\ pc \in {"idle", "recover", "execute"} => planned = {} /\ records = {}
    /\ pc = "orphans" => Removing
    /\ IF Removing THEN records \cap Installed = {}
                   ELSE records = done /\ done \subseteq Installed
    /\ \A s \in syncing : \E n \in records : System[n] = s
    /\ \A n \in entries : ~Listed(n)
    /\ \A d \in orphans : \E s \in Systems : d \in Requires[s]

\* Changes of owners: a removal takes away the ids of packages that are gone, and
\* any other command enters ids of its own packages.
ChangesInv ==
    \A c \in owning :
        IF Removing
        THEN c.op = "subtract" /\ \E n \in records : c.owners = {Pkg(n)}
        ELSE /\ c.op = "merge"
             /\ \A q \in Names : Pkg(q) \in c.owners =>
                   q \in command.packages /\ c.name \in RequirementsOf(q)
             /\ \A d \in Names : Root(d) \in c.owners =>
                   d = c.name /\ d \in command.direct \cap Kept

\* The owner id is in the entry of n, or about to be.
Entered(id, n) ==
    n \in DOMAIN store =>
        \/ id \in store[n].owners
        \/ \E c \in owning : c.name = n /\ id \in c.owners

\* Nothing that may be relied on loses its owners: what a package was installed on
\* top of has its id, what the user asked for the user's id.
TrackingInv ==
    /\ relies \subseteq Installed \X Installed
    /\ pc \notin {"idle", "recover"} => explicit \subseteq Installed
    /\ \A r \in relies : Listed(r[2]) =>
          r[2] \in DOMAIN store /\ Pkg(r[1]) \in store[r[2]].owners
    /\ \A n \in explicit : Listed(n) => n \in DOMAIN store /\ Root(n) \in store[n].owners
    /\ pc = "owners" /\ ~Removing => \A n \in Kept :
          /\ \A d \in RequirementsOf(n) : Entered(Pkg(n), d)
          /\ n \in command.direct => Entered(Root(n), n)
    /\ \A d \in orphans : Listed(d) => d \notin explicit /\ \A r \in relies : r[2] # d

OwnersInv == TypeOK /\ PhaseInv /\ ChangesInv /\ TrackingInv

\* The entry of n says what is installed.
Exact(n) ==
    /\ n \in DOMAIN store <=> n \in Installed
    /\ n \in Installed => store[n].version = world[n]

\* As long as nothing fails, an entry is exact or about to be refreshed.
ExactInv ==
    ~disturbed =>
        /\ pending.packages = {}
        /\ \A n \in Names : Listed(n) =>
              \/ Exact(n)
              \/ System[n] \in syncing
              \/ pc = "orphans" /\ n \in records

\* The owners of an installed package exist, or are about to be taken away.
OwnersReal(d) ==
    /\ \A q \in Names : Pkg(q) \in store[d].owners =>
          /\ d \in RequirementsOf(q)
          /\ \/ q \in Installed
             \/ q \in records /\ pc # "owners"
             \/ \E c \in owning : c.op = "subtract" /\ c.name = d /\ Pkg(q) \in c.owners
    /\ \A m \in Names : Root(m) \in store[d].owners =>
          /\ m = d
          /\ d \in explicit \/ (pc = "owners" /\ ~Removing /\ d \in command.direct \cap Kept)

\* Why package d is on the machine.
Accounted(d) ==
    \/ d \in explicit \cup ensured
    \/ \E p \in Installed : d \in RequirementsOf(p)
    \/ d \in orphans
    \/ Removing /\ \E n \in records : d \in RequirementsOf(n)
    \/ ~Removing /\ d \in done /\ (d \in command.direct \/ command.action = "ensure")

\* As long as nothing fails, every package is there for a reason: the command that
\* took the reason away has still to look at it.
NeedInv ==
    ~disturbed =>
        /\ \A d \in Installed : Listed(d) =>
              Accounted(d) /\ (d \in DOMAIN store => OwnersReal(d))
        /\ pc \in {"recover", "execute"} =>
              /\ command.action = "update" => command.packages \subseteq Installed
              /\ command.action = "install" =>
                    \A d \in command.packages \ command.direct :
                        \E p \in command.packages : d \in RequirementsOf(p)
        /\ pc \in {"sync", "owners"} /\ ~Removing => command.packages \subseteq Installed

CleanupInv == ExactInv /\ NeedInv
=============================================================================
