------------------------------ MODULE Executer ------------------------------
(***************************************************************************)
(* Executer::execute (engine/scheduler/executor_run.cpp) with the          *)
(* transaction database on: recover what an earlier, interrupted run left, *)
(* filter and record the new task groups, execute them, write the results  *)
(* and commit or keep the run.  Processes crash between any two steps and  *)
(* lose everything but the database and what the plugins have done to the  *)
(* host; a database transaction may fail.                                  *)
(*                                                                         *)
(* An item is one package action with its desired end state (INSTALL,      *)
(* ENSURE, REMOVE and UPDATE are all checked with getMissingPackages);     *)
(* `satisfied' is the set of items whose end state holds on the host.      *)
(* Group g is the items of one package system, its flags and versions left *)
(* out.  ParallelTaskScheduler::run is used here through what              *)
(* TaskGroupExecution promises; TaskScheduler shows that it keeps that.    *)
(* History, ownership and orphan removal (lines 91-98 of execute) are not  *)
(* part of this module: they write no item of a run.                       *)
(***************************************************************************)
EXTENDS TransactionDatabase

CONSTANTS Procs,           \* processes that run the program on this host
          GroupCount,      \* groups, numbered in the order of the plan
          GroupOf,         \* the group of each item
          DirectGroups,    \* groups that may have a local target, or are the gateway's
          DryRuns,         \* values of config.execution.dryRun
          DeleteCommitted, \* config.execution.deleteCommittedTransactions
          MaxCrashes,      \* bound on crashes
          MaxDbErrors      \* bound on failing transactions

Groups == 1 .. GroupCount

ASSUME ExecuterAssumption ==
    /\ GroupCount \in Nat /\ MaxCrashes \in Nat /\ MaxDbErrors \in Nat
    /\ GroupOf \in [Items -> Groups]
    /\ DirectGroups \subseteq Groups
    /\ DryRuns \subseteq BOOLEAN
    /\ DeleteCommitted \in BOOLEAN

VARIABLES edges,              \* <<h, g>>: group g depends on group h
          direct,             \* groups with a local target, or of the security gateway
          stopOnFirstFailure, \* config.execution.stopOnFirstFailure
          satisfied,          \* items whose desired end state holds on the host
          exec,               \* exec[p]: the call of execute in process p
          crashes, dbErrors   \* faults so far

config == <<edges, direct, stopOnFirstFailure>>
vars == <<database, config, satisfied, exec, crashes, dbErrors>>

\* A process that is not in execute(): `result' is what the last call returned.
Outside(result) ==
    [pc |-> "idle", result |-> result,
     request |-> {},                           \* items of the graph
     loadable |-> {},                          \* groups whose plugin can be loaded
     dryRun |-> FALSE,
     activeRunId |-> NoRun,
     recovering |-> FALSE,                     \* executing recovered groups
     unchecked |-> {},                         \* items recovery has not looked at
     todo |-> {},                              \* items of the task groups
     group |-> [g \in Groups |-> "none"],
     records |-> [i \in Items |-> "none"],     \* TransactionRecords to write
     ok |-> FALSE]

Init ==
    /\ InitDatabase
    /\ edges \in SUBSET {e \in Groups \X Groups : e[1] < e[2]}
    /\ direct \in SUBSET DirectGroups
    /\ stopOnFirstFailure \in BOOLEAN
    /\ satisfied = {}
    /\ exec = [p \in Procs |-> Outside("none")]
    /\ crashes = 0
    /\ dbErrors = 0

Leave(p, result) == exec' = [exec EXCEPT ![p] = Outside(result)]

\* A write transaction commits or fails as a whole.
Transaction(write) ==
    \/ write /\ UNCHANGED dbErrors
    \/ /\ dbErrors < MaxDbErrors
       /\ dbErrors' = dbErrors + 1
       /\ UNCHANGED database

\* The groups, one per package system, that the items belong to.
Systems(items) == {GroupOf[i] : i \in items}

\* The task groups for a set of items, none of them started.
Waiting(items) ==
    [g \in Groups |-> IF g \in Systems(items) THEN "waiting" ELSE "none"]

-----------------------------------------------------------------------------
(* Recovery of the run that is still active.                               *)

\* A command reaches execute(); its graph is first looked at in CheckActive.
Invoke(p) ==
    /\ exec[p].pc = "idle"
    /\ \E dryRun \in DryRuns :
           exec' = [exec EXCEPT ![p].pc = "recover",
                                ![p].result = "none",
                                ![p].dryRun = dryRun]
    /\ UNCHANGED <<database, config, satisfied, crashes, dbErrors>>

\* Pending that also resumes items that have failed.
PendingThoughFailed(r) ==
    {i \in GetRunItems(r) : itemStatus[r][i] \notin {"success", "committed"}}

\* The items recovery looks at: those without a final status.
Pending(r) ==
    {i \in GetRunItems(r) : itemStatus[r][i] \notin {"success", "committed", "failed"}}

\* recoverPendingTaskGroups, up to the call of reconcileRecoveredItems.  Which
\* plugins can be loaded is settled here for the groups of the old run.
BeginRecovery(p) ==
    /\ exec[p].pc = "recover"
    /\ IF GetActiveRun = NoRun \/ runState[GetActiveRun] = "committed"
       THEN exec' = [exec EXCEPT ![p].pc = "check"]
       ELSE \E loadable \in SUBSET Systems(Pending(GetActiveRun)) :
              exec' = [exec EXCEPT ![p].pc = "reconcile",
                                   ![p].loadable = loadable,
                                   ![p].activeRunId = GetActiveRun,
                                   ![p].unchecked = Pending(GetActiveRun)]
    /\ UNCHANGED <<database, config, satisfied, crashes, dbErrors>>

\* One item of reconcileRecoveredItems: it has reached its end state and is
\* recorded as a success, or it stays to be done (still missing, plugin not
\* available, or the database refuses the update).
ReconcileItem(p, i) ==
    /\ exec[p].pc = "reconcile"
    /\ i \in exec[p].unchecked
    /\ LET r == exec[p].activeRunId
           reached == GroupOf[i] \in exec[p].loadable /\ i \in satisfied
       IN  /\ IF reached THEN Transaction(UpdateItemsStatus(r, {i}, "success"))
                         ELSE UNCHANGED <<database, dbErrors>>
           /\ exec' = [exec EXCEPT
                 ![p].unchecked = @ \ {i},
                 ![p].todo = IF reached /\ Recorded(r, {i}) /\ dbErrors' = dbErrors
                             THEN @ ELSE @ \cup {i}]
    /\ UNCHANGED <<config, satisfied, crashes>>

Reconciled(p) == exec[p].pc = "reconcile" /\ exec[p].unchecked = {}

\* Nothing is left to do: the run is committed, whatever its items are.
CloseRecovered(p) ==
    /\ Reconciled(p)
    /\ exec[p].todo = {}
    /\ Transaction(MarkRunCommitted(exec[p].activeRunId))
    /\ exec' = [exec EXCEPT ![p].pc = IF DeleteCommitted THEN "purge" ELSE "check"]
    /\ UNCHANGED <<config, satisfied, crashes>>

\* deleteRun at the end of that path, whether or not the commit succeeded.
PurgeRecovered(p) ==
    /\ exec[p].pc = "purge"
    /\ Transaction(DeleteRun(exec[p].activeRunId))
    /\ exec' = [exec EXCEPT ![p].pc = "check"]
    /\ UNCHANGED <<config, satisfied, crashes>>

\* The pending items become task groups, to be executed without the graph.
ResumeRecovered(p) ==
    /\ Reconciled(p)
    /\ exec[p].todo # {}
    /\ Transaction(MarkRunState(exec[p].activeRunId, "recovered"))
    /\ exec' = [exec EXCEPT ![p].pc = "execute",
                            ![p].recovering = TRUE,
                            ![p].group = Waiting(exec[p].todo)]
    /\ UNCHANGED <<config, satisfied, crashes>>
-----------------------------------------------------------------------------
(* The new run.                                                            *)

\* Executable without the call of getMissingPackages.
ExecutableUnfiltered(request, loadable) == request

\* filterExecutableTaskGroups: satisfied items are left out, except in groups
\* that are not asked (plugin not available, local target, security gateway).
Executable(request, loadable) ==
    {i \in request : \/ i \notin satisfied
                     \/ GroupOf[i] \notin loadable
                     \/ GroupOf[i] \in direct}

\* The active run, if there is one, could not be recovered: execute() gives up.
\* Else the graph is filtered.
CheckActive(p) ==
    /\ exec[p].pc = "check"
    /\ \/ GetActiveRun # NoRun /\ Leave(p, "failed")
       \/ /\ GetActiveRun = NoRun
          /\ \E request \in SUBSET Items : \E loadable \in SUBSET Systems(request) :
                exec' = [exec EXCEPT ![p] =
                    [Outside("none") EXCEPT
                        !.pc = IF Executable(request, loadable) = {} THEN "empty"
                                                                     ELSE "create",
                        !.dryRun = exec[p].dryRun,
                        !.request = request,
                        !.loadable = loadable,
                        !.todo = Executable(request, loadable)]]
    /\ UNCHANGED <<database, config, satisfied, crashes, dbErrors>>

\* Nothing is left to do: no run is created and the call succeeds.
NothingToDo(p) ==
    /\ exec[p].pc = "empty"
    /\ Leave(p, "ok")
    /\ UNCHANGED <<database, config, satisfied, crashes, dbErrors>>

\* createRun reads "active_run" ...
CheckCreate(p) ==
    /\ exec[p].pc = "create"
    /\ IF activeRun # NoRun THEN Leave(p, "failed")
                            ELSE exec' = [exec EXCEPT ![p].pc = "put"]
    /\ UNCHANGED <<database, config, satisfied, crashes, dbErrors>>

\* ... and writes the new run in another transaction.
PutRun(p) ==
    /\ exec[p].pc = "put"
    /\ \/ \E r \in RunIds :
              /\ CreateRun(r, exec[p].todo)
              /\ exec' = [exec EXCEPT ![p].pc = "execute",
                                      ![p].activeRunId = r,
                                      ![p].group = Waiting(exec[p].todo)]
              /\ UNCHANGED dbErrors
       \/ /\ dbErrors < MaxDbErrors
          /\ dbErrors' = dbErrors + 1
          /\ Leave(p, "failed")
          /\ UNCHANGED database
    /\ UNCHANGED <<config, satisfied, crashes>>
-----------------------------------------------------------------------------
(* Execution of the task groups.                                           *)

GroupItems(p, g) == {i \in exec[p].todo : GroupOf[i] = g}

Stopped(p) == stopOnFirstFailure /\ \E g \in Groups : exec[p].group[g] = "failed"

\* Recovered groups run one after the other and without the graph, groups of a
\* new run as soon as the groups they depend on have succeeded.
MayStart(p, g) ==
    /\ exec[p].pc = "execute"
    /\ exec[p].group[g] = "waiting"
    /\ ~Stopped(p)
    /\ \A h \in Groups :
          IF exec[p].recovering
          THEN exec[p].group[h] # "running"
          ELSE <<h, g>> \in edges => exec[p].group[h] \in {"none", "succeeded"}

\* Group g ends with one record per item.
EndGroup(p, g, record) ==
    exec' = [exec EXCEPT
        ![p].group[g] = IF \E i \in GroupItems(p, g) : record[i] = "failed"
                        THEN "failed" ELSE "succeeded",
        ![p].records = [i \in Items |->
                          IF i \in GroupItems(p, g) THEN record[i] ELSE @[i]]]

AllOf(outcome) == [i \in Items |-> outcome]

\* LoadFailed that forgets the records.
LoadFailedUnreported(p, g) ==
    /\ MayStart(p, g)
    /\ g \notin exec[p].loadable
    /\ exec' = [exec EXCEPT ![p].group[g] = "failed"]
    /\ UNCHANGED <<database, config, satisfied, crashes, dbErrors>>

\* The plugin is not available: failure records, nothing else.
LoadFailed(p, g) ==
    /\ MayStart(p, g)
    /\ g \notin exec[p].loadable
    /\ EndGroup(p, g, AllOf("failed"))
    /\ UNCHANGED <<database, config, satisfied, crashes, dbErrors>>

\* A dry run reports success without a call of the plugin.
Rehearse(p, g) ==
    /\ MayStart(p, g)
    /\ g \in exec[p].loadable
    /\ exec[p].dryRun
    /\ EndGroup(p, g, AllOf("success"))
    /\ UNCHANGED <<database, config, satisfied, crashes, dbErrors>>

\* The items are marked "running" in one transaction before the plugin is called;
\* if that fails the plugin is not called.
MarkRunning(p, g) ==
    /\ MayStart(p, g)
    /\ g \in exec[p].loadable \ direct
    /\ ~exec[p].dryRun
    /\ Transaction(UpdateItemsStatus(exec[p].activeRunId, GroupItems(p, g), "running"))
    /\ IF Recorded(exec[p].activeRunId, GroupItems(p, g)) /\ dbErrors' = dbErrors
       THEN exec' = [exec EXCEPT ![p].group[g] = "running"]
       ELSE EndGroup(p, g, AllOf("failed"))
    /\ UNCHANGED <<config, satisfied, crashes>>

\* A local target goes to installLocal and its items stay "planned" meanwhile.
StartDirect(p, g) ==
    /\ MayStart(p, g)
    /\ g \in exec[p].loadable \cap direct
    /\ ~exec[p].dryRun
    /\ exec' = [exec EXCEPT ![p].group[g] = "running"]
    /\ UNCHANGED <<database, config, satisfied, crashes, dbErrors>>

\* The plugin brings one of the packages to its end state.
PluginEffect(p, i) ==
    /\ exec[p].group[GroupOf[i]] = "running"
    /\ i \in exec[p].todo \ satisfied
    /\ satisfied' = satisfied \cup {i}
    /\ UNCHANGED <<database, config, exec, crashes, dbErrors>>

\* OutcomeOf without the second look at the packages of a failed batch.
OutcomeOfUnchecked(p, g) == AllOf("success")

\* OutcomeOf with a status the database does not know.
OutcomeOfSkipped(p, g) ==
    [i \in Items |-> IF i \in satisfied THEN "success" ELSE "skipped"]

\* The records of a group whose plugin call has returned.  A plugin that returns
\* true has brought every package to its end state; after a failure the packages
\* are checked again one by one.  Either way a record says what is the case.
OutcomeOf(p, g) == [i \in Items |-> IF i \in satisfied THEN "success" ELSE "failed"]

PluginReturns(p, g) ==
    /\ exec[p].group[g] = "running"
    /\ g \notin direct
    /\ EndGroup(p, g, OutcomeOf(p, g))
    /\ UNCHANGED <<database, config, satisfied, crashes, dbErrors>>

\* A direct group fails or succeeds as a whole, and is not checked again.
DirectReturns(p, g) ==
    /\ exec[p].group[g] = "running"
    /\ g \in direct
    /\ \/ GroupItems(p, g) \subseteq satisfied /\ EndGroup(p, g, AllOf("success"))
       \/ EndGroup(p, g, AllOf("failed"))
    /\ UNCHANGED <<database, config, satisfied, crashes, dbErrors>>

\* No group runs and none may start: ParallelTaskScheduler::run returns.
EndExecution(p) ==
    /\ exec[p].pc = "execute"
    /\ \A g \in Groups : exec[p].group[g] # "running" /\ ~MayStart(p, g)
    /\ exec' = [exec EXCEPT
          ![p].pc = "write",
          ![p].ok = \A i \in Items : exec[p].records[i] # "failed",
          ![p].group = [g \in Groups |-> "none"]]
    /\ UNCHANGED <<database, config, satisfied, crashes, dbErrors>>
-----------------------------------------------------------------------------
(* Results and commit.                                                     *)

\* writeTransactionResults, one record: a failing update is ignored.
WriteResult(p, i) ==
    /\ exec[p].pc = "write"
    /\ exec[p].records[i] # "none"
    /\ Transaction(UpdateItemsStatus(exec[p].activeRunId, {i}, exec[p].records[i]))
    /\ exec' = [exec EXCEPT ![p].records[i] = "none"]
    /\ UNCHANGED <<config, satisfied, crashes>>

\* markCommittedTransactions, after the last record.
MarkCommitted(p) ==
    /\ exec[p].pc = "write"
    /\ exec[p].records = AllOf("none")
    /\ Transaction(IF AllItems(exec[p].activeRunId, {"success", "committed"})
                   THEN MarkRunCommitted(exec[p].activeRunId)
                   ELSE MarkRunState(exec[p].activeRunId, "failed"))
    /\ exec' = [exec EXCEPT ![p].pc = "delete", ![p].todo = {}]
    /\ UNCHANGED <<config, satisfied, crashes>>

\* deleteCommittedTransactions: the run goes unless some run is still active.
\* After a recovery execute() turns to the new graph, else it returns.
DeleteCommittedRun(p) ==
    /\ exec[p].pc = "delete"
    /\ IF DeleteCommitted /\ GetActiveRun = NoRun
       THEN Transaction(DeleteRun(exec[p].activeRunId))
       ELSE UNCHANGED <<database, dbErrors>>
    /\ IF exec[p].recovering THEN exec' = [exec EXCEPT ![p].pc = "check"]
       ELSE Leave(p, IF exec[p].ok THEN "ok" ELSE "failed")
    /\ UNCHANGED <<config, satisfied, crashes>>
-----------------------------------------------------------------------------

\* The process dies; what a plugin has done so far stays done.
Crash(p) ==
    /\ exec[p].pc # "idle"
    /\ crashes < MaxCrashes
    /\ crashes' = crashes + 1
    /\ Leave(p, "none")
    /\ UNCHANGED <<database, config, satisfied, dbErrors>>

Recover(p) ==
    \/ BeginRecovery(p)
    \/ \E i \in Items : ReconcileItem(p, i)
    \/ CloseRecovered(p)
    \/ PurgeRecovered(p)
    \/ ResumeRecovered(p)

NewRun(p) == CheckActive(p) \/ NothingToDo(p) \/ CheckCreate(p) \/ PutRun(p)

RunGroups(p) ==
    \/ \E g \in Groups : \/ LoadFailed(p, g) \/ Rehearse(p, g) \/ MarkRunning(p, g)
                         \/ StartDirect(p, g) \/ PluginReturns(p, g)
                         \/ DirectReturns(p, g)
    \/ EndExecution(p)

Record(p) ==
    (\E i \in Items : WriteResult(p, i)) \/ MarkCommitted(p) \/ DeleteCommittedRun(p)

\* A step of the program in process p.
Step(p) == Recover(p) \/ NewRun(p) \/ RunGroups(p) \/ Record(p)

Next ==
    \E p \in Procs :
        \/ Invoke(p)
        \/ Step(p)
        \/ \E i \in Items : PluginEffect(p, i)
        \/ Crash(p)

Spec == Init /\ [][Next]_vars

\* A process that runs keeps running, a plugin call returns, and commands keep
\* coming.  A plugin need not achieve anything, and crashes are not required.
Fairness == \A p \in Procs : WF_vars(Step(p)) /\ WF_vars(Invoke(p))

FairSpec == Spec /\ Fairness

-----------------------------------------------------------------------------
(* Properties.                                                             *)

Outcomes == {"none", "success", "failed"}
GroupStatuses == {"none", "waiting", "running", "succeeded", "failed"}

\* The values the record of a call of execute() takes.
Calls ==
    [pc : {"idle", "recover", "reconcile", "purge", "check", "empty", "create",
           "put", "execute", "write", "delete"},
     result : {"none", "ok", "failed"},
     request : SUBSET Items, loadable : SUBSET Groups, dryRun : BOOLEAN,
     activeRunId : RunIds \cup {NoRun}, recovering : BOOLEAN,
     unchecked : SUBSET Items, todo : SUBSET Items,
     group : [Groups -> GroupStatuses],
     records : [Items -> Outcomes], ok : BOOLEAN]

\* The database and every process keep their types.
TypeOK ==
    /\ DatabaseTypeOK
    /\ edges \subseteq Groups \X Groups
    /\ direct \subseteq Groups
    /\ stopOnFirstFailure \in BOOLEAN
    /\ satisfied \subseteq Items
    /\ crashes \in 0 .. MaxCrashes
    /\ dbErrors \in 0 .. MaxDbErrors
    /\ exec \in [Procs -> Calls]

\* Whatever crashes leave behind, "active_run" names the one run that is neither
\* committed nor deleted, if there is one: no unfinished run is ever out of
\* recovery's sight, and no finished run blocks the next command.
OneOpenRun ==
    \A r \in RunIds : runState[r] \notin {"none", "committed"} <=> activeRun = r

\* An item recorded as a success has reached its end state, also when the plugin
\* call failed half way or the record was written by a later recovery.
SuccessMeansSatisfied ==
    \A r \in RunIds : \A i \in Items : itemStatus[r][i] = "success" => i \in satisfied

\* execute() reports success only when everything that was asked for holds,
\* the items its filter left out included.
OkMeansSatisfied ==
    [][\A p \in Procs : exec'[p].result = "ok" /\ exec[p].pc # "idle" =>
           exec[p].request \subseteq satisfied]_vars

\* No plugin is asked to redo what already holds: not for a new command, and not
\* for the items of an interrupted run whose plugin call had an effect.
NothingDoneTwice ==
    [][\A p \in Procs : \A g \in Groups \ direct :
           exec[p].group[g] = "waiting" /\ exec'[p].group[g] = "running" =>
               GroupItems(p, g) \cap satisfied = {}]_vars

\* What markCommittedTransactions says of a commit: every item was fully
\* successful.
CommitOnlySuccess ==
    [][\A r \in RunIds :
           runState[r] # "committed" /\ runState'[r] = "committed" =>
               AllItems(r, {"success", "committed"})]_vars

\* An interrupted or failed run does not block later commands for ever: as long
\* as commands come, the database gets to a point without an active run.
ActiveRunCleared == []<>(activeRun = NoRun)

-----------------------------------------------------------------------------
(* The inductive invariants behind the safety properties.                  *)

\* Groups have a status only while they are executed.
GroupsIdle(p) == exec[p].pc # "execute" => exec[p].group = [g \in Groups |-> "none"]

\* What a call has established, step by step, about the packages it was asked for.
\* The filter leaves out what holds; a group that has succeeded has a success
\* record for each of its items and one that has failed a failure record; and a
\* success record is true.  A call that recovers has not looked at its graph yet.
CallTruthful(p) ==
    /\ ~exec[p].dryRun
    /\ exec[p].pc # "idle" => exec[p].result = "none"
    /\ GroupsIdle(p)
    /\ \A i \in Items : exec[p].records[i] = "success" => i \in satisfied
    /\ exec[p].recovering
           \/ exec[p].pc \in {"idle", "recover", "reconcile", "purge", "check"} =>
               exec[p].request = {}
    /\ exec[p].pc = "empty" \/ exec[p].ok => exec[p].request \subseteq satisfied
    /\ exec[p].pc \in {"create", "put", "execute"} =>
           exec[p].request \ exec[p].todo \subseteq satisfied
    /\ exec[p].pc = "execute" => \A g \in Groups :
          /\ exec[p].group[g] = "none" => GroupItems(p, g) = {}
          /\ exec[p].group[g] = "succeeded" =>
                \A i \in GroupItems(p, g) : exec[p].records[i] = "success"
          /\ exec[p].group[g] = "failed" =>
                \E i \in GroupItems(p, g) : exec[p].records[i] = "failed"

TruthInv ==
    /\ edges \subseteq {e \in Groups \X Groups : e[1] < e[2]}
    /\ \A p \in Procs : CallTruthful(p)
    /\ SuccessMeansSatisfied

\* The call at work on a run works on the one that "active_run" names, and a run is
\* put only while there is none.
ActiveCall(p) ==
    /\ exec[p].pc \in {"reconcile", "execute", "write"} =>
          exec[p].activeRunId = activeRun /\ activeRun # NoRun
    /\ exec[p].pc = "put" => activeRun = NoRun

ActiveInv == OneOpenRun /\ \A p \in Procs : ActiveCall(p)

\* Of the items to be done, those a plugin will be asked for do not hold yet; and
\* what recovery has still to look at is recorded.
FreshCall(p) ==
    /\ GroupsIdle(p)
    /\ exec[p].pc \in {"idle", "recover"} => exec[p].todo = {}
    /\ exec[p].pc = "reconcile" =>
          /\ exec[p].activeRunId \in RunIds
          /\ exec[p].unchecked \subseteq GetRunItems(exec[p].activeRunId)
    /\ exec[p].pc \in {"reconcile", "create", "put"} => \A i \in exec[p].todo :
          GroupOf[i] \in exec[p].loadable \ direct => i \notin satisfied
    /\ exec[p].pc = "execute" => \A i \in exec[p].todo :
          GroupOf[i] \in exec[p].loadable \ direct
              /\ exec[p].group[GroupOf[i]] = "waiting" => i \notin satisfied

FreshInv == \A p \in Procs : FreshCall(p)
=============================================================================
