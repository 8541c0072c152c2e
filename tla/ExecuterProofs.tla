--------------------------- MODULE ExecuterProofs ---------------------------
(***************************************************************************)
(* Proofs about Executer for every set of processes, packages and runs,    *)
(* every plan and every number of crashes and failing transactions.  Where *)
(* a property needs more than that (no dry run, one process at a time, a   *)
(* database that takes every update) the theorem says so.                  *)
(***************************************************************************)
EXTENDS Executer, WellFoundedInduction, TLAPS

-----------------------------------------------------------------------------
(* Type correctness.                                                       *)

LEMMA OutsideType ==
    ASSUME NEW result \in {"none", "ok", "failed"}
    PROVE  Outside(result) \in Calls
BY DEF Outside, Calls, GroupStatuses, Outcomes

LEMMA WaitingType == ASSUME NEW items PROVE Waiting(items) \in [Groups -> GroupStatuses]
BY DEF Waiting, GroupStatuses

\* The transactions of the database keep its type.
LEMMA WritesType ==
    ASSUME DatabaseTypeOK, NEW r
    PROVE  /\ \A packages, status : status \in ItemStatuses
                  /\ UpdateItemsStatus(r, packages, status) => DatabaseTypeOK'
           /\ \A state : state \in RunStates /\ MarkRunState(r, state) => DatabaseTypeOK'
           /\ MarkRunCommitted(r) => DatabaseTypeOK'
           /\ DeleteRun(r) => DatabaseTypeOK'
           /\ \A packages : r \in RunIds /\ CreateRun(r, packages) => DatabaseTypeOK'
           /\ UNCHANGED database => DatabaseTypeOK'
<1> USE DEF DatabaseTypeOK, ItemStatuses, RunStates
<1>1. ASSUME NEW packages, NEW status \in ItemStatuses,
             UpdateItemsStatus(r, packages, status)
      PROVE  DatabaseTypeOK'
  BY <1>1 DEF UpdateItemsStatus
<1>2. ASSUME NEW state \in RunStates, MarkRunState(r, state) PROVE DatabaseTypeOK'
  BY <1>2 DEF MarkRunState
<1>3. ASSUME MarkRunCommitted(r) PROVE DatabaseTypeOK'
  BY <1>3 DEF MarkRunCommitted
<1>4. ASSUME DeleteRun(r) PROVE DatabaseTypeOK'
  BY <1>4 DEF DeleteRun
<1>5. ASSUME NEW packages, r \in RunIds, CreateRun(r, packages) PROVE DatabaseTypeOK'
  BY <1>5 DEF CreateRun
<1>6. ASSUME UNCHANGED database PROVE DatabaseTypeOK'
  BY <1>6 DEF database
<1> QED
  BY <1>1, <1>2, <1>3, <1>4, <1>5, <1>6

LEMMA InitType == Init => TypeOK
<1> SUFFICES ASSUME Init PROVE TypeOK
  OBVIOUS
<1>1. DatabaseTypeOK
  BY DEF Init, InitDatabase, DatabaseTypeOK, RunStates, ItemStatuses
<1>2. exec \in [Procs -> Calls]
  BY OutsideType DEF Init
<1> QED
  BY <1>1, <1>2, ExecuterAssumption DEF Init, TypeOK

\* A group that ends keeps the call in its type.
LEMMA EndGroupType ==
    ASSUME TypeOK, NEW p \in Procs, NEW g \in Groups, NEW record \in [Items -> Outcomes],
           EndGroup(p, g, record)
    PROVE  exec' \in [Procs -> Calls]
<1>1. exec[p] \in Calls
  BY DEF TypeOK
<1> QED
  BY <1>1, ZenonT(60) DEF TypeOK, EndGroup, Calls, GroupStatuses, Outcomes

LEMMA RecoverType ==
    ASSUME TypeOK, NEW p \in Procs, Recover(p)
    PROVE  exec' \in [Procs -> Calls] /\ DatabaseTypeOK'
<1>1. exec \in [Procs -> Calls] /\ exec[p] \in Calls /\ DatabaseTypeOK
  BY DEF TypeOK
<1>2. CASE BeginRecovery(p)
  <2>1. GetActiveRun \in RunIds \cup {NoRun} /\ Pending(GetActiveRun) \subseteq Items
    BY DEF GetActiveRun, Pending, GetRunItems
  <2>2. Systems(Pending(GetActiveRun)) \subseteq Groups
    BY <2>1, ExecuterAssumption DEF Systems
  <2>3. exec' \in [Procs -> Calls]
    <3>1. CASE exec' = [exec EXCEPT ![p].pc = "check"]
      BY <1>1, <3>1 DEF Calls
    <3>2. ASSUME NEW loadable \in SUBSET Systems(Pending(GetActiveRun)),
                 exec' = [exec EXCEPT ![p].pc = "reconcile",
                                      ![p].loadable = loadable,
                                      ![p].activeRunId = GetActiveRun,
                                      ![p].unchecked = Pending(GetActiveRun)]
          PROVE  exec' \in [Procs -> Calls]
      BY <1>1, <2>1, <2>2, <3>2, ZenonT(60) DEF Calls
    <3> QED
      BY <1>2, <3>1, <3>2 DEF BeginRecovery
  <2> QED
    BY <1>1, <1>2, <2>3, WritesType DEF BeginRecovery
<1>3. ASSUME NEW i \in Items, ReconcileItem(p, i)
      PROVE  exec' \in [Procs -> Calls] /\ DatabaseTypeOK'
  <2>1. exec' \in [Procs -> Calls]
    BY <1>1, <1>3, ZenonT(60) DEF Calls, ReconcileItem
  <2>2. DatabaseTypeOK'
    BY <1>1, <1>3, WritesType DEF ReconcileItem, Transaction, ItemStatuses, database
  <2> QED
    BY <2>1, <2>2
<1>4. CASE CloseRecovered(p)
  <2>1. exec' \in [Procs -> Calls]
    BY <1>1, <1>4 DEF Calls, CloseRecovered
  <2>2. DatabaseTypeOK'
    BY <1>1, <1>4, WritesType DEF CloseRecovered, Transaction
  <2> QED
    BY <2>1, <2>2
<1>5. CASE PurgeRecovered(p)
  <2>1. exec' \in [Procs -> Calls]
    BY <1>1, <1>5 DEF Calls, PurgeRecovered
  <2>2. DatabaseTypeOK'
    BY <1>1, <1>5, WritesType DEF PurgeRecovered, Transaction
  <2> QED
    BY <2>1, <2>2
<1>6. CASE ResumeRecovered(p)
  <2>1. exec' \in [Procs -> Calls]
    BY <1>1, <1>6, WaitingType DEF Calls, ResumeRecovered
  <2>2. DatabaseTypeOK'
    BY <1>1, <1>6, WritesType DEF ResumeRecovered, Transaction, RunStates
  <2> QED
    BY <2>1, <2>2
<1> QED
  BY <1>2, <1>3, <1>4, <1>5, <1>6 DEF Recover

LEMMA NewRunType ==
    ASSUME TypeOK, NEW p \in Procs, NewRun(p)
    PROVE  exec' \in [Procs -> Calls] /\ DatabaseTypeOK'
<1>1. exec \in [Procs -> Calls] /\ exec[p] \in Calls /\ DatabaseTypeOK
  BY DEF TypeOK
<1>2. ASSUME NEW result \in {"none", "ok", "failed"}, Leave(p, result)
      PROVE  exec' \in [Procs -> Calls]
  BY <1>1, <1>2, OutsideType DEF Leave
<1>3. CASE CheckActive(p)
  <2>1. ASSUME NEW request \in SUBSET Items, NEW loadable \in SUBSET Systems(request),
               exec' = [exec EXCEPT ![p] =
                    [Outside("none") EXCEPT
                        !.pc = IF Executable(request, loadable) = {} THEN "empty"
                                                                     ELSE "create",
                        !.dryRun = exec[p].dryRun,
                        !.request = request,
                        !.loadable = loadable,
                        !.todo = Executable(request, loadable)]]
        PROVE  exec' \in [Procs -> Calls]
    <3>1. /\ Executable(request, loadable) \in SUBSET Items
          /\ loadable \in SUBSET Groups /\ exec[p].dryRun \in BOOLEAN
      BY <1>1, ExecuterAssumption DEF Executable, Systems, Calls
    <3> QED
      BY <1>1, <2>1, <3>1, OutsideType DEF Calls
  <2>2. exec' \in [Procs -> Calls]
    BY <1>2, <1>3, <2>1 DEF CheckActive
  <2> QED
    BY <1>1, <1>3, <2>2, WritesType DEF CheckActive
<1>4. CASE NothingToDo(p)
  BY <1>1, <1>2, <1>4, WritesType DEF NothingToDo
<1>5. CASE CheckCreate(p)
  <2>1. exec' \in [Procs -> Calls]
    <3>1. CASE Leave(p, "failed")
      BY <1>2, <3>1
    <3>2. CASE exec' = [exec EXCEPT ![p].pc = "put"]
      BY <1>1, <3>2 DEF Calls
    <3> QED
      BY <1>5, <3>1, <3>2 DEF CheckCreate
  <2> QED
    BY <1>1, <1>5, <2>1, WritesType DEF CheckCreate
<1>6. CASE PutRun(p)
  <2>1. exec' \in [Procs -> Calls]
    <3>1. CASE Leave(p, "failed")
      BY <1>2, <3>1
    <3>2. ASSUME NEW r \in RunIds,
                 exec' = [exec EXCEPT ![p].pc = "execute",
                                      ![p].activeRunId = r,
                                      ![p].group = Waiting(exec[p].todo)]
          PROVE  exec' \in [Procs -> Calls]
      BY <1>1, <3>2, WaitingType DEF Calls
    <3> QED
      BY <1>6, <3>1, <3>2 DEF PutRun
  <2>2. DatabaseTypeOK'
    BY <1>1, <1>6, WritesType DEF PutRun
  <2> QED
    BY <2>1, <2>2
<1> QED
  BY <1>3, <1>4, <1>5, <1>6 DEF NewRun

LEMMA RunGroupsType ==
    ASSUME TypeOK, NEW p \in Procs, RunGroups(p)
    PROVE  exec' \in [Procs -> Calls] /\ DatabaseTypeOK'
<1>1. exec \in [Procs -> Calls] /\ exec[p] \in Calls /\ DatabaseTypeOK
  BY DEF TypeOK
<1>2. \A outcome \in Outcomes : AllOf(outcome) \in [Items -> Outcomes]
  BY DEF AllOf
<1>3. "failed" \in Outcomes /\ "success" \in Outcomes
  BY DEF Outcomes
<1>4. ASSUME NEW g \in Groups, exec' = [exec EXCEPT ![p].group[g] = "running"]
      PROVE  exec' \in [Procs -> Calls]
  BY <1>1, <1>4 DEF Calls, GroupStatuses
<1>5. ASSUME NEW g \in Groups, LoadFailed(p, g) \/ Rehearse(p, g)
      PROVE  exec' \in [Procs -> Calls] /\ DatabaseTypeOK'
  BY <1>1, <1>2, <1>3, <1>5, EndGroupType, WritesType DEF LoadFailed, Rehearse
<1>6. ASSUME NEW g \in Groups, MarkRunning(p, g)
      PROVE  exec' \in [Procs -> Calls] /\ DatabaseTypeOK'
  <2>1. exec' \in [Procs -> Calls]
    BY <1>2, <1>3, <1>4, <1>6, EndGroupType DEF MarkRunning
  <2>2. DatabaseTypeOK'
    BY <1>1, <1>6, WritesType DEF MarkRunning, Transaction, ItemStatuses
  <2> QED
    BY <2>1, <2>2
<1>7. ASSUME NEW g \in Groups, StartDirect(p, g)
      PROVE  exec' \in [Procs -> Calls] /\ DatabaseTypeOK'
  BY <1>1, <1>4, <1>7, WritesType DEF StartDirect
<1>8. ASSUME NEW g \in Groups, PluginReturns(p, g)
      PROVE  exec' \in [Procs -> Calls] /\ DatabaseTypeOK'
  <2>1. OutcomeOf(p, g) \in [Items -> Outcomes]
    BY DEF OutcomeOf, Outcomes
  <2> QED
    BY <1>1, <1>8, <2>1, EndGroupType, WritesType DEF PluginReturns
<1>9. ASSUME NEW g \in Groups, DirectReturns(p, g)
      PROVE  exec' \in [Procs -> Calls] /\ DatabaseTypeOK'
  BY <1>1, <1>2, <1>3, <1>9, EndGroupType, WritesType DEF DirectReturns
<1>10. CASE EndExecution(p)
  <2>1. exec' \in [Procs -> Calls]
    BY <1>1, <1>10 DEF Calls, EndExecution, GroupStatuses
  <2> QED
    BY <1>1, <1>10, <2>1, WritesType DEF EndExecution
<1> QED
  BY <1>5, <1>6, <1>7, <1>8, <1>9, <1>10 DEF RunGroups

LEMMA RecordType ==
    ASSUME TypeOK, NEW p \in Procs, Record(p)
    PROVE  exec' \in [Procs -> Calls] /\ DatabaseTypeOK'
<1>1. exec \in [Procs -> Calls] /\ exec[p] \in Calls /\ DatabaseTypeOK
  BY DEF TypeOK
<1>2. ASSUME NEW i \in Items, WriteResult(p, i)
      PROVE  exec' \in [Procs -> Calls] /\ DatabaseTypeOK'
  <2>1. exec' \in [Procs -> Calls]
    BY <1>1, <1>2 DEF Calls, WriteResult, Outcomes
  <2>2. exec[p].records[i] \in ItemStatuses
    BY <1>1 DEF Calls, Outcomes, ItemStatuses
  <2>3. DatabaseTypeOK'
    BY <1>1, <1>2, <2>2, WritesType DEF WriteResult, Transaction
  <2> QED
    BY <2>1, <2>3
<1>3. CASE MarkCommitted(p)
  <2>1. exec' \in [Procs -> Calls]
    BY <1>1, <1>3 DEF Calls, MarkCommitted
  <2>2. DatabaseTypeOK'
    BY <1>1, <1>3, WritesType DEF MarkCommitted, Transaction, RunStates
  <2> QED
    BY <2>1, <2>2
<1>4. CASE DeleteCommittedRun(p)
  <2>1. exec' \in [Procs -> Calls]
    <3>1. CASE exec' = [exec EXCEPT ![p].pc = "check"]
      BY <1>1, <3>1 DEF Calls
    <3>2. CASE Leave(p, "ok") \/ Leave(p, "failed")
      BY <1>1, <3>2, OutsideType DEF Leave
    <3> QED
      BY <1>4, <3>1, <3>2 DEF DeleteCommittedRun
  <2>2. DatabaseTypeOK'
    BY <1>1, <1>4, WritesType DEF DeleteCommittedRun, Transaction, database
  <2> QED
    BY <2>1, <2>2
<1> QED
  BY <1>2, <1>3, <1>4 DEF Record

\* What no step of the program itself changes, and the bound on database errors.
LEMMA StepFrame ==
    ASSUME TypeOK, NEW p \in Procs, Step(p)
    PROVE  /\ UNCHANGED <<config, satisfied, crashes>>
           /\ dbErrors' \in 0 .. MaxDbErrors
           /\ MaxDbErrors = 0 => dbErrors' = dbErrors
<1> DEFINE Counted == dbErrors' = dbErrors \/ (dbErrors < MaxDbErrors /\ dbErrors' = dbErrors + 1)
           Framed == UNCHANGED <<config, satisfied, crashes>>
<1>1. ASSUME Recover(p) PROVE Counted /\ Framed
  <2>1. BeginRecovery(p) => Counted /\ Framed
    BY DEF BeginRecovery
  <2>2. \A i \in Items : ReconcileItem(p, i) => Counted /\ Framed
    BY DEF ReconcileItem, Transaction
  <2>3. CloseRecovered(p) => Counted /\ Framed
    BY DEF CloseRecovered, Transaction
  <2>4. PurgeRecovered(p) => Counted /\ Framed
    BY DEF PurgeRecovered, Transaction
  <2>5. ResumeRecovered(p) => Counted /\ Framed
    BY DEF ResumeRecovered, Transaction
  <2> QED
    BY <1>1, <2>1, <2>2, <2>3, <2>4, <2>5 DEF Recover
<1>2. ASSUME NewRun(p) PROVE Counted /\ Framed
  <2>1. CheckActive(p) \/ NothingToDo(p) \/ CheckCreate(p) => Counted /\ Framed
    BY DEF CheckActive, NothingToDo, CheckCreate
  <2>2. PutRun(p) => Counted /\ Framed
    BY DEF PutRun
  <2> QED
    BY <1>2, <2>1, <2>2 DEF NewRun
<1>3. ASSUME RunGroups(p) PROVE Counted /\ Framed
  <2>1. \A g \in Groups : LoadFailed(p, g) \/ Rehearse(p, g) \/ StartDirect(p, g)
           \/ PluginReturns(p, g) \/ DirectReturns(p, g) => Counted /\ Framed
    BY DEF LoadFailed, Rehearse, StartDirect, PluginReturns, DirectReturns
  <2>2. \A g \in Groups : MarkRunning(p, g) => Counted /\ Framed
    BY DEF MarkRunning, Transaction
  <2>3. EndExecution(p) => Counted /\ Framed
    BY DEF EndExecution
  <2> QED
    BY <1>3, <2>1, <2>2, <2>3 DEF RunGroups
<1>4. ASSUME Record(p) PROVE Counted /\ Framed
  <2>1. \A i \in Items : WriteResult(p, i) => Counted /\ Framed
    BY DEF WriteResult, Transaction
  <2>2. MarkCommitted(p) => Counted /\ Framed
    BY DEF MarkCommitted, Transaction
  <2>3. DeleteCommittedRun(p) => Counted /\ Framed
    BY DEF DeleteCommittedRun, Transaction
  <2> QED
    BY <1>4, <2>1, <2>2, <2>3 DEF Record
<1>5. Counted /\ Framed
  BY <1>1, <1>2, <1>3, <1>4 DEF Step
<1>6. dbErrors \in 0 .. MaxDbErrors /\ MaxDbErrors \in Nat
  BY ExecuterAssumption DEF TypeOK
<1> QED
  BY <1>5, <1>6

LEMMA NextType == TypeOK /\ [Next]_vars => TypeOK'
<1> SUFFICES ASSUME TypeOK, [Next]_vars PROVE TypeOK'
  OBVIOUS
<1> USE DEF config
<1>1. ASSUME NEW p \in Procs, Step(p) PROVE TypeOK'
  <2>1. exec' \in [Procs -> Calls] /\ DatabaseTypeOK'
    BY <1>1, RecoverType, NewRunType, RunGroupsType, RecordType DEF Step
  <2> QED
    BY <1>1, <2>1, StepFrame DEF TypeOK
<1>2. ASSUME NEW p \in Procs, Invoke(p) PROVE TypeOK'
  <2>1. exec \in [Procs -> Calls] /\ exec[p] \in Calls /\ DatabaseTypeOK
    BY DEF TypeOK
  <2>2. PICK dryRun \in BOOLEAN :
           exec' = [exec EXCEPT ![p].pc = "recover",
                                ![p].result = "none",
                                ![p].dryRun = dryRun]
    BY <1>2, ExecuterAssumption DEF Invoke
  <2>3. exec' \in [Procs -> Calls]
    BY <2>1, <2>2 DEF Calls
  <2> QED
    BY <1>2, <2>1, <2>3, WritesType DEF Invoke, TypeOK
<1>3. ASSUME NEW p \in Procs, NEW i \in Items, PluginEffect(p, i) PROVE TypeOK'
  BY <1>3, WritesType DEF PluginEffect, TypeOK
<1>4. ASSUME NEW p \in Procs, Crash(p) PROVE TypeOK'
  <2>1. exec' \in [Procs -> Calls]
    BY <1>4, OutsideType DEF Crash, Leave, TypeOK
  <2>2. crashes' \in 0 .. MaxCrashes
    BY <1>4, ExecuterAssumption DEF Crash, TypeOK
  <2> QED
    BY <1>4, <2>1, <2>2, WritesType DEF Crash, TypeOK
<1>5. CASE UNCHANGED vars
  BY <1>5, WritesType DEF vars, TypeOK
<1> QED
  BY <1>1, <1>2, <1>3, <1>4, <1>5 DEF Next

\* The database and every call of execute() keep their types through every crash
\* and every failing transaction.
THEOREM TypeCorrect == Spec => []TypeOK
<1> QED
  BY InitType, NextType, PTL DEF Spec

-----------------------------------------------------------------------------
(* What is recorded and reported as a success holds on the host.           *)

\* A step of one process, or of a plugin, leaves what the calls of the others have
\* established: packages that hold keep holding.
LEMMA OthersTruthful ==
    ASSUME NEW q \in Procs, CallTruthful(q), exec'[q] = exec[q],
           satisfied \subseteq satisfied'
    PROVE  CallTruthful(q)'
BY DEF CallTruthful, GroupsIdle, GroupItems

\* Every write keeps success records true, if it writes a success for items that
\* hold only.
LEMMA WritesTruthful ==
    ASSUME TypeOK, SuccessMeansSatisfied, satisfied \subseteq satisfied', NEW r
    PROVE  /\ \A packages, status :
                 UpdateItemsStatus(r, packages, status)
                     /\ (status = "success" => packages \subseteq satisfied)
                 => SuccessMeansSatisfied'
           /\ \A packages : UpdateItemsStatus(r, packages, "running") =>
                 SuccessMeansSatisfied'
           /\ \A i \in satisfied : UpdateItemsStatus(r, {i}, "success") =>
                 SuccessMeansSatisfied'
           /\ \A state : MarkRunState(r, state) => SuccessMeansSatisfied'
           /\ MarkRunCommitted(r) => SuccessMeansSatisfied'
           /\ DeleteRun(r) => SuccessMeansSatisfied'
           /\ \A packages : CreateRun(r, packages) => SuccessMeansSatisfied'
           /\ UNCHANGED database => SuccessMeansSatisfied'
<1> USE DEF SuccessMeansSatisfied, TypeOK, DatabaseTypeOK
<1>1. ASSUME NEW packages, NEW status, UpdateItemsStatus(r, packages, status),
             status = "success" => packages \subseteq satisfied
      PROVE  SuccessMeansSatisfied'
  BY <1>1 DEF UpdateItemsStatus
<1>2. ASSUME NEW state, MarkRunState(r, state) PROVE SuccessMeansSatisfied'
  BY <1>2 DEF MarkRunState
<1>3. ASSUME MarkRunCommitted(r) PROVE SuccessMeansSatisfied'
  BY <1>3 DEF MarkRunCommitted
<1>4. ASSUME DeleteRun(r) PROVE SuccessMeansSatisfied'
  BY <1>4 DEF DeleteRun
<1>5. ASSUME NEW packages, CreateRun(r, packages) PROVE SuccessMeansSatisfied'
  BY <1>5 DEF CreateRun
<1>6. ASSUME UNCHANGED database PROVE SuccessMeansSatisfied'
  BY <1>6 DEF database
<1> QED
  BY <1>1, <1>2, <1>3, <1>4, <1>5, <1>6

\* A call that has just begun or ended has established nothing.
LEMMA OutsideTruthful ==
    ASSUME TypeOK, NEW p \in Procs, NEW result, Leave(p, result)
    PROVE  CallTruthful(p)'
BY DEF TypeOK, Leave, Outside, CallTruthful, GroupsIdle

LEMMA InitTruth == Init => TruthInv
<1> SUFFICES ASSUME Init PROVE TruthInv
  OBVIOUS
<1>1. ASSUME NEW p \in Procs PROVE CallTruthful(p)
  BY DEF Init, Outside, CallTruthful, GroupsIdle
<1>2. SuccessMeansSatisfied
  BY DEF Init, InitDatabase, SuccessMeansSatisfied
<1> QED
  BY <1>1, <1>2 DEF TruthInv, Init

LEMMA RecoverTruth ==
    ASSUME TypeOK, TruthInv, NEW p \in Procs, Recover(p)
    PROVE  CallTruthful(p)' /\ SuccessMeansSatisfied'
<1>1. /\ exec \in [Procs -> Calls] /\ exec[p] \in Calls /\ CallTruthful(p)
      /\ SuccessMeansSatisfied
  BY DEF TypeOK, TruthInv
<1>2. satisfied' = satisfied
  BY StepFrame DEF Step
<1> USE DEF CallTruthful, GroupsIdle, Calls
<1>3. CASE BeginRecovery(p)
  <2>1. CallTruthful(p)'
    <3>1. CASE exec' = [exec EXCEPT ![p].pc = "check"]
      BY <1>1, <1>2, <1>3, <3>1 DEF BeginRecovery
    <3>2. ASSUME NEW loadable,
                 exec' = [exec EXCEPT ![p].pc = "reconcile",
                                      ![p].loadable = loadable,
                                      ![p].activeRunId = GetActiveRun,
                                      ![p].unchecked = Pending(GetActiveRun)]
          PROVE  CallTruthful(p)'
      BY <1>1, <1>2, <1>3, <3>2, ZenonT(60) DEF BeginRecovery
    <3> QED
      BY <1>3, <3>1, <3>2 DEF BeginRecovery
  <2> QED
    BY <1>2, <1>3, <2>1, WritesTruthful DEF BeginRecovery, TruthInv
<1>4. ASSUME NEW i \in Items, ReconcileItem(p, i)
      PROVE  CallTruthful(p)' /\ SuccessMeansSatisfied'
  <2>1. CallTruthful(p)'
    BY <1>1, <1>2, <1>4 DEF ReconcileItem
  <2>2. SuccessMeansSatisfied'
    <3>1. CASE UNCHANGED database
      BY <1>1, <1>2, <3>1, WritesTruthful
    <3>2. CASE i \in satisfied /\ UpdateItemsStatus(exec[p].activeRunId, {i}, "success")
      BY <1>1, <1>2, <3>2, WritesTruthful
    <3> QED
      BY <1>4, <3>1, <3>2 DEF ReconcileItem, Transaction, database
  <2> QED
    BY <2>1, <2>2
<1>5. CASE CloseRecovered(p)
  <2>1. CallTruthful(p)'
    <3>1. PICK next \in {"purge", "check"} : exec' = [exec EXCEPT ![p].pc = next]
      BY <1>5 DEF CloseRecovered
    <3> QED
      BY <1>1, <1>2, <1>5, <3>1 DEF CloseRecovered, Reconciled
  <2>2. SuccessMeansSatisfied'
    BY <1>1, <1>2, <1>5, WritesTruthful DEF CloseRecovered, Transaction
  <2> QED
    BY <2>1, <2>2
<1>6. CASE PurgeRecovered(p)
  <2>1. CallTruthful(p)'
    BY <1>1, <1>2, <1>6 DEF PurgeRecovered
  <2>2. SuccessMeansSatisfied'
    BY <1>1, <1>2, <1>6, WritesTruthful DEF PurgeRecovered, Transaction
  <2> QED
    BY <2>1, <2>2
<1>7. CASE ResumeRecovered(p)
  <2>1. CallTruthful(p)'
    BY <1>1, <1>2, <1>7, ExecuterAssumption
    DEF ResumeRecovered, Reconciled, Waiting, Systems, GroupItems
  <2>2. SuccessMeansSatisfied'
    BY <1>1, <1>2, <1>7, WritesTruthful DEF ResumeRecovered, Transaction
  <2> QED
    BY <2>1, <2>2
<1> QED
  BY <1>3, <1>4, <1>5, <1>6, <1>7 DEF Recover

LEMMA NewRunTruth ==
    ASSUME TypeOK, TruthInv, NEW p \in Procs, NewRun(p)
    PROVE  CallTruthful(p)' /\ SuccessMeansSatisfied'
<1>1. /\ exec \in [Procs -> Calls] /\ exec[p] \in Calls /\ CallTruthful(p)
      /\ SuccessMeansSatisfied
  BY DEF TypeOK, TruthInv
<1>2. satisfied' = satisfied
  BY StepFrame DEF Step
<1>3. SuccessMeansSatisfied'
  BY <1>1, <1>2, WritesTruthful DEF NewRun, CheckActive, NothingToDo, CheckCreate, PutRun
<1>4. CASE \E result : Leave(p, result)
  BY <1>3, <1>4, OutsideTruthful
<1>5. CASE CheckActive(p)
  <2>1. ASSUME NEW request \in SUBSET Items, NEW loadable \in SUBSET Systems(request),
               exec' = [exec EXCEPT ![p] =
                    [Outside("none") EXCEPT
                        !.pc = IF Executable(request, loadable) = {} THEN "empty"
                                                                     ELSE "create",
                        !.dryRun = exec[p].dryRun,
                        !.request = request,
                        !.loadable = loadable,
                        !.todo = Executable(request, loadable)]]
        PROVE  CallTruthful(p)'
    <3>1. request \ Executable(request, loadable) \subseteq satisfied
      BY DEF Executable
    <3>2. /\ exec'[p].pc \in {"empty", "create"} /\ exec'[p].request = request
          /\ exec'[p].pc = "empty" => Executable(request, loadable) = {}
          /\ exec'[p].todo = Executable(request, loadable)
          /\ exec'[p].dryRun = exec[p].dryRun /\ exec'[p].result = "none"
          /\ exec'[p].group = [g \in Groups |-> "none"]
          /\ exec'[p].records = [i \in Items |-> "none"]
          /\ exec'[p].recovering = FALSE /\ exec'[p].ok = FALSE
      BY <1>1, <2>1 DEF Outside
    <3> QED
      BY <1>1, <1>2, <3>1, <3>2 DEF CallTruthful, GroupsIdle
  <2> QED
    BY <1>3, <1>4, <1>5, <2>1 DEF CheckActive
<1>6. CASE exec' = [exec EXCEPT ![p].pc = "put"] /\ exec[p].pc = "create"
  BY <1>1, <1>2, <1>3, <1>6 DEF CallTruthful, GroupsIdle, Calls
<1>7. ASSUME NEW r, exec[p].pc = "put",
             exec' = [exec EXCEPT ![p].pc = "execute",
                                  ![p].activeRunId = r,
                                  ![p].group = Waiting(exec[p].todo)]
      PROVE  CallTruthful(p)'
  BY <1>1, <1>2, <1>7, ExecuterAssumption
  DEF CallTruthful, GroupsIdle, Calls, Waiting, Systems, GroupItems
<1> QED
  BY <1>3, <1>4, <1>5, <1>6, <1>7 DEF NewRun, NothingToDo, CheckCreate, PutRun

\* A group that ends with true records keeps what the call has established.
LEMMA EndGroupTruth ==
    ASSUME TypeOK, NEW p \in Procs, CallTruthful(p), NEW g \in Groups,
           exec[p].group[g] # "none", NEW record \in [Items -> Outcomes],
           \A i \in GroupItems(p, g) :
               record[i] # "none" /\ (record[i] = "success" => i \in satisfied),
           EndGroup(p, g, record), satisfied' = satisfied
    PROVE  CallTruthful(p)'
<1> DEFINE mine == GroupItems(p, g)
<1>1. exec \in [Procs -> Calls] /\ exec[p] \in Calls
  BY DEF TypeOK
<1>2. exec[p].pc = "execute"
  BY <1>1 DEF CallTruthful, GroupsIdle
<1>3. /\ exec'[p].pc = "execute" /\ exec'[p].todo = exec[p].todo
      /\ exec'[p].request = exec[p].request /\ exec'[p].dryRun = exec[p].dryRun
      /\ exec'[p].recovering = exec[p].recovering /\ exec'[p].ok = exec[p].ok
      /\ exec'[p].result = exec[p].result
      /\ exec'[p].group[g] = IF \E i \in mine : record[i] = "failed"
                             THEN "failed" ELSE "succeeded"
      /\ \A h \in Groups : h # g => exec'[p].group[h] = exec[p].group[h]
      /\ \A i \in Items : exec'[p].records[i] =
            IF i \in mine THEN record[i] ELSE exec[p].records[i]
  BY <1>1, <1>2 DEF EndGroup, Calls
<1>4. \A h \in Groups : GroupItems(p, h)' = GroupItems(p, h)
  BY <1>3 DEF GroupItems
<1>5. mine \subseteq Items /\ \A h \in Groups : h # g => mine \cap GroupItems(p, h) = {}
  BY <1>1 DEF GroupItems, Calls
<1>6. \A h \in Groups : GroupItems(p, h) \subseteq Items
  BY <1>1 DEF GroupItems, Calls
<1>7. \A i \in mine : record[i] \in {"success", "failed"}
  BY <1>5 DEF Outcomes
<1> HIDE DEF mine
<1>8. \A i \in Items : exec'[p].records[i] = "success" => i \in satisfied
  BY <1>3 DEF CallTruthful, mine
<1>9. ASSUME NEW h \in Groups
      PROVE  /\ exec'[p].group[h] = "none" => GroupItems(p, h) = {}
             /\ exec'[p].group[h] = "succeeded" =>
                   \A i \in GroupItems(p, h) : exec'[p].records[i] = "success"
             /\ exec'[p].group[h] = "failed" =>
                   \E i \in GroupItems(p, h) : exec'[p].records[i] = "failed"
  <2>1. CASE h = g
    <3>1. GroupItems(p, h) = mine
      BY <2>1 DEF mine
    <3> QED
      BY <1>3, <1>5, <1>7, <2>1, <3>1
  <2>2. CASE h # g
    <3>1. \A i \in GroupItems(p, h) : exec'[p].records[i] = exec[p].records[i]
      BY <1>3, <1>5, <1>6, <2>2
    <3>2. exec'[p].group[h] = exec[p].group[h]
      BY <1>3, <2>2
    <3> QED
      BY <1>2, <3>1, <3>2 DEF CallTruthful
  <2> QED
    BY <2>1, <2>2
<1> QED
  BY <1>2, <1>3, <1>4, <1>8, <1>9 DEF CallTruthful, GroupsIdle

\* A set of groups that is not empty has a member with the least number.
LEMMA FirstGroup ==
    ASSUME NEW T \in SUBSET Groups, T # {}
    PROVE  \E g \in T : \A h \in T : ~(h < g)
<1> DEFINE below == {e \in Nat \X Nat : e[1] < e[2]}
<1>1. IsWellFoundedOn(below, Nat)
  BY NatLessThanWellFounded DEF OpToRel
<1>2. T \in SUBSET Nat /\ \A g, h \in T : h < g => <<h, g>> \in below
  BY ExecuterAssumption DEF Groups
<1> HIDE DEF below
<1>3. PICK g \in T : \A h \in T : ~(<<h, g>> \in below)
  BY <1>1, <1>2, WFMin
<1> QED
  BY <1>2, <1>3

\* The scheduler returns without a failure record: then every group has succeeded.
\* One that still waits would wait for another that waits, and so on downwards.
LEMMA AllSucceeded ==
    ASSUME TypeOK, TruthInv, NEW p \in Procs, EndExecution(p), ~exec[p].recovering,
           \A i \in Items : exec[p].records[i] # "failed"
    PROVE  exec[p].todo \subseteq satisfied
<1>1. exec[p] \in Calls /\ CallTruthful(p) /\ exec[p].pc = "execute"
  BY DEF TypeOK, TruthInv, EndExecution
<1>2. \A g \in Groups : GroupItems(p, g) \subseteq Items
  BY <1>1 DEF GroupItems, Calls
<1>3. \A g \in Groups : exec[p].group[g] # "failed"
  BY <1>1, <1>2 DEF CallTruthful
<1>4. \A g \in Groups : exec[p].group[g] \in GroupStatuses \ {"failed", "running"}
  BY <1>1, <1>3 DEF EndExecution, Calls
<1> DEFINE T == {g \in Groups : exec[p].group[g] = "waiting"}
<1>5. ASSUME T # {} PROVE FALSE
  <2>1. PICK g \in T : \A h \in T : ~(h < g)
    <3> HIDE DEF T
    <3>1. T \in SUBSET Groups
      BY DEF T
    <3> QED
      BY <1>5, <3>1, FirstGroup
  <2>2. g \in Groups /\ exec[p].group[g] = "waiting" /\ ~MayStart(p, g)
    BY <2>1 DEF EndExecution
  <2>3. ~Stopped(p)
    BY <1>3 DEF Stopped
  <2>4. PICK h \in Groups : <<h, g>> \in edges
                            /\ exec[p].group[h] \notin {"none", "succeeded"}
    BY <1>1, <2>2, <2>3 DEF MayStart
  <2>5. exec[p].group[h] = "waiting" /\ h < g
    BY <1>4, <2>2, <2>4 DEF TruthInv, GroupStatuses
  <2> QED
    BY <2>1, <2>5
<1>6. ASSUME NEW i \in exec[p].todo PROVE i \in satisfied
  <2>1. i \in Items /\ GroupOf[i] \in Groups /\ i \in GroupItems(p, GroupOf[i])
    BY <1>1, ExecuterAssumption DEF GroupItems, Calls
  <2>2. exec[p].group[GroupOf[i]] = "succeeded"
    BY <1>1, <1>4, <1>5, <2>1 DEF CallTruthful, GroupStatuses
  <2> QED
    BY <1>1, <2>1, <2>2 DEF CallTruthful
<1> QED
  BY <1>6

LEMMA RunGroupsTruth ==
    ASSUME TypeOK, TruthInv, NEW p \in Procs, RunGroups(p)
    PROVE  CallTruthful(p)' /\ SuccessMeansSatisfied'
<1>1. /\ exec \in [Procs -> Calls] /\ exec[p] \in Calls /\ CallTruthful(p)
      /\ SuccessMeansSatisfied
  BY DEF TypeOK, TruthInv
<1>2. satisfied' = satisfied
  BY StepFrame DEF Step
<1>3. SuccessMeansSatisfied'
  <2>1. CASE UNCHANGED database
    BY <1>1, <1>2, <2>1, WritesTruthful
  <2>2. ASSUME NEW g \in Groups, MarkRunning(p, g) PROVE SuccessMeansSatisfied'
    BY <1>1, <1>2, <2>2, WritesTruthful DEF MarkRunning, Transaction
  <2> QED
    BY <2>1, <2>2 DEF RunGroups, LoadFailed, Rehearse, StartDirect, PluginReturns,
       DirectReturns, EndExecution
<1>4. /\ AllOf("failed") \in [Items -> Outcomes] /\ AllOf("success") \in [Items -> Outcomes]
      /\ \A g \in Groups : OutcomeOf(p, g) \in [Items -> Outcomes]
      /\ \A g \in Groups : GroupItems(p, g) \subseteq Items
  BY <1>1 DEF AllOf, OutcomeOf, Outcomes, GroupItems, Calls
<1>5. ASSUME NEW g \in Groups, exec[p].group[g] # "none", EndGroup(p, g, AllOf("failed"))
      PROVE  CallTruthful(p)'
  <2>1. \A i \in GroupItems(p, g) : AllOf("failed")[i] = "failed"
    BY <1>4 DEF AllOf
  <2> QED
    BY <1>1, <1>2, <1>4, <1>5, <2>1, EndGroupTruth
<1>6. ASSUME NEW g \in Groups, exec[p].group[g] = "waiting",
             exec' = [exec EXCEPT ![p].group[g] = "running"]
      PROVE  CallTruthful(p)'
  <2>1. exec[p].pc = "execute"
    BY <1>1, <1>6 DEF CallTruthful, GroupsIdle
  <2> QED
    BY <1>1, <1>2, <1>6, <2>1 DEF CallTruthful, GroupsIdle, Calls, GroupItems
<1>7. ASSUME NEW g \in Groups, LoadFailed(p, g) \/ MarkRunning(p, g) \/ StartDirect(p, g)
      PROVE  CallTruthful(p)'
  BY <1>5, <1>6, <1>7 DEF LoadFailed, MarkRunning, StartDirect, MayStart
<1>8. ASSUME NEW g \in Groups, Rehearse(p, g) PROVE FALSE
  BY <1>1, <1>8 DEF Rehearse, CallTruthful
<1>9. ASSUME NEW g \in Groups, PluginReturns(p, g) PROVE CallTruthful(p)'
  <2>1. \A i \in GroupItems(p, g) :
           /\ OutcomeOf(p, g)[i] # "none"
           /\ OutcomeOf(p, g)[i] = "success" => i \in satisfied
    BY <1>4 DEF OutcomeOf
  <2> QED
    BY <1>1, <1>2, <1>4, <1>9, <2>1, EndGroupTruth DEF PluginReturns
<1>10. ASSUME NEW g \in Groups, DirectReturns(p, g) PROVE CallTruthful(p)'
  <2>1. CASE GroupItems(p, g) \subseteq satisfied /\ EndGroup(p, g, AllOf("success"))
    <3>1. \A i \in GroupItems(p, g) :
             AllOf("success")[i] = "success" /\ i \in satisfied
      BY <1>4, <2>1 DEF AllOf
    <3> QED
      BY <1>1, <1>2, <1>4, <1>10, <2>1, <3>1, EndGroupTruth DEF DirectReturns
  <2> QED
    BY <1>5, <1>10, <2>1 DEF DirectReturns
<1>11. CASE EndExecution(p)
  <2> DEFINE ok == \A i \in Items : exec[p].records[i] # "failed"
  <2>1. ok => exec[p].request \subseteq satisfied
    <3>1. CASE exec[p].recovering
      BY <1>1, <3>1 DEF CallTruthful
    <3>2. CASE ~exec[p].recovering /\ ok
      BY <1>1, <1>11, <3>2, AllSucceeded DEF CallTruthful, EndExecution
    <3> QED
      BY <1>1, <3>1, <3>2 DEF Calls
  <2>2. exec' = [exec EXCEPT ![p].pc = "write", ![p].ok = ok,
                             ![p].group = [g \in Groups |-> "none"]]
    BY <1>11 DEF EndExecution
  <2> HIDE DEF ok
  <2>3. CallTruthful(p)'
    <3>1. /\ exec'[p].pc = "write" /\ exec'[p].ok = ok
          /\ exec'[p].group = [g \in Groups |-> "none"]
          /\ exec'[p].records = exec[p].records /\ exec'[p].request = exec[p].request
          /\ exec'[p].dryRun = exec[p].dryRun /\ exec'[p].recovering = exec[p].recovering
          /\ exec'[p].result = exec[p].result
      BY <1>1, <2>2 DEF Calls
    <3>2. exec[p].pc = "execute"
      BY <1>11 DEF EndExecution
    <3> QED
      BY <1>1, <1>2, <2>1, <3>1, <3>2 DEF CallTruthful, GroupsIdle
  <2> QED
    BY <1>3, <2>3
<1> QED
  BY <1>3, <1>7, <1>8, <1>9, <1>10, <1>11 DEF RunGroups

LEMMA RecordTruth ==
    ASSUME TypeOK, TruthInv, NEW p \in Procs, Record(p)
    PROVE  CallTruthful(p)' /\ SuccessMeansSatisfied'
<1>1. /\ exec \in [Procs -> Calls] /\ exec[p] \in Calls /\ CallTruthful(p)
      /\ SuccessMeansSatisfied
  BY DEF TypeOK, TruthInv
<1>2. satisfied' = satisfied
  BY StepFrame DEF Step
<1>3. ASSUME NEW i \in Items, WriteResult(p, i)
      PROVE  CallTruthful(p)' /\ SuccessMeansSatisfied'
  <2>1. CallTruthful(p)'
    BY <1>1, <1>2, <1>3 DEF CallTruthful, GroupsIdle, Calls, WriteResult
  <2> DEFINE status == exec[p].records[i]
  <2>2. status = "success" => {i} \subseteq satisfied
    BY <1>1 DEF CallTruthful
  <2>3. UNCHANGED database \/ UpdateItemsStatus(exec[p].activeRunId, {i}, status)
    BY <1>3 DEF WriteResult, Transaction
  <2> HIDE DEF status
  <2>4. SuccessMeansSatisfied'
    BY <1>1, <1>2, <2>2, <2>3, WritesTruthful
  <2> QED
    BY <2>1, <2>4
<1>4. CASE MarkCommitted(p)
  <2>1. CallTruthful(p)'
    BY <1>1, <1>2, <1>4 DEF CallTruthful, GroupsIdle, Calls, MarkCommitted
  <2>2. SuccessMeansSatisfied'
    BY <1>1, <1>2, <1>4, WritesTruthful DEF MarkCommitted, Transaction
  <2> QED
    BY <2>1, <2>2
<1>5. CASE DeleteCommittedRun(p)
  <2>1. CallTruthful(p)'
    <3>1. CASE exec[p].recovering /\ exec' = [exec EXCEPT ![p].pc = "check"]
      BY <1>1, <1>2, <1>5, <3>1 DEF CallTruthful, GroupsIdle, Calls, DeleteCommittedRun
    <3>2. CASE Leave(p, "ok") \/ Leave(p, "failed")
      BY <3>2, OutsideTruthful
    <3> QED
      BY <1>5, <3>1, <3>2 DEF DeleteCommittedRun
  <2>2. SuccessMeansSatisfied'
    BY <1>1, <1>2, <1>5, WritesTruthful DEF DeleteCommittedRun, Transaction, database
  <2> QED
    BY <2>1, <2>2
<1> QED
  BY <1>3, <1>4, <1>5 DEF Record

\* A step of process p leaves the calls of the other processes alone.
LEMMA StepOthers ==
    ASSUME NEW p \in Procs, NEW q \in Procs \ {p},
           exec \in [Procs -> Calls], Step(p) \/ Invoke(p) \/ Crash(p)
    PROVE  exec'[q] = exec[q]
<1> DEFINE Same == exec'[q] = exec[q]
<1>1. \A result : Leave(p, result) => Same
  BY DEF Leave
<1>2. Invoke(p) \/ Crash(p) => Same
  BY <1>1 DEF Invoke, Crash
<1>3. BeginRecovery(p) \/ CloseRecovered(p) \/ PurgeRecovered(p)
        \/ ResumeRecovered(p) => Same
  BY DEF BeginRecovery, CloseRecovered, PurgeRecovered, ResumeRecovered
<1>4. \A i \in Items : ReconcileItem(p, i) => Same
  BY DEF ReconcileItem
<1>5. CheckActive(p) => Same
  BY <1>1 DEF CheckActive
<1>6. NothingToDo(p) \/ CheckCreate(p) \/ PutRun(p) => Same
  BY <1>1 DEF NothingToDo, CheckCreate, PutRun
<1>7. \A g \in Groups : \A record : EndGroup(p, g, record) => Same
  BY DEF EndGroup
<1>8. \A g \in Groups : LoadFailed(p, g) \/ Rehearse(p, g) \/ PluginReturns(p, g)
         \/ DirectReturns(p, g) => Same
  BY <1>7 DEF LoadFailed, Rehearse, PluginReturns, DirectReturns
<1>9. \A g \in Groups : MarkRunning(p, g) \/ StartDirect(p, g) => Same
  BY <1>7 DEF MarkRunning, StartDirect
<1>10. EndExecution(p) => Same
  BY DEF EndExecution
<1>11. \A i \in Items : WriteResult(p, i) => Same
  BY DEF WriteResult
<1>12. MarkCommitted(p) \/ DeleteCommittedRun(p) => Same
  BY <1>1 DEF MarkCommitted, DeleteCommittedRun
<1> HIDE DEF Same
<1>13. Same
  BY <1>2, <1>3, <1>4, <1>5, <1>6, <1>8, <1>9, <1>10, <1>11, <1>12
  DEF Step, Recover, NewRun, RunGroups, Record
<1> QED
  BY <1>13 DEF Same

\* The two places where execute() returns success.
LEMMA OkOnlyFrom ==
    ASSUME NEW p \in Procs, exec \in [Procs -> Calls], exec[p].result = "none",
           Step(p), exec'[p].result = "ok"
    PROVE  NothingToDo(p) \/ (DeleteCommittedRun(p) /\ exec[p].ok)
<1> USE DEF Calls
<1>1. ~Leave(p, "failed")
  BY DEF Leave, Outside
<1>2. ~BeginRecovery(p) /\ ~CloseRecovered(p) /\ ~PurgeRecovered(p) /\ ~ResumeRecovered(p)
  <2>1. ~BeginRecovery(p)
    <3>1. exec' # [exec EXCEPT ![p].pc = "check"]
      OBVIOUS
    <3>2. ASSUME NEW loadable,
                 exec' = [exec EXCEPT ![p].pc = "reconcile",
                                      ![p].loadable = loadable,
                                      ![p].activeRunId = GetActiveRun,
                                      ![p].unchecked = Pending(GetActiveRun)]
          PROVE  FALSE
      BY <3>2
    <3> QED
      BY <3>1, <3>2 DEF BeginRecovery
  <2>2. ~CloseRecovered(p)
    BY DEF CloseRecovered
  <2>3. ~PurgeRecovered(p) /\ ~ResumeRecovered(p)
    BY DEF PurgeRecovered, ResumeRecovered
  <2> QED
    BY <2>1, <2>2, <2>3
<1>3. \A i \in Items : ~ReconcileItem(p, i)
  BY DEF ReconcileItem
<1>4. ~CheckActive(p)
  <2>1. ASSUME NEW request \in SUBSET Items, NEW loadable \in SUBSET Systems(request),
               exec' = [exec EXCEPT ![p] =
                    [Outside("none") EXCEPT
                        !.pc = IF Executable(request, loadable) = {} THEN "empty"
                                                                     ELSE "create",
                        !.dryRun = exec[p].dryRun,
                        !.request = request,
                        !.loadable = loadable,
                        !.todo = Executable(request, loadable)]]
        PROVE  FALSE
    BY <2>1 DEF Outside
  <2> QED
    BY <1>1, <2>1 DEF CheckActive
<1>5. ~CheckCreate(p) /\ ~PutRun(p)
  BY <1>1 DEF CheckCreate, PutRun
<1>6. \A g \in Groups : \A record : ~EndGroup(p, g, record)
  BY DEF EndGroup
<1>7. \A g \in Groups : /\ ~LoadFailed(p, g) /\ ~Rehearse(p, g) /\ ~MarkRunning(p, g)
                        /\ ~StartDirect(p, g) /\ ~PluginReturns(p, g)
                        /\ ~DirectReturns(p, g)
  BY <1>6 DEF LoadFailed, Rehearse, MarkRunning, StartDirect, PluginReturns, DirectReturns
<1>8. ~EndExecution(p)
  <2> DEFINE ok == \A i \in Items : exec[p].records[i] # "failed"
  <2>1. EndExecution(p) =>
           exec' = [exec EXCEPT ![p].pc = "write", ![p].ok = ok,
                                ![p].group = [g \in Groups |-> "none"]]
    BY DEF EndExecution
  <2> HIDE DEF ok
  <2> QED
    BY <2>1
<1>9. \A i \in Items : ~WriteResult(p, i)
  BY DEF WriteResult
<1>10. ~MarkCommitted(p)
  BY DEF MarkCommitted
<1>11. DeleteCommittedRun(p) => exec[p].ok
  BY <1>1 DEF DeleteCommittedRun
<1> QED
  BY <1>2, <1>3, <1>4, <1>5, <1>7, <1>8, <1>9, <1>10, <1>11
  DEF Step, Recover, NewRun, RunGroups, Record

LEMMA NextTruth ==
    ASSUME TRUE \notin DryRuns
    PROVE  TypeOK /\ TruthInv /\ [Next]_vars => TruthInv'
<1> SUFFICES ASSUME TypeOK, TruthInv, [Next]_vars PROVE TruthInv'
  OBVIOUS
<1>1. exec \in [Procs -> Calls] /\ \A p \in Procs : exec[p] \in Calls /\ CallTruthful(p)
  BY DEF TypeOK, TruthInv
<1>2. edges' = edges
  BY StepFrame DEF Next, Invoke, PluginEffect, Crash, vars, config
<1>3. ASSUME NEW p \in Procs, Step(p) PROVE TruthInv'
  <2>1. CallTruthful(p)' /\ SuccessMeansSatisfied'
    BY <1>3, RecoverTruth, NewRunTruth, RunGroupsTruth, RecordTruth DEF Step
  <2>2. ASSUME NEW q \in Procs \ {p} PROVE CallTruthful(q)'
    BY <1>1, <1>3, StepOthers, StepFrame, OthersTruthful
  <2> QED
    BY <1>2, <2>1, <2>2 DEF TruthInv
<1>4. ASSUME NEW p \in Procs, Invoke(p) PROVE TruthInv'
  <2>1. PICK dryRun \in DryRuns :
           exec' = [exec EXCEPT ![p].pc = "recover",
                                ![p].result = "none",
                                ![p].dryRun = dryRun]
    BY <1>4 DEF Invoke
  <2>2. dryRun = FALSE
    BY <2>1, ExecuterAssumption
  <2>3. CallTruthful(p)'
    BY <1>1, <1>4, <2>1, <2>2 DEF CallTruthful, GroupsIdle, Calls, Invoke
  <2>4. ASSUME NEW q \in Procs \ {p} PROVE CallTruthful(q)'
    BY <1>1, <1>4, StepOthers, OthersTruthful DEF Invoke
  <2>5. SuccessMeansSatisfied'
    BY <1>4, WritesTruthful DEF Invoke, TruthInv
  <2> QED
    BY <1>2, <2>3, <2>4, <2>5 DEF TruthInv
<1>5. ASSUME NEW p \in Procs, Crash(p) PROVE TruthInv'
  <2>1. CallTruthful(p)'
    BY <1>5, OutsideTruthful DEF Crash
  <2>2. ASSUME NEW q \in Procs \ {p} PROVE CallTruthful(q)'
    BY <1>1, <1>5, StepOthers, OthersTruthful DEF Crash
  <2>3. SuccessMeansSatisfied'
    BY <1>5, WritesTruthful DEF Crash, TruthInv
  <2> QED
    BY <1>2, <2>1, <2>2, <2>3 DEF TruthInv
<1>6. CASE UNCHANGED <<database, exec>> /\ satisfied \subseteq satisfied'
  <2>1. \A q \in Procs : CallTruthful(q)'
    BY <1>1, <1>6, OthersTruthful
  <2>2. SuccessMeansSatisfied'
    BY <1>6, WritesTruthful DEF TruthInv
  <2> QED
    BY <1>2, <2>1, <2>2 DEF TruthInv
<1>7. ASSUME NEW p \in Procs, NEW i \in Items, PluginEffect(p, i) PROVE TruthInv'
  BY <1>6, <1>7 DEF PluginEffect
<1>8. CASE UNCHANGED vars
  BY <1>6, <1>8 DEF vars
<1> QED
  BY <1>3, <1>4, <1>5, <1>7, <1>8 DEF Next

LEMMA TruthInvariant ==
    ASSUME TRUE \notin DryRuns
    PROVE  Spec => []TruthInv
<1> QED
  BY InitTruth, NextTruth, TypeCorrect, PTL DEF Spec

\* Outside dry runs, an item the database records as a success has reached its end
\* state, for any number of processes, crashes and failing transactions: neither
\* the second look after a failed batch nor a recovery records what is not so.
THEOREM SuccessRecordsTrue ==
    ASSUME TRUE \notin DryRuns
    PROVE  Spec => []SuccessMeansSatisfied
<1>1. TruthInv => SuccessMeansSatisfied
  BY DEF TruthInv
<1> QED
  BY <1>1, TruthInvariant, PTL

\* Outside dry runs, execute() reports success only when all it was asked for holds:
\* what the filter left out, and every group of the plan, none of which can be
\* passed over without a failure record.
THEOREM OkIsTrue ==
    ASSUME TRUE \notin DryRuns
    PROVE  Spec => OkMeansSatisfied
<1> DEFINE Honest == \A p \in Procs : exec'[p].result = "ok" /\ exec[p].pc # "idle" =>
                        exec[p].request \subseteq satisfied
<1>1. ASSUME TypeOK, TruthInv, TruthInv', [Next]_vars PROVE [Honest]_vars
  <2> SUFFICES ASSUME NEW p \in Procs, exec'[p].result = "ok", exec[p].pc # "idle", Next
               PROVE  exec[p].request \subseteq satisfied
    BY <1>1
  <2>1. exec \in [Procs -> Calls] /\ exec[p] \in Calls /\ exec[p].result = "none"
        /\ CallTruthful(p)
    BY <1>1 DEF TypeOK, TruthInv, CallTruthful
  <2>2. exec'[p].pc = "idle"
    BY <1>1 DEF TruthInv, CallTruthful
  <2>3. Step(p)
    <3>1. ASSUME NEW q \in Procs \ {p}, Step(q) \/ Invoke(q) \/ Crash(q) PROVE FALSE
      BY <2>1, <3>1, StepOthers
    <3>2. ~Crash(p) /\ ~Invoke(p)
      BY <2>1 DEF Crash, Leave, Outside, Invoke
    <3>3. ASSUME NEW q \in Procs, NEW i \in Items, PluginEffect(q, i) PROVE FALSE
      BY <2>1, <3>3 DEF PluginEffect
    <3> QED
      BY <3>1, <3>2, <3>3 DEF Next
  <2>4. NothingToDo(p) \/ (DeleteCommittedRun(p) /\ exec[p].ok)
    BY <1>1, <2>1, <2>2, <2>3, OkOnlyFrom
  <2> QED
    BY <2>1, <2>4 DEF CallTruthful, NothingToDo
<1> QED
  BY <1>1, TruthInvariant, TypeCorrect, PTL DEF Spec, OkMeansSatisfied

-----------------------------------------------------------------------------
(* One process at a time: "active_run" names the one open run.             *)

\* What the writes do to the open run and to "active_run".
LEMMA WritesActive ==
    ASSUME TypeOK, OneOpenRun, NEW r \in RunIds \cup {NoRun}
    PROVE  /\ \A packages, status : UpdateItemsStatus(r, packages, status) =>
                 OneOpenRun' /\ activeRun' = activeRun
           /\ \A state \in {"recovered", "failed"} :
                 r = activeRun /\ MarkRunState(r, state) =>
                     OneOpenRun' /\ activeRun' = activeRun
           /\ MarkRunCommitted(r) => OneOpenRun'
           /\ DeleteRun(r) => OneOpenRun'
           /\ \A packages : r \in RunIds /\ activeRun = NoRun /\ CreateRun(r, packages) =>
                 OneOpenRun' /\ activeRun' = r
           /\ UNCHANGED database => OneOpenRun' /\ activeRun' = activeRun
<1> USE DatabaseAssumption DEF OneOpenRun, TypeOK, DatabaseTypeOK, RunStates
<1>1. ASSUME NEW packages, NEW status, UpdateItemsStatus(r, packages, status)
      PROVE  OneOpenRun' /\ activeRun' = activeRun
  BY <1>1 DEF UpdateItemsStatus
<1>2. ASSUME NEW state \in {"recovered", "failed"}, r = activeRun, MarkRunState(r, state)
      PROVE  OneOpenRun' /\ activeRun' = activeRun
  BY <1>2 DEF MarkRunState
<1>3. ASSUME MarkRunCommitted(r) PROVE OneOpenRun'
  BY <1>3 DEF MarkRunCommitted
<1>4. ASSUME DeleteRun(r) PROVE OneOpenRun'
  BY <1>4 DEF DeleteRun
<1>5. ASSUME NEW packages, r \in RunIds, activeRun = NoRun, CreateRun(r, packages)
      PROVE  OneOpenRun' /\ activeRun' = r
  BY <1>5 DEF CreateRun
<1>6. ASSUME UNCHANGED database PROVE OneOpenRun' /\ activeRun' = activeRun
  BY <1>6 DEF database
<1> QED
  BY <1>1, <1>2, <1>3, <1>4, <1>5, <1>6

LEMMA InitActive == Init => ActiveInv
BY DatabaseAssumption
DEF Init, InitDatabase, Outside, ActiveInv, ActiveCall, OneOpenRun

LEMMA StepActive ==
    ASSUME TypeOK, NEW p \in Procs, OneOpenRun, ActiveCall(p), Step(p)
    PROVE  OneOpenRun' /\ ActiveCall(p)'
<1>1. /\ exec \in [Procs -> Calls] /\ exec[p] \in Calls
      /\ exec[p].activeRunId \in RunIds \cup {NoRun}
  BY DEF TypeOK, Calls
<1>2. ASSUME NEW result, Leave(p, result) PROVE ActiveCall(p)'
  BY <1>1, <1>2 DEF Leave, Outside, ActiveCall
<1> DEFINE Quiet == OneOpenRun' /\ activeRun' = activeRun
<1>3. ASSUME Quiet, exec'[p].pc = exec[p].pc, exec'[p].activeRunId = exec[p].activeRunId
      PROVE  OneOpenRun' /\ ActiveCall(p)'
  BY <1>3 DEF ActiveCall
<1>4. UNCHANGED database => Quiet
  BY <1>1, WritesActive
<1> HIDE DEF Quiet
<1>5. CASE BeginRecovery(p)
  <2>1. Quiet
    BY <1>4, <1>5 DEF BeginRecovery
  <2>2. CASE exec' = [exec EXCEPT ![p].pc = "check"]
    BY <1>1, <2>1, <2>2 DEF ActiveCall, Quiet, Calls
  <2>3. ASSUME NEW loadable, GetActiveRun # NoRun,
               exec' = [exec EXCEPT ![p].pc = "reconcile",
                                    ![p].loadable = loadable,
                                    ![p].activeRunId = GetActiveRun,
                                    ![p].unchecked = Pending(GetActiveRun)]
        PROVE  OneOpenRun' /\ ActiveCall(p)'
    <3>1. GetActiveRun = activeRun
      BY <2>3 DEF GetActiveRun
    <3>2. exec'[p].pc = "reconcile" /\ exec'[p].activeRunId = activeRun
      BY <1>1, <2>3, <3>1 DEF Calls
    <3> QED
      BY <2>1, <2>3, <3>1, <3>2 DEF ActiveCall, Quiet
  <2> QED
    BY <1>5, <2>2, <2>3 DEF BeginRecovery
<1>6. ASSUME NEW i \in Items, ReconcileItem(p, i) PROVE OneOpenRun' /\ ActiveCall(p)'
  <2>1. Quiet
    BY <1>1, <1>4, <1>6, WritesActive DEF ReconcileItem, Transaction, Quiet, database
  <2>2. exec'[p].pc = exec[p].pc /\ exec'[p].activeRunId = exec[p].activeRunId
    BY <1>1, <1>6 DEF ReconcileItem, Calls
  <2> QED
    BY <1>3, <2>1, <2>2
<1>7. CASE CloseRecovered(p)
  <2>1. OneOpenRun'
    BY <1>1, <1>7, WritesActive DEF CloseRecovered, Transaction
  <2>2. exec'[p].pc \in {"purge", "check"}
    BY <1>1, <1>7 DEF CloseRecovered, Calls
  <2> QED
    BY <2>1, <2>2 DEF ActiveCall
<1>8. CASE PurgeRecovered(p)
  <2>1. OneOpenRun'
    BY <1>1, <1>8, WritesActive DEF PurgeRecovered, Transaction
  <2>2. exec'[p].pc = "check"
    BY <1>1, <1>8 DEF PurgeRecovered, Calls
  <2> QED
    BY <2>1, <2>2 DEF ActiveCall
<1>9. CASE ResumeRecovered(p)
  <2>1. exec[p].activeRunId = activeRun /\ activeRun # NoRun
    BY <1>9 DEF ResumeRecovered, Reconciled, ActiveCall
  <2>2. Quiet
    BY <1>1, <1>9, <2>1, WritesActive DEF ResumeRecovered, Transaction, Quiet
  <2>3. exec'[p].pc = "execute" /\ exec'[p].activeRunId = exec[p].activeRunId
    BY <1>1, <1>9 DEF ResumeRecovered, Calls
  <2> QED
    BY <2>1, <2>2, <2>3 DEF ActiveCall, Quiet
<1>10. CASE CheckActive(p)
  <2>1. OneOpenRun'
    BY <1>4, <1>10 DEF CheckActive, Quiet
  <2>2. ActiveCall(p)'
    <3>1. ASSUME NEW request \in SUBSET Items, NEW loadable \in SUBSET Systems(request),
               exec' = [exec EXCEPT ![p] =
                    [Outside("none") EXCEPT
                        !.pc = IF Executable(request, loadable) = {} THEN "empty"
                                                                     ELSE "create",
                        !.dryRun = exec[p].dryRun,
                        !.request = request,
                        !.loadable = loadable,
                        !.todo = Executable(request, loadable)]]
        PROVE  exec'[p].pc \in {"empty", "create"}
      BY <1>1, <3>1 DEF Outside
    <3> QED
      BY <1>2, <1>10, <3>1 DEF CheckActive, ActiveCall
  <2> QED
    BY <2>1, <2>2
<1>11. CASE NothingToDo(p)
  BY <1>2, <1>4, <1>11 DEF NothingToDo, Quiet
<1>12. CASE CheckCreate(p)
  <2>1. Quiet
    BY <1>4, <1>12 DEF CheckCreate
  <2>2. CASE activeRun = NoRun /\ exec' = [exec EXCEPT ![p].pc = "put"]
    BY <1>1, <2>1, <2>2 DEF ActiveCall, Quiet, Calls
  <2> QED
    BY <1>2, <1>12, <2>1, <2>2 DEF CheckCreate, Quiet
<1>13. CASE PutRun(p)
  <2>1. activeRun = NoRun
    BY <1>13 DEF PutRun, ActiveCall
  <2>2. CASE Leave(p, "failed") /\ UNCHANGED database
    BY <1>2, <1>4, <2>2 DEF Quiet
  <2>3. ASSUME NEW r \in RunIds, CreateRun(r, exec[p].todo),
               exec' = [exec EXCEPT ![p].pc = "execute",
                                    ![p].activeRunId = r,
                                    ![p].group = Waiting(exec[p].todo)]
        PROVE  OneOpenRun' /\ ActiveCall(p)'
    <3>1. OneOpenRun' /\ activeRun' = r
      BY <2>1, <2>3, WritesActive
    <3>2. exec'[p].pc = "execute" /\ exec'[p].activeRunId = r
      BY <1>1, <2>3 DEF Calls
    <3> QED
      BY <3>1, <3>2, DatabaseAssumption DEF ActiveCall
  <2> QED
    BY <1>13, <2>2, <2>3 DEF PutRun
<1>14. ASSUME NEW g \in Groups, NEW record, EndGroup(p, g, record)
       PROVE  exec'[p].pc = exec[p].pc /\ exec'[p].activeRunId = exec[p].activeRunId
  BY <1>1, <1>14 DEF EndGroup, Calls
<1>15. ASSUME NEW g \in Groups, exec' = [exec EXCEPT ![p].group[g] = "running"]
       PROVE  exec'[p].pc = exec[p].pc /\ exec'[p].activeRunId = exec[p].activeRunId
  BY <1>1, <1>15 DEF Calls
<1>16. ASSUME NEW g \in Groups, LoadFailed(p, g) \/ Rehearse(p, g) \/ StartDirect(p, g)
                                    \/ PluginReturns(p, g) \/ DirectReturns(p, g)
       PROVE  OneOpenRun' /\ ActiveCall(p)'
  BY <1>3, <1>4, <1>14, <1>15, <1>16
  DEF LoadFailed, Rehearse, StartDirect, PluginReturns, DirectReturns
<1>17. ASSUME NEW g \in Groups, MarkRunning(p, g) PROVE OneOpenRun' /\ ActiveCall(p)'
  <2>1. Quiet
    BY <1>1, <1>4, <1>17, WritesActive DEF MarkRunning, Transaction, Quiet
  <2> QED
    BY <1>3, <1>14, <1>15, <1>17, <2>1 DEF MarkRunning
<1>18. CASE EndExecution(p)
  <2> DEFINE ok == \A i \in Items : exec[p].records[i] # "failed"
  <2>1. exec' = [exec EXCEPT ![p].pc = "write", ![p].ok = ok,
                             ![p].group = [g \in Groups |-> "none"]]
    BY <1>18 DEF EndExecution
  <2> HIDE DEF ok
  <2>2. exec'[p].pc = "write" /\ exec'[p].activeRunId = exec[p].activeRunId
    BY <1>1, <2>1 DEF Calls
  <2>3. Quiet /\ exec[p].pc = "execute"
    BY <1>4, <1>18 DEF EndExecution
  <2> QED
    BY <2>2, <2>3 DEF ActiveCall, Quiet
<1>19. ASSUME NEW i \in Items, WriteResult(p, i) PROVE OneOpenRun' /\ ActiveCall(p)'
  <2>1. Quiet
    BY <1>1, <1>4, <1>19, WritesActive DEF WriteResult, Transaction, Quiet
  <2>2. exec'[p].pc = exec[p].pc /\ exec'[p].activeRunId = exec[p].activeRunId
    BY <1>1, <1>19 DEF WriteResult, Calls
  <2> QED
    BY <1>3, <2>1, <2>2
<1>20. CASE MarkCommitted(p)
  <2>1. exec[p].activeRunId = activeRun
    BY <1>20 DEF MarkCommitted, ActiveCall
  <2>2. OneOpenRun'
    BY <1>1, <1>4, <1>20, <2>1, WritesActive DEF MarkCommitted, Transaction, Quiet
  <2>3. exec'[p].pc = "delete"
    BY <1>1, <1>20 DEF MarkCommitted, Calls
  <2> QED
    BY <2>2, <2>3 DEF ActiveCall
<1>21. CASE DeleteCommittedRun(p)
  <2>1. OneOpenRun'
    BY <1>1, <1>4, <1>21, WritesActive DEF DeleteCommittedRun, Transaction, Quiet, database
  <2>2. CASE exec' = [exec EXCEPT ![p].pc = "check"]
    BY <1>1, <2>1, <2>2 DEF ActiveCall, Calls
  <2> QED
    BY <1>2, <1>21, <2>1, <2>2 DEF DeleteCommittedRun
<1> QED
  BY <1>5, <1>6, <1>7, <1>8, <1>9, <1>10, <1>11, <1>12, <1>13, <1>16, <1>17, <1>18,
     <1>19, <1>20, <1>21
  DEF Step, Recover, NewRun, RunGroups, Record

LEMMA NextActive ==
    ASSUME \A p, q \in Procs : p = q
    PROVE  TypeOK /\ ActiveInv /\ [Next]_vars => ActiveInv'
<1> SUFFICES ASSUME TypeOK, ActiveInv, [Next]_vars PROVE ActiveInv'
  OBVIOUS
<1>1. exec \in [Procs -> Calls] /\ OneOpenRun /\ \A p \in Procs : ActiveCall(p)
  BY DEF TypeOK, ActiveInv
<1>2. UNCHANGED database => OneOpenRun' /\ activeRun' = activeRun
  BY <1>1, WritesActive
<1>3. ASSUME NEW p \in Procs, Step(p) PROVE ActiveInv'
  BY <1>1, <1>3, StepActive DEF ActiveInv
<1>4. ASSUME NEW p \in Procs, Invoke(p) PROVE ActiveInv'
  <2>1. exec'[p].pc = "recover"
    BY <1>1, <1>4 DEF Invoke, Calls
  <2> QED
    BY <1>2, <1>4, <2>1 DEF ActiveInv, ActiveCall, Invoke
<1>5. ASSUME NEW p \in Procs, Crash(p) PROVE ActiveInv'
  <2>1. exec'[p].pc = "idle"
    BY <1>1, <1>5 DEF Crash, Leave, Outside
  <2> QED
    BY <1>2, <1>5, <2>1 DEF ActiveInv, ActiveCall, Crash
<1>6. CASE UNCHANGED <<database, exec>>
  BY <1>1, <1>2, <1>6 DEF ActiveInv, ActiveCall
<1>7. ASSUME NEW p \in Procs, NEW i \in Items, PluginEffect(p, i) PROVE ActiveInv'
  BY <1>6, <1>7 DEF PluginEffect
<1>8. CASE UNCHANGED vars
  BY <1>6, <1>8 DEF vars
<1> QED
  BY <1>3, <1>4, <1>5, <1>7, <1>8 DEF Next

\* While one process at a time uses the database, "active_run" names the one run that
\* is neither committed nor deleted, whatever crashes and failing transactions leave
\* behind.  (createRun reads and writes "active_run" in two transactions, so
\* this does not hold for processes that run side by side.)
THEOREM ActiveRunExact ==
    ASSUME \A p, q \in Procs : p = q
    PROVE  Spec => []OneOpenRun
<1>1. ActiveInv => OneOpenRun
  BY DEF ActiveInv
<1> QED
  BY <1>1, InitActive, NextActive, TypeCorrect, PTL DEF Spec

-----------------------------------------------------------------------------
(* One process at a time and no failing transaction: nothing is done twice. *)

LEMMA OutsideFresh ==
    ASSUME TypeOK, NEW p \in Procs, NEW result, Leave(p, result)
    PROVE  FreshCall(p)'
BY DEF TypeOK, Leave, Outside, FreshCall, GroupsIdle

LEMMA InitFresh == Init => FreshInv
BY DEF Init, Outside, FreshInv, FreshCall, GroupsIdle

\* A group that is started or ends does not wait any more, and no other begins to.
LEMMA GroupFresh ==
    ASSUME TypeOK, NEW p \in Procs, FreshCall(p), NEW g \in Groups,
           exec[p].group[g] # "none", UNCHANGED <<direct, satisfied>>,
           \/ \E record : EndGroup(p, g, record)
           \/ exec' = [exec EXCEPT ![p].group[g] = "running"]
    PROVE  FreshCall(p)'
<1>1. exec \in [Procs -> Calls] /\ exec[p] \in Calls
  BY DEF TypeOK
<1>2. exec[p].pc = "execute"
  BY <1>1 DEF FreshCall, GroupsIdle
<1> DEFINE Kept ==
       /\ exec'[p].pc = "execute" /\ exec'[p].todo = exec[p].todo
       /\ exec'[p].loadable = exec[p].loadable
       /\ exec'[p].group[g] # "waiting"
       /\ \A h \in Groups : h # g => exec'[p].group[h] = exec[p].group[h]
<1>3. ASSUME exec' = [exec EXCEPT ![p].group[g] = "running"] PROVE Kept
  BY <1>1, <1>2, <1>3 DEF Calls
<1>4. ASSUME NEW record, EndGroup(p, g, record) PROVE Kept
  BY <1>1, <1>2, <1>4 DEF Calls, EndGroup
<1>5. Kept
  BY <1>3, <1>4
<1> QED
  BY <1>1, <1>2, <1>5, ExecuterAssumption DEF FreshCall, GroupsIdle, Calls

LEMMA RecoverFresh ==
    ASSUME MaxDbErrors = 0, TypeOK, NEW p \in Procs, FreshCall(p), Recover(p)
    PROVE  FreshCall(p)'
<1>1. exec \in [Procs -> Calls] /\ exec[p] \in Calls
  BY DEF TypeOK
<1>2. UNCHANGED <<direct, satisfied>> /\ dbErrors' = dbErrors
  BY StepFrame DEF Step, config
<1>3. CASE BeginRecovery(p)
  <2>1. CASE exec' = [exec EXCEPT ![p].pc = "check"]
    BY <1>1, <1>2, <1>3, <2>1 DEF FreshCall, GroupsIdle, Calls, BeginRecovery
  <2>2. ASSUME NEW loadable, GetActiveRun # NoRun,
               exec' = [exec EXCEPT ![p].pc = "reconcile",
                                    ![p].loadable = loadable,
                                    ![p].activeRunId = GetActiveRun,
                                    ![p].unchecked = Pending(GetActiveRun)]
        PROVE  FreshCall(p)'
    <3>1. GetActiveRun \in RunIds /\ Pending(GetActiveRun) \subseteq GetRunItems(GetActiveRun)
      BY <2>2 DEF GetActiveRun, Pending
    <3>2. \A r : GetRunItems(r)' = GetRunItems(r)
      BY <1>3 DEF BeginRecovery, database, GetRunItems
    <3>3. /\ exec'[p].pc = "reconcile" /\ exec'[p].activeRunId = GetActiveRun
          /\ exec'[p].unchecked = Pending(GetActiveRun)
          /\ exec'[p].todo = exec[p].todo /\ exec'[p].group = exec[p].group
      BY <1>1, <2>2 DEF Calls
    <3>4. exec[p].pc = "recover"
      BY <1>3 DEF BeginRecovery
    <3> QED
      BY <3>1, <3>2, <3>3, <3>4 DEF FreshCall, GroupsIdle
  <2> QED
    BY <1>3, <2>1, <2>2 DEF BeginRecovery
<1>4. ASSUME NEW i \in Items, ReconcileItem(p, i) PROVE FreshCall(p)'
  <2> DEFINE r == exec[p].activeRunId
             reached == GroupOf[i] \in exec[p].loadable /\ i \in satisfied
  <2>1. /\ exec[p].pc = "reconcile" /\ i \in exec[p].unchecked
        /\ r \in RunIds /\ exec[p].unchecked \subseteq GetRunItems(r)
    BY <1>4 DEF ReconcileItem, FreshCall
  <2>2. GetRunItems(r)' = GetRunItems(r)
    <3>1. UNCHANGED database \/ UpdateItemsStatus(r, {i}, "success")
      BY <1>4 DEF ReconcileItem, Transaction, database
    <3>2. CASE UNCHANGED database
      BY <1>1, <1>4, <3>2 DEF database, GetRunItems, ReconcileItem, Calls
    <3>3. CASE UpdateItemsStatus(r, {i}, "success")
      <4>1. r' = r
        BY <1>1, <1>4 DEF ReconcileItem, Calls
      <4>2. itemStatus'[r] = [j \in Items |-> IF j \in {i} /\ Recorded(r, {i})
                                             THEN "success" ELSE itemStatus[r][j]]
        BY <2>1, <3>3 DEF UpdateItemsStatus, TypeOK, DatabaseTypeOK
      <4>3. {j \in Items : itemStatus'[r][j] # "none"} = GetRunItems(r)
        BY <4>2 DEF Recorded, GetRunItems
      <4> QED
        BY <4>1, <4>3 DEF GetRunItems
    <3> QED
      BY <3>1, <3>2, <3>3
  <2>3. Recorded(r, {i})
    BY <2>1 DEF Recorded
  <2>4. exec' = [exec EXCEPT ![p].unchecked = exec[p].unchecked \ {i},
                             ![p].todo = IF reached THEN exec[p].todo
                                         ELSE exec[p].todo \cup {i}]
    BY <1>1, <1>2, <1>4, <2>3 DEF ReconcileItem, Calls
  <2>5. /\ exec'[p].pc = "reconcile" /\ exec'[p].activeRunId = r
        /\ exec'[p].unchecked \subseteq exec[p].unchecked
        /\ exec'[p].todo \subseteq exec[p].todo \cup {i}
        /\ reached => exec'[p].todo = exec[p].todo
        /\ exec'[p].loadable = exec[p].loadable /\ exec'[p].group = exec[p].group
    BY <1>1, <2>1, <2>4 DEF Calls
  <2> QED
    BY <1>2, <2>1, <2>2, <2>5 DEF FreshCall, GroupsIdle
<1>5. CASE CloseRecovered(p)
  <2>1. exec'[p].pc \in {"purge", "check"} /\ exec'[p].group = exec[p].group
    BY <1>1, <1>5 DEF CloseRecovered, Calls
  <2> QED
    BY <1>5, <2>1 DEF FreshCall, GroupsIdle, CloseRecovered, Reconciled
<1>6. CASE PurgeRecovered(p)
  <2>1. exec'[p].pc = "check" /\ exec'[p].group = exec[p].group
    BY <1>1, <1>6 DEF PurgeRecovered, Calls
  <2> QED
    BY <1>6, <2>1 DEF FreshCall, GroupsIdle, PurgeRecovered
<1>7. CASE ResumeRecovered(p)
  <2>1. /\ exec'[p].pc = "execute" /\ exec'[p].todo = exec[p].todo
        /\ exec'[p].loadable = exec[p].loadable
    BY <1>1, <1>7 DEF ResumeRecovered, Calls
  <2> QED
    BY <1>2, <1>7, <2>1 DEF FreshCall, GroupsIdle, ResumeRecovered, Reconciled
<1> QED
  BY <1>3, <1>4, <1>5, <1>6, <1>7 DEF Recover

LEMMA NewRunFresh ==
    ASSUME TypeOK, NEW p \in Procs, FreshCall(p), NewRun(p)
    PROVE  FreshCall(p)'
<1>1. exec \in [Procs -> Calls] /\ exec[p] \in Calls
  BY DEF TypeOK
<1>2. UNCHANGED <<direct, satisfied>>
  BY StepFrame DEF Step, config
<1>3. CASE \E result : Leave(p, result)
  BY <1>3, OutsideFresh
<1>4. ASSUME NEW request \in SUBSET Items, NEW loadable \in SUBSET Systems(request),
             exec' = [exec EXCEPT ![p] =
                    [Outside("none") EXCEPT
                        !.pc = IF Executable(request, loadable) = {} THEN "empty"
                                                                     ELSE "create",
                        !.dryRun = exec[p].dryRun,
                        !.request = request,
                        !.loadable = loadable,
                        !.todo = Executable(request, loadable)]]
      PROVE  FreshCall(p)'
  <2>1. /\ exec'[p].pc \in {"empty", "create"} /\ exec'[p].loadable = loadable
        /\ exec'[p].todo = Executable(request, loadable)
        /\ exec'[p].group = [g \in Groups |-> "none"]
    BY <1>1, <1>4 DEF Outside
  <2> QED
    BY <1>2, <2>1 DEF FreshCall, GroupsIdle, Executable
<1>5. CASE exec' = [exec EXCEPT ![p].pc = "put"] /\ exec[p].pc = "create"
  BY <1>1, <1>2, <1>5 DEF FreshCall, GroupsIdle, Calls
<1>6. ASSUME NEW r, exec[p].pc = "put",
             exec' = [exec EXCEPT ![p].pc = "execute",
                                  ![p].activeRunId = r,
                                  ![p].group = Waiting(exec[p].todo)]
      PROVE  FreshCall(p)'
  <2>1. /\ exec'[p].pc = "execute" /\ exec'[p].todo = exec[p].todo
        /\ exec'[p].loadable = exec[p].loadable
    BY <1>1, <1>6 DEF Calls
  <2> QED
    BY <1>2, <1>6, <2>1 DEF FreshCall, GroupsIdle
<1> QED
  BY <1>3, <1>4, <1>5, <1>6 DEF NewRun, CheckActive, NothingToDo, CheckCreate, PutRun

LEMMA RunGroupsFresh ==
    ASSUME TypeOK, NEW p \in Procs, FreshCall(p), RunGroups(p)
    PROVE  FreshCall(p)'
<1>1. exec \in [Procs -> Calls] /\ exec[p] \in Calls
  BY DEF TypeOK
<1>2. UNCHANGED <<direct, satisfied>>
  BY StepFrame DEF Step, config
<1>3. ASSUME NEW g \in Groups,
             \/ LoadFailed(p, g) \/ Rehearse(p, g) \/ MarkRunning(p, g)
             \/ StartDirect(p, g) \/ PluginReturns(p, g) \/ DirectReturns(p, g)
      PROVE  FreshCall(p)'
  <2>1. exec[p].group[g] # "none"
    BY <1>3 DEF LoadFailed, Rehearse, MarkRunning, StartDirect, PluginReturns,
       DirectReturns, MayStart
  <2>2. \/ \E record : EndGroup(p, g, record)
        \/ exec' = [exec EXCEPT ![p].group[g] = "running"]
    BY <1>3 DEF LoadFailed, Rehearse, MarkRunning, StartDirect, PluginReturns,
       DirectReturns
  <2> QED
    BY <1>2, <2>1, <2>2, GroupFresh
<1>4. CASE EndExecution(p)
  <2> DEFINE ok == \A i \in Items : exec[p].records[i] # "failed"
  <2>1. exec' = [exec EXCEPT ![p].pc = "write", ![p].ok = ok,
                             ![p].group = [g \in Groups |-> "none"]]
    BY <1>4 DEF EndExecution
  <2> HIDE DEF ok
  <2>2. exec'[p].pc = "write" /\ exec'[p].group = [g \in Groups |-> "none"]
    BY <1>1, <2>1 DEF Calls
  <2> QED
    BY <2>2 DEF FreshCall, GroupsIdle
<1> QED
  BY <1>3, <1>4 DEF RunGroups

LEMMA RecordFresh ==
    ASSUME TypeOK, NEW p \in Procs, FreshCall(p), Record(p)
    PROVE  FreshCall(p)'
<1>1. exec \in [Procs -> Calls] /\ exec[p] \in Calls
  BY DEF TypeOK
<1>2. CASE Leave(p, "ok") \/ Leave(p, "failed")
  BY <1>2, OutsideFresh
<1>3. ASSUME NEW i \in Items, WriteResult(p, i) PROVE FreshCall(p)'
  <2>1. exec'[p].pc = "write" /\ exec'[p].group = exec[p].group /\ exec[p].pc = "write"
    BY <1>1, <1>3 DEF WriteResult, Calls
  <2> QED
    BY <2>1 DEF FreshCall, GroupsIdle
<1>4. CASE MarkCommitted(p)
  <2>1. exec'[p].pc = "delete" /\ exec'[p].group = exec[p].group /\ exec[p].pc = "write"
    BY <1>1, <1>4 DEF MarkCommitted, Calls
  <2> QED
    BY <2>1 DEF FreshCall, GroupsIdle
<1>5. CASE exec' = [exec EXCEPT ![p].pc = "check"] /\ exec[p].pc = "delete"
  BY <1>1, <1>5 DEF FreshCall, GroupsIdle, Calls
<1> QED
  BY <1>2, <1>3, <1>4, <1>5 DEF Record, DeleteCommittedRun

LEMMA NextFresh ==
    ASSUME \A p, q \in Procs : p = q, MaxDbErrors = 0
    PROVE  TypeOK /\ FreshInv /\ [Next]_vars => FreshInv'
<1> SUFFICES ASSUME TypeOK, FreshInv, [Next]_vars PROVE FreshInv'
  OBVIOUS
<1>1. exec \in [Procs -> Calls] /\ \A p \in Procs : exec[p] \in Calls /\ FreshCall(p)
  BY DEF TypeOK, FreshInv
<1>2. ASSUME NEW p \in Procs, Step(p) PROVE FreshInv'
  BY <1>1, <1>2, RecoverFresh, NewRunFresh, RunGroupsFresh, RecordFresh DEF Step, FreshInv
<1>3. ASSUME NEW p \in Procs, Invoke(p) PROVE FreshInv'
  <2>1. /\ exec'[p].pc = "recover" /\ exec'[p].todo = exec[p].todo
        /\ exec'[p].group = exec[p].group /\ exec[p].pc = "idle"
    BY <1>1, <1>3 DEF Invoke, Calls
  <2>2. FreshCall(p)'
    BY <1>1, <2>1 DEF FreshCall, GroupsIdle
  <2> QED
    BY <2>2 DEF FreshInv
<1>4. ASSUME NEW p \in Procs, Crash(p) PROVE FreshInv'
  BY <1>4, OutsideFresh DEF Crash, FreshInv
<1>5. ASSUME NEW p \in Procs, NEW i \in Items, PluginEffect(p, i) PROVE FreshInv'
  <2>1. exec[p].pc = "execute"
    BY <1>1, <1>5, ExecuterAssumption DEF PluginEffect, FreshCall, GroupsIdle
  <2>2. FreshCall(p)'
    BY <1>1, <1>5, <2>1 DEF PluginEffect, FreshCall, GroupsIdle, config
  <2> QED
    BY <2>2 DEF FreshInv
<1>6. CASE UNCHANGED vars
  BY <1>1, <1>6 DEF vars, config, database, FreshInv, FreshCall, GroupsIdle, GetRunItems
<1> QED
  BY <1>2, <1>3, <1>4, <1>5, <1>6 DEF Next

\* The one step that hands a group of a plugin's packages to the plugin.
LEMMA StartedBy ==
    ASSUME TypeOK, NEW p \in Procs, NEW g \in Groups \ direct,
           exec[p].group[g] = "waiting", exec'[p].group[g] = "running", Step(p)
    PROVE  exec[p].pc = "execute" /\ g \in exec[p].loadable
<1> DEFINE Handed == exec[p].pc = "execute" /\ g \in exec[p].loadable
<1>1. exec \in [Procs -> Calls] /\ exec[p] \in Calls
  BY DEF TypeOK
<1>2. \A result : ~Leave(p, result)
  BY <1>1 DEF Leave, Outside
<1>3. exec'[p].group # exec[p].group /\ exec'[p].group # [h \in Groups |-> "none"]
      /\ \A items : exec'[p].group # Waiting(items)
  BY DEF Waiting
<1>4. ~BeginRecovery(p)
  <2>1. exec' # [exec EXCEPT ![p].pc = "check"]
    BY <1>1, <1>3 DEF Calls
  <2>2. ASSUME NEW loadable,
               exec' = [exec EXCEPT ![p].pc = "reconcile",
                                    ![p].loadable = loadable,
                                    ![p].activeRunId = GetActiveRun,
                                    ![p].unchecked = Pending(GetActiveRun)]
        PROVE  FALSE
    BY <1>1, <1>3, <2>2 DEF Calls
  <2> QED
    BY <2>1, <2>2 DEF BeginRecovery
<1>5. \A i \in Items : ~ReconcileItem(p, i)
  BY <1>1, <1>3 DEF ReconcileItem, Calls
<1>6. ~CloseRecovered(p)
  BY <1>1, <1>3 DEF CloseRecovered, Calls
<1>7. ~PurgeRecovered(p) /\ ~ResumeRecovered(p)
  BY <1>1, <1>3 DEF PurgeRecovered, ResumeRecovered, Calls
<1>8. ~CheckActive(p)
  <2>1. ASSUME NEW request \in SUBSET Items, NEW loadable \in SUBSET Systems(request),
               exec' = [exec EXCEPT ![p] =
                    [Outside("none") EXCEPT
                        !.pc = IF Executable(request, loadable) = {} THEN "empty"
                                                                     ELSE "create",
                        !.dryRun = exec[p].dryRun,
                        !.request = request,
                        !.loadable = loadable,
                        !.todo = Executable(request, loadable)]]
        PROVE  FALSE
    BY <1>1, <1>3, <2>1 DEF Outside
  <2> QED
    BY <1>2, <2>1 DEF CheckActive
<1>9. ~NothingToDo(p) /\ ~CheckCreate(p) /\ ~PutRun(p)
  <2>1. exec' # [exec EXCEPT ![p].pc = "put"]
    BY <1>1, <1>3 DEF Calls
  <2>2. \A r \in RunIds : exec' # [exec EXCEPT ![p].pc = "execute",
                                             ![p].activeRunId = r,
                                             ![p].group = Waiting(exec[p].todo)]
    BY <1>1, <1>3 DEF Calls
  <2> QED
    BY <1>2, <2>1, <2>2 DEF NothingToDo, CheckCreate, PutRun
<1>10. \A h \in Groups : \A record : ~EndGroup(p, h, record)
  BY <1>1 DEF EndGroup, Calls
<1>11. \A h \in Groups : exec' = [exec EXCEPT ![p].group[h] = "running"] => h = g
  BY <1>1 DEF Calls
<1>12. \A h \in Groups : ~LoadFailed(p, h) /\ ~Rehearse(p, h) /\ ~PluginReturns(p, h)
                         /\ ~DirectReturns(p, h)
  BY <1>10 DEF LoadFailed, Rehearse, PluginReturns, DirectReturns
<1>13. \A h \in Groups : MarkRunning(p, h) \/ StartDirect(p, h) => Handed
  BY <1>10, <1>11 DEF MarkRunning, StartDirect, MayStart
<1>14. ~EndExecution(p)
  <2> DEFINE ok == \A i \in Items : exec[p].records[i] # "failed"
  <2>1. EndExecution(p) =>
           exec' = [exec EXCEPT ![p].pc = "write", ![p].ok = ok,
                                ![p].group = [h \in Groups |-> "none"]]
    BY DEF EndExecution
  <2> HIDE DEF ok
  <2> QED
    BY <1>1, <1>3, <2>1 DEF Calls
<1>15. \A i \in Items : ~WriteResult(p, i)
  BY <1>1, <1>3 DEF WriteResult, Calls
<1>16. ~MarkCommitted(p)
  BY <1>1, <1>3 DEF MarkCommitted, Calls
<1>17. ~DeleteCommittedRun(p)
  BY <1>1, <1>2, <1>3 DEF DeleteCommittedRun, Calls
<1> HIDE DEF Handed
<1>18. Handed
  BY <1>4, <1>5, <1>6, <1>7, <1>8, <1>9, <1>12, <1>13, <1>14, <1>15, <1>16, <1>17
  DEF Step, Recover, NewRun, RunGroups, Record
<1> QED
  BY <1>18 DEF Handed

\* While one process at a time uses the database and the database takes every update,
\* no plugin is asked for a package that already holds: the filter of a new
\* command and the reconciliation of an interrupted run leave out what is done, and
\* nothing else changes those packages until the group starts.
THEOREM NoRepeatedWork ==
    ASSUME \A p, q \in Procs : p = q, MaxDbErrors = 0
    PROVE  Spec => NothingDoneTwice
<1> DEFINE Fresh == \A p \in Procs : \A g \in Groups \ direct :
                       exec[p].group[g] = "waiting" /\ exec'[p].group[g] = "running" =>
                           GroupItems(p, g) \cap satisfied = {}
<1>1. ASSUME TypeOK, FreshInv, [Next]_vars PROVE [Fresh]_vars
  <2> SUFFICES ASSUME NEW p \in Procs, NEW g \in Groups \ direct, Next,
                      exec[p].group[g] = "waiting", exec'[p].group[g] = "running"
               PROVE  GroupItems(p, g) \cap satisfied = {}
    BY <1>1
  <2>1. exec \in [Procs -> Calls] /\ FreshCall(p)
    BY <1>1 DEF TypeOK, FreshInv
  <2>2. Step(p)
    <3>1. ~Crash(p) /\ ~Invoke(p)
      BY <2>1 DEF Crash, Leave, Outside, Invoke, Calls
    <3>2. \A i \in Items : ~PluginEffect(p, i)
      BY DEF PluginEffect
    <3> QED
      BY <3>1, <3>2 DEF Next
  <2>3. exec[p].pc = "execute" /\ g \in exec[p].loadable \ direct
    BY <1>1, <2>2, StartedBy
  <2> QED
    BY <2>1, <2>3 DEF FreshCall, GroupItems
<1>2. Init => FreshInv
  BY InitFresh
<1>3. TypeOK /\ FreshInv /\ [Next]_vars => FreshInv'
  BY NextFresh
<1> QED
  BY <1>1, <1>2, <1>3, TypeCorrect, PTL DEF Spec, NothingDoneTwice
=============================================================================
