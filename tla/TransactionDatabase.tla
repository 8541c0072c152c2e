------------------------ MODULE TransactionDatabase ------------------------
(***************************************************************************)
(* The transaction database (ecosystem/state/transaction_database_*.cpp):  *)
(* an LMDB file that outlives the processes using it and remembers, for    *)
(* every run of the executor, the state of the run and of each of its      *)
(* items, and under the key "active_run" the one run that is not finished. *)
(*                                                                         *)
(* Each operation below is one LMDB write transaction: it takes effect as  *)
(* a whole or, when it returns false, not at all.  Timestamps, flags and   *)
(* error messages are left out.  A run's key is the creation time in       *)
(* milliseconds and the number of its items; here it is a key that no      *)
(* unfinished run in the database has.                                     *)
(***************************************************************************)
EXTENDS Naturals

CONSTANTS Items,    \* package actions a command may ask for
          RunIds,   \* keys of runs
          NoRun     \* "active_run" is not set

ASSUME DatabaseAssumption == NoRun \notin RunIds

VARIABLES activeRun,    \* the run "active_run" names
          runState,     \* state of each run, "none" when the key is absent
          itemStatus    \* status of each item of each run, "none" when absent

database == <<activeRun, runState, itemStatus>>

RunStates == {"none", "open", "recovered", "failed", "committed"}
ItemStatuses == {"none", "planned", "running", "success", "failed", "committed"}

DatabaseTypeOK ==
    /\ activeRun \in RunIds \cup {NoRun}
    /\ runState \in [RunIds -> RunStates]
    /\ itemStatus \in [RunIds -> [Items -> ItemStatuses]]

InitDatabase ==
    /\ activeRun = NoRun
    /\ runState = [r \in RunIds |-> "none"]
    /\ itemStatus = [r \in RunIds |-> [i \in Items |-> "none"]]
-----------------------------------------------------------------------------
(* Reads.                                                                  *)

\* The run under "active_run", if its record can be read.
GetActiveRun ==
    IF activeRun \in RunIds /\ runState[activeRun] # "none" THEN activeRun ELSE NoRun

GetRunItems(r) == {i \in Items : itemStatus[r][i] # "none"}

\* Every item of the run has one of the given statuses.
AllItems(r, statuses) == \A i \in GetRunItems(r) : itemStatus[r][i] \in statuses

\* updateItemsStatus finds the keys of all the packages it is called with.
Recorded(r, packages) == packages \subseteq GetRunItems(r)
-----------------------------------------------------------------------------
(* Write transactions.                                                     *)

\* The write transaction of createRun; its check of "active_run" comes earlier,
\* in a transaction of its own.  Nobody reads a committed run that was left in
\* the database, so its key may stand for the new one: this bounds the keys.
CreateRun(r, packages) ==
    /\ runState[r] \in {"none", "committed"}
    /\ activeRun' = r
    /\ runState' = [runState EXCEPT ![r] = "open"]
    /\ itemStatus' = [itemStatus EXCEPT
          ![r] = [i \in Items |-> IF i \in packages THEN "planned" ELSE "none"]]

\* All the packages or, when one of them is not recorded, none.
UpdateItemsStatus(r, packages, status) ==
    /\ itemStatus' = [itemStatus EXCEPT
          ![r] = [i \in Items |-> IF i \in packages /\ Recorded(r, packages)
                                  THEN status ELSE @[i]]]
    /\ UNCHANGED <<activeRun, runState>>

MarkRunState(r, state) ==
    /\ runState' = [runState EXCEPT ![r] = IF @ = "none" THEN "none" ELSE state]
    /\ UNCHANGED <<activeRun, itemStatus>>

\* MarkRunCommitted that leaves "active_run" in place.
MarkRunCommittedActive(r) ==
    /\ runState' = [runState EXCEPT ![r] = "committed"]
    /\ itemStatus' = [itemStatus EXCEPT
          ![r] = [i \in Items |-> IF i \in GetRunItems(r) THEN "committed" ELSE "none"]]
    /\ UNCHANGED activeRun

\* Commits whatever the items' statuses are; the callers decide whether to call it.
MarkRunCommitted(r) ==
    /\ runState' = [runState EXCEPT ![r] = "committed"]
    /\ itemStatus' = [itemStatus EXCEPT
          ![r] = [i \in Items |-> IF i \in GetRunItems(r) THEN "committed" ELSE "none"]]
    /\ activeRun' = IF activeRun = r THEN NoRun ELSE activeRun

DeleteRun(r) ==
    /\ runState' = [runState EXCEPT ![r] = "none"]
    /\ itemStatus' = [itemStatus EXCEPT ![r] = [i \in Items |-> "none"]]
    /\ activeRun' = IF activeRun = r THEN NoRun ELSE activeRun
=============================================================================
