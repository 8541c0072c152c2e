------------------------- MODULE TaskGroupExecution -------------------------
(***************************************************************************)
(* What ParallelTaskScheduler::run promises to its caller, without         *)
(* threads, queue or lock: the task groups of one plan are executed so     *)
(* that a group starts at most once, only after every group it depends on  *)
(* has succeeded, never beside another group of the same package system,   *)
(* and never after a failure when stopOnFirstFailure is set.  Everything   *)
(* that may run under these rules is run.                                  *)
(*                                                                         *)
(* The plan (system, edges, stopOnFirstFailure) is chosen in the initial   *)
(* state and never changes.                                                *)
(***************************************************************************)
EXTENDS Naturals

CONSTANTS Groups,      \* indexes of the task groups of a plan
          Systems      \* package systems (plugins) a group may belong to

VARIABLES system,              \* system[g]: the package system of group g
          edges,               \* <<p, g>>: group g depends on group p
          stopOnFirstFailure,  \* config.execution.stopOnFirstFailure
          status               \* progress of each group

plan == <<system, edges, stopOnFirstFailure>>
vars == <<plan, status>>

Statuses == {"waiting", "running", "succeeded", "failed"}

Dependencies(g) == {p \in Groups : <<p, g>> \in edges}

\* A failure was reported and the configuration asks to stop at the first one.
Stopped == stopOnFirstFailure /\ \E g \in Groups : status[g] = "failed"

MayStart(g) ==
    /\ status[g] = "waiting"
    /\ ~Stopped
    /\ \A p \in Dependencies(g) : status[p] = "succeeded"
    /\ \A h \in Groups : status[h] = "running" => system[h] # system[g]

-----------------------------------------------------------------------------

Init ==
    /\ system \in [Groups -> Systems]
    /\ edges \in SUBSET (Groups \X Groups)
    /\ stopOnFirstFailure \in BOOLEAN
    /\ status = [g \in Groups |-> "waiting"]

Start(g) ==
    /\ MayStart(g)
    /\ status' = [status EXCEPT ![g] = "running"]
    /\ UNCHANGED plan

Finish(g) ==
    /\ status[g] = "running"
    /\ \E outcome \in {"succeeded", "failed"} :
           status' = [status EXCEPT ![g] = outcome]
    /\ UNCHANGED plan

Next == \E g \in Groups : Start(g) \/ Finish(g)

Spec == Init /\ [][Next]_vars

\* The promise with progress: as long as some group may start or is running,
\* the execution goes on.
FairSpec == Spec /\ WF_vars(Next)
=============================================================================
