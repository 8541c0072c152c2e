----------------------------- MODULE WorkerPool -----------------------------
(***************************************************************************)
(* What the two worker pools of the engine have in common: run() of        *)
(* engine/scheduler/parallel_task_scheduler.cpp (TaskScheduler) and        *)
(* updateSystems of engine/scheduler/executor_update.cpp (SystemUpdate).   *)
(* Units of work (task groups, update requests) that belong to package     *)
(* systems wait in a queue; threads take one whose system is free, execute *)
(* it outside the lock and come back.                                      *)
(***************************************************************************)
EXTENDS Naturals, Sequences, FiniteSets

CONSTANTS Systems,       \* package systems a unit of work may belong to
          Workers        \* worker threads: at most one per unit of work

VARIABLES
    \* what run() or updateSystems is called with: chosen once, never changed
    system, stopOnFirstFailure, parallel,
    \* struct ParallelExecutionState, ParallelUpdateState.  Without threads
    \* failed[] of the scheduler stands for blocked[] and for the verdict of the
    \* groups that were executed
    readyIndices, busySystems, started, completed, failed, stopLaunching,
    runningWorkers,
    \* threads
    pc,         \* where each worker is
    index,      \* the unit a worker has taken
    verdict     \* how the execution of that unit ended

Goto(w, label) == pc' = [pc EXCEPT ![w] = label]
=============================================================================
