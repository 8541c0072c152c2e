---------------------------- MODULE SystemUpdate ----------------------------
(***************************************************************************)
(* Executer::updateSystems (engine/scheduler/executor_update.cpp): update  *)
(* all packages of several package systems, in parallel when there is more *)
(* than one job and more than one task.                                    *)
(*                                                                         *)
(* The pool is that of ParallelTaskScheduler without dependencies.  No     *)
(* thread looks at ParallelUpdateState without the mutex, so one critical  *)
(* section, the scan of the queue included, is one step here.  The vector  *)
(* `results' is different: runTask stores into it outside the mutex, and a *)
(* std::vector<bool> packs its elements into one word.  The store is a     *)
(* load and a store of that word by every thread.                          *)
(***************************************************************************)
EXTENDS WorkerPool

CONSTANT RequestCount  \* number of update requests

ASSUME UpdateAssumption == RequestCount \in Nat /\ IsFiniteSet(Workers)

Requests == 1 .. RequestCount

VARIABLES
    updateTasks,         \* requests that name a system only and resolve to a plugin
    word,                \* the word of results a thread has loaded
    results              \* the vector<bool> that is returned

updatePlan == <<system, updateTasks, stopOnFirstFailure, parallel>>
pool == <<readyIndices, busySystems, started, completed, failed, stopLaunching,
          runningWorkers>>
updateThreads == <<pc, index, verdict, word>>
updateVars == <<updatePlan, pool, updateThreads, results>>

\* The tasks in the order of their requests: the set of that one sequence.
InOrder(S) ==
    {s \in [1 .. Cardinality(S) -> S] :
        \A i, j \in 1 .. Cardinality(S) : i < j => s[i] < s[j]}

UpdateInit ==
    /\ system \in [Requests -> Systems]
    /\ updateTasks \in SUBSET Requests
    /\ stopOnFirstFailure \in BOOLEAN
    /\ parallel \in BOOLEAN
    /\ parallel => Cardinality(updateTasks) > 1 /\ Cardinality(Workers) > 1
    /\ readyIndices \in InOrder(updateTasks)
    /\ busySystems = {}
    /\ started = [i \in Requests |-> FALSE]
    /\ completed = [i \in Requests |-> FALSE]
    /\ failed = [i \in Requests |-> FALSE]
    /\ stopLaunching = FALSE
    /\ runningWorkers = 0
    /\ pc = [w \in Workers |-> "lock"]
    /\ index = [w \in Workers |-> 0]
    /\ verdict = [w \in Workers |-> FALSE]
    /\ word = [w \in Workers |-> [i \in Requests |-> FALSE]]
    /\ results = [i \in Requests |-> FALSE]
-----------------------------------------------------------------------------
(* The worker threads.                                                     *)

\* Free without the look into busySystems.
FreeAlways == DOMAIN readyIndices

\* Positions of the queue with a task whose system nobody is updating.
Free == {k \in DOMAIN readyIndices : system[readyIndices[k]] \notin busySystems}

\* The queue once the task at position k is taken: the busy ones before it went
\* to the back.
AfterTake(k) ==
    SubSeq(readyIndices, k + 1, Len(readyIndices)) \o SubSeq(readyIndices, 1, k - 1)

\* No task is left to take, or no more may be taken.
Leave(w) ==
    /\ parallel
    /\ pc[w] = "lock"
    /\ stopLaunching \/ (Free = {} /\ runningWorkers = 0)
    /\ Goto(w, "done")
    /\ UNCHANGED <<updatePlan, pool, index, verdict, word, results>>

\* The scan finds nothing, but a running task may free its system.
Wait(w) ==
    /\ parallel
    /\ pc[w] = "lock"
    /\ ~stopLaunching
    /\ Free = {}
    /\ runningWorkers > 0
    /\ Goto(w, "wait")
    /\ UNCHANGED <<updatePlan, pool, index, verdict, word, results>>

\* The scan takes the first task of the queue whose system is free.
UpdateTake(w) ==
    /\ parallel
    /\ pc[w] = "lock"
    /\ ~stopLaunching
    /\ \E k \in Free :
          /\ \A j \in Free : k <= j
          /\ index' = [index EXCEPT ![w] = readyIndices[k]]
          /\ started' = [started EXCEPT ![readyIndices[k]] = TRUE]
          /\ busySystems' = busySystems \cup {system[readyIndices[k]]}
          /\ readyIndices' = AfterTake(k)
    /\ runningWorkers' = runningWorkers + 1
    /\ Goto(w, "execute")
    /\ UNCHANGED <<updatePlan, completed, failed, stopLaunching, verdict, word, results>>

\* executeUpdate: the plugin, the security gateway, a dry run, or a plugin that
\* could not be loaded.
UpdateExecute(w) ==
    /\ pc[w] = "execute"
    /\ \E ok \in BOOLEAN : verdict' = [verdict EXCEPT ![w] = ok]
    /\ Goto(w, "load")
    /\ UNCHANGED <<updatePlan, pool, index, word, results>>

\* results[task.requestIndex] = ok: the word is read ...
LoadWord(w) ==
    /\ pc[w] = "load"
    /\ word' = [word EXCEPT ![w] = results]
    /\ Goto(w, "store")
    /\ UNCHANGED <<updatePlan, pool, index, verdict, results>>

\* StoreWord that reports success whatever executeUpdate returned.
StoreWordAlways(w) ==
    /\ pc[w] = "store"
    /\ results' = [word[w] EXCEPT ![index[w]] = TRUE]
    /\ word' = [word EXCEPT ![w] = [i \in Requests |-> FALSE]]
    /\ Goto(w, "complete")
    /\ UNCHANGED <<updatePlan, pool, index, verdict>>

\* ... and written back with one bit changed.
StoreWord(w) ==
    /\ pc[w] = "store"
    /\ results' = [word[w] EXCEPT ![index[w]] = verdict[w]]
    /\ word' = [word EXCEPT ![w] = [i \in Requests |-> FALSE]]
    /\ Goto(w, "complete")
    /\ UNCHANGED <<updatePlan, pool, index, verdict>>

\* What the end of task i means for the tasks not yet launched.
End(i, ok) ==
    /\ completed' = [completed EXCEPT ![i] = TRUE]
    /\ failed' = [failed EXCEPT ![i] = ~ok]
    /\ stopLaunching' = (stopLaunching \/ (~ok /\ stopOnFirstFailure))

UpdateComplete(w) ==
    /\ pc[w] = "complete"
    /\ End(index[w], verdict[w])
    /\ busySystems' = busySystems \ {system[index[w]]}
    /\ runningWorkers' = IF runningWorkers > 0 THEN runningWorkers - 1 ELSE 0
    /\ Goto(w, "notify")
    /\ UNCHANGED <<updatePlan, readyIndices, started, index, verdict, word, results>>

\* Notify that wakes nobody.
UpdateNotifyNobody(w) ==
    /\ pc[w] = "notify"
    /\ Goto(w, "lock")
    /\ UNCHANGED <<updatePlan, pool, index, verdict, word, results>>

\* condition.notify_all(), outside the lock.
UpdateNotify(w) ==
    /\ pc[w] = "notify"
    /\ pc' = [v \in Workers |-> IF v = w \/ pc[v] = "wait" THEN "lock" ELSE pc[v]]
    /\ UNCHANGED <<updatePlan, pool, index, verdict, word, results>>

\* condition.wait may return without a notification.
UpdateSpuriousWakeup(w) ==
    /\ pc[w] = "wait"
    /\ Goto(w, "lock")
    /\ UNCHANGED <<updatePlan, pool, index, verdict, word, results>>

UpdateWorkerStep(w) ==
    \/ Leave(w) \/ Wait(w) \/ UpdateTake(w) \/ UpdateExecute(w) \/ LoadWord(w) \/ StoreWord(w)
    \/ UpdateComplete(w) \/ UpdateNotify(w)
-----------------------------------------------------------------------------
(* One job, or one task: the caller runs the tasks in order.               *)

UpdateInSequence == ~parallel /\ readyIndices # <<>> /\ ~stopLaunching

UpdateSequentialStart ==
    /\ UpdateInSequence
    /\ ~started[Head(readyIndices)]
    /\ started' = [started EXCEPT ![Head(readyIndices)] = TRUE]
    /\ UNCHANGED <<updatePlan, readyIndices, busySystems, completed, failed, stopLaunching,
                   runningWorkers, updateThreads, results>>

UpdateSequentialFinish ==
    /\ UpdateInSequence
    /\ started[Head(readyIndices)]
    /\ \E ok \in BOOLEAN :
          /\ End(Head(readyIndices), ok)
          /\ results' = [results EXCEPT ![Head(readyIndices)] = ok]
    /\ readyIndices' = Tail(readyIndices)
    /\ UNCHANGED <<updatePlan, busySystems, started, runningWorkers, updateThreads>>

UpdateSequential == UpdateSequentialStart \/ UpdateSequentialFinish
-----------------------------------------------------------------------------

\* updateSystems has returned its results.
UpdateReturned ==
    IF parallel THEN \A w \in Workers : pc[w] = "done"
                ELSE ~UpdateInSequence

UpdateFinished == UpdateReturned /\ UNCHANGED updateVars

UpdateNext ==
    \/ \E w \in Workers : UpdateWorkerStep(w) \/ UpdateSpuriousWakeup(w)
    \/ UpdateSequential
    \/ UpdateFinished

UpdateSpec == UpdateInit /\ [][UpdateNext]_updateVars

\* As for ParallelTaskScheduler: threads run, a plugin call returns, and a thread
\* that keeps asking for the mutex gets it.
UpdateFairness ==
    /\ \A w \in Workers : WF_updateVars(UpdateWorkerStep(w))
    /\ WF_updateVars(UpdateSequential)

UpdateFairSpec == UpdateSpec /\ UpdateFairness
-----------------------------------------------------------------------------
(* Properties.                                                             *)

\* Every variable of ParallelUpdateState and of the threads keeps its type.
UpdateTypeOK ==
    /\ system \in [Requests -> Systems]
    /\ updateTasks \in SUBSET Requests
    /\ stopOnFirstFailure \in BOOLEAN
    /\ parallel \in BOOLEAN
    /\ readyIndices \in Seq(Requests)
    /\ busySystems \in SUBSET Systems
    /\ started \in [Requests -> BOOLEAN]
    /\ completed \in [Requests -> BOOLEAN]
    /\ failed \in [Requests -> BOOLEAN]
    /\ stopLaunching \in BOOLEAN
    /\ runningWorkers \in Nat
    /\ pc \in [Workers -> {"lock", "execute", "load", "store", "complete", "notify",
                           "wait", "done"}]
    /\ index \in [Workers -> Requests \cup {0}]
    /\ verdict \in [Workers -> BOOLEAN]
    /\ word \in [Workers -> [Requests -> BOOLEAN]]
    /\ results \in [Requests -> BOOLEAN]

\* A request reported as updated was updated: the race for the word of results
\* can only lose a success, never invent one.
NoFalseSuccess ==
    \A i \in Requests : results[i] => started[i] /\ ~failed[i]

\* updateSystems returns, and unless a failure stopped it, it has by then run
\* every task it accepted: no rotation of the queue and no thread that leaves
\* early drops one.
UpdateTerminates ==
    <>(UpdateReturned /\ (stopLaunching \/ \A i \in updateTasks : completed[i]))

\* The progress of a task as updateSystems shows it to the rest of the program.
TaskStatus ==
    [i \in Requests |->
        IF ~started[i] THEN "waiting"
        ELSE IF ~completed[i] THEN "running"
        ELSE IF failed[i] THEN "failed" ELSE "succeeded"]

UpdateExecution ==
    INSTANCE TaskGroupExecution WITH Groups <- Requests, edges <- {},
                                     status <- TaskStatus

\* The pool keeps the promises of TaskGroupExecution for groups that depend on
\* nothing: a system is never updated by two threads, a task never run twice,
\* and nothing starts after a failure that stops the launch.
UpdateImplementsExecution == UpdateExecution!Spec

-----------------------------------------------------------------------------
(* The inductive invariant behind the safety properties.                   *)

\* The thread is between taking a task and completing it.
Working(w) == pc[w] \in {"execute", "load", "store", "complete"}

Queued(i) == \E k \in 1 .. Len(readyIndices) : readyIndices[k] = i

\* Facts about tasks and the queue: a task is in the queue once, and there it has
\* not been started (the caller's loop leaves the one it runs in front); one that
\* was accepted is in the queue until it is started.
TasksInv ==
    /\ \A i \in Requests : /\ completed[i] => started[i]
                           /\ failed[i] => completed[i]
    /\ stopLaunching <=> stopOnFirstFailure /\ \E i \in Requests : failed[i]
    /\ \A j, k \in 1 .. Len(readyIndices) : readyIndices[j] = readyIndices[k] => j = k
    /\ \A k \in 1 .. Len(readyIndices) :
          IF parallel \/ k > 1 THEN ~started[readyIndices[k]]
                               ELSE ~completed[readyIndices[k]]
    /\ \A i \in updateTasks : ~completed[i] =>
          Queued(i) \/ (parallel /\ started[i])

\* Facts about threads: each one works on a task of its own and of a system of its
\* own, a task under way belongs to a thread or heads the queue, and a thread has
\* left because it had to or because nothing was left.
UpdateThreadsInv ==
    /\ \A w \in Workers :
          /\ Working(w) => index[w] \in Requests /\ started[index[w]] /\ ~completed[index[w]]
          /\ ~parallel => pc[w] = "lock"
          /\ pc[w] = "done" =>
                stopLaunching \/ (readyIndices = <<>> /\ runningWorkers = 0)
    /\ parallel => Workers # {}
    /\ \A v, w \in Workers : Working(v) /\ Working(w) /\ v # w =>
          system[index[v]] # system[index[w]]
    /\ busySystems = {system[index[w]] : w \in {v \in Workers : Working(v)}}
    /\ runningWorkers = Cardinality({w \in Workers : Working(w)})
    /\ \A i \in Requests : started[i] /\ ~completed[i] =>
          IF parallel THEN \E w \in Workers : Working(w) /\ index[w] = i
                      ELSE readyIndices # <<>> /\ i = readyIndices[1]

\* A bit that is set, in the results or in a copy of the word that a thread has
\* loaded, belongs to a task that has stored its own success: a thread that runs
\* the task is past that store.
BitBacked(i) ==
    /\ started[i] /\ ~failed[i]
    /\ parallel \/ completed[i]
    /\ \A w \in Workers : Working(w) /\ index[w] = i => pc[w] = "complete" /\ verdict[w]

ResultsInv ==
    \A i \in Requests :
        results[i] \/ (\E w \in Workers : word[w][i]) => BitBacked(i)

\* Together these facts are preserved by every step of every thread.
UpdateInv == UpdateTypeOK /\ TasksInv /\ UpdateThreadsInv /\ ResultsInv

\* The safety half of Terminates: what was accepted has been run when the call
\* returns, unless a failure stopped it.
NoTaskDropped ==
    UpdateReturned /\ ~stopLaunching => \A i \in updateTasks : completed[i]
=============================================================================
