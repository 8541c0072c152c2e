--------------------------- MODULE TaskScheduler ---------------------------
(***************************************************************************)
(* ParallelTaskScheduler::run (engine/scheduler/parallel_task_scheduler    *)
(* .cpp): the task groups of one plan executed by a pool of threads that   *)
(* share a mutex, a condition variable and ParallelExecutionState, or by   *)
(* the caller alone when there is nothing to run in parallel.              *)
(*                                                                         *)
(* A worker's critical section is split into the iterations of its scan    *)
(* of the ready queue; the mutex is held from the first to the last.       *)
(* executeTaskGroup runs outside the lock and only its verdict (did one    *)
(* of its records fail) reaches the scheduler: the verdict is a            *)
(* nondeterministic choice here.  The plan is the one createPlans builds:  *)
(* groups are numbered in topological order, so an edge goes from a        *)
(* smaller index to a larger one, and the edges form a set (seenEdges).    *)
(***************************************************************************)
EXTENDS WorkerPool

CONSTANTS GroupCount,   \* number of task groups in the plan
          NoWorker      \* the mutex is free

ASSUME SchedulerAssumption ==
    /\ GroupCount \in Nat
    /\ IsFiniteSet(Workers)
    /\ NoWorker \notin Workers

Groups == 1 .. GroupCount

VARIABLES
    edges,      \* the graph of the plan: chosen once, never changed
    pendingDependencies,
    mutex,      \* the worker that holds state.mutex
    attempts,   \* iterations left in the scan of the worker that holds the mutex
    cursor      \* loop index of run_sequential

plan == <<system, edges, stopOnFirstFailure, parallel>>
shared == <<readyIndices, busySystems, pendingDependencies, started, completed,
            failed, stopLaunching, runningWorkers>>
threads == <<mutex, pc, index, verdict, attempts>>
vars == <<plan, shared, threads, cursor>>

Dependencies(g) == {p \in Groups : <<p, g>> \in edges}
Successors(g) == {s \in Groups : <<g, s>> \in edges}

\* The candidate was executed, blocked, or still waits for a dependency.
Stale(g) == started[g] \/ failed[g] \/ pendingDependencies[g] # 0

\* Busy without the look into busySystems.
BusyNever(g) == FALSE

\* Another thread is executing a group of the same package system.
Busy(g) == system[g] \in busySystems

\* The orders in which the successors released by one completion may be pushed.
Orderings(S) ==
    {s \in [1 .. Cardinality(S) -> S] :
        \A i, j \in 1 .. Cardinality(S) : s[i] = s[j] => i = j}

Ascending(S) ==
    {s \in Orderings(S) : \A i, j \in 1 .. Cardinality(S) : i < j => s[i] < s[j]}
-----------------------------------------------------------------------------
(* The plan and the state run() sets up before the threads start.          *)

InitPlan ==
    /\ system \in [Groups -> Systems]
    /\ edges \in SUBSET {e \in Groups \X Groups : e[1] < e[2]}
    /\ stopOnFirstFailure \in BOOLEAN
    /\ parallel \in BOOLEAN
    /\ parallel => GroupCount > 1 /\ Cardinality(Workers) > 1

InitShared ==
    /\ pendingDependencies = [g \in Groups |-> Cardinality(Dependencies(g))]
    /\ started = [g \in Groups |-> FALSE]
    /\ completed = [g \in Groups |-> FALSE]
    /\ failed = [g \in Groups |-> FALSE]
    /\ readyIndices \in Ascending({g \in Groups : pendingDependencies[g] = 0})
    /\ busySystems = {}
    /\ stopLaunching = FALSE
    /\ runningWorkers = 0

Init ==
    /\ InitPlan
    /\ InitShared
    /\ mutex = NoWorker
    /\ pc = [w \in Workers |-> "lock"]
    /\ index = [w \in Workers |-> 0]
    /\ verdict = [w \in Workers |-> FALSE]
    /\ attempts = 0
    /\ cursor = 1
-----------------------------------------------------------------------------
(* The worker threads.                                                     *)

\* Top of the inner loop, reached with the lock: by a thread that starts, comes
\* back for more work, or returns from condition.wait.
Enter(w) ==
    /\ parallel
    /\ pc[w] = "lock"
    /\ mutex = NoWorker
    /\ IF stopLaunching \/ (readyIndices = <<>> /\ runningWorkers = 0)
       THEN /\ Goto(w, "done")
            /\ UNCHANGED <<mutex, attempts>>
       ELSE /\ Goto(w, "scan")
            /\ mutex' = w
            /\ attempts' = Len(readyIndices)
    /\ UNCHANGED <<plan, shared, index, verdict, cursor>>

\* Requeue that forgets the group whose system is busy.
RequeueDrops(candidate) == Tail(readyIndices)

\* The queue after an attempt that found no work: a stale entry is dropped, a
\* group whose system is busy goes to the back.
Requeue(candidate) ==
    IF Stale(candidate) THEN Tail(readyIndices)
    ELSE Append(Tail(readyIndices), candidate)

\* One attempt of the scan that does not find work.
Skip(w) ==
    /\ pc[w] = "scan"
    /\ attempts > 0
    /\ LET candidate == Head(readyIndices) IN
       /\ Stale(candidate) \/ Busy(candidate)
       /\ readyIndices' = Requeue(candidate)
    /\ attempts' = attempts - 1
    /\ UNCHANGED <<plan, busySystems, pendingDependencies, started, completed,
                   failed, stopLaunching, runningWorkers, mutex, pc, index,
                   verdict, cursor>>

\* The attempt that finds work: the group is taken and the lock released.
Take(w) ==
    /\ pc[w] = "scan"
    /\ attempts > 0
    /\ LET candidate == Head(readyIndices) IN
       /\ ~Stale(candidate)
       /\ ~Busy(candidate)
       /\ started' = [started EXCEPT ![candidate] = TRUE]
       /\ busySystems' = busySystems \cup {system[candidate]}
       /\ index' = [index EXCEPT ![w] = candidate]
    /\ readyIndices' = Tail(readyIndices)
    /\ runningWorkers' = runningWorkers + 1
    /\ Goto(w, "execute")
    /\ mutex' = NoWorker
    /\ attempts' = 0
    /\ UNCHANGED <<plan, pendingDependencies, completed, failed, stopLaunching,
                   verdict, cursor>>

\* The scan found nothing: return if nobody is running, else condition.wait,
\* which releases the lock and starts waiting in one step.
Settle(w) ==
    /\ pc[w] = "scan"
    /\ attempts = 0
    /\ Goto(w, IF runningWorkers = 0 THEN "done" ELSE "wait")
    /\ mutex' = NoWorker
    /\ UNCHANGED <<plan, shared, index, verdict, attempts, cursor>>

\* executor.executeTaskGroup(taskGroup, runId), outside the lock.
Execute(w) ==
    /\ pc[w] = "execute"
    /\ \E bad \in BOOLEAN : verdict' = [verdict EXCEPT ![w] = bad]
    /\ Goto(w, "complete")
    /\ UNCHANGED <<plan, shared, mutex, index, attempts, cursor>>

\* Propagate that does not block the successors of a failed group.
PropagateUnmarked(g, bad) ==
    /\ pendingDependencies' =
           [s \in Groups |->
               IF s \in Successors(g) /\ pendingDependencies[s] > 0
               THEN pendingDependencies[s] - 1 ELSE pendingDependencies[s]]
    /\ failed' = [failed EXCEPT ![g] = bad]
    /\ completed' = [completed EXCEPT ![g] = TRUE]

\* What the completion of group g with verdict bad does to the successors of g.
Propagate(g, bad) ==
    /\ pendingDependencies' =
           [s \in Groups |->
               IF s \in Successors(g) /\ pendingDependencies[s] > 0
               THEN pendingDependencies[s] - 1 ELSE pendingDependencies[s]]
    /\ failed' = [s \in Groups |->
                     IF s = g THEN bad
                     ELSE failed[s] \/ (bad /\ s \in Successors(g))]
    /\ completed' = [completed EXCEPT ![g] = TRUE]

\* The successors of g that its completion makes ready.
Released(g) ==
    {s \in Successors(g) : /\ pendingDependencies'[s] = 0
                           /\ ~started[s]
                           /\ ~completed'[s]
                           /\ ~failed'[s]}

\* StopAfter for a scheduler that ignores stopOnFirstFailure.
StopAfterNone(bad) == UNCHANGED stopLaunching

\* The first failure ends the launch of groups, if the configuration says so; in
\* the sequential path stopLaunching stands for the break out of the loop.
StopAfter(bad) == stopLaunching' = (stopLaunching \/ (bad /\ stopOnFirstFailure))

\* WorkerDone without the decrement.
WorkerDoneUncounted == UNCHANGED runningWorkers

WorkerDone == runningWorkers' = IF runningWorkers > 0 THEN runningWorkers - 1 ELSE 0

\* The critical section after the execution.
Complete(w) ==
    /\ pc[w] = "complete"
    /\ mutex = NoWorker
    /\ Propagate(index[w], verdict[w])
    /\ busySystems' = busySystems \ {system[index[w]]}
    /\ \E released \in Orderings(Released(index[w])) :
           readyIndices' = readyIndices \o released
    /\ StopAfter(verdict[w])
    /\ WorkerDone
    /\ Goto(w, "notify")
    /\ UNCHANGED <<plan, started, mutex, index, verdict, attempts, cursor>>

\* Notify that wakes nobody.
NotifyNobody(w) ==
    /\ pc[w] = "notify"
    /\ Goto(w, "lock")
    /\ UNCHANGED <<plan, shared, mutex, index, verdict, attempts, cursor>>

\* condition.notify_all(), after the lock was released.
Notify(w) ==
    /\ pc[w] = "notify"
    /\ pc' = [v \in Workers |->
                 IF v = w \/ pc[v] = "wait" THEN "lock" ELSE pc[v]]
    /\ UNCHANGED <<plan, shared, mutex, index, verdict, attempts, cursor>>

\* condition.wait may return without a notification.
SpuriousWakeup(w) ==
    /\ pc[w] = "wait"
    /\ Goto(w, "lock")
    /\ UNCHANGED <<plan, shared, mutex, index, verdict, attempts, cursor>>

WorkerStep(w) ==
    Enter(w) \/ Skip(w) \/ Take(w) \/ Settle(w) \/ Execute(w) \/ Complete(w)
        \/ Notify(w)

-----------------------------------------------------------------------------
(* run_sequential: no graph, one job, or at most one group.                *)

InSequence == ~parallel /\ cursor \in Groups /\ ~stopLaunching

SequentialSkip ==
    /\ InSequence
    /\ ~started[cursor]
    /\ failed[cursor] \/ pendingDependencies[cursor] # 0
    /\ cursor' = cursor + 1
    /\ UNCHANGED <<plan, shared, threads>>

SequentialStart ==
    /\ InSequence
    /\ ~Stale(cursor)
    /\ started' = [started EXCEPT ![cursor] = TRUE]
    /\ UNCHANGED <<plan, readyIndices, busySystems, pendingDependencies,
                   completed, failed, stopLaunching, runningWorkers, threads,
                   cursor>>

SequentialFinish ==
    /\ InSequence
    /\ started[cursor]
    /\ \E bad \in BOOLEAN :
           /\ Propagate(cursor, bad)
           /\ StopAfter(bad)
    /\ cursor' = cursor + 1
    /\ UNCHANGED <<plan, readyIndices, busySystems, started, runningWorkers,
                   threads>>

Sequential == SequentialSkip \/ SequentialStart \/ SequentialFinish

-----------------------------------------------------------------------------

\* run() has returned: every thread was joined, or the loop has ended.
Returned ==
    IF parallel THEN \A w \in Workers : pc[w] = "done"
                ELSE ~InSequence

\* The caller has the records; nothing more happens.
Finished == Returned /\ UNCHANGED vars

Next ==
    \/ \E w \in Workers : WorkerStep(w) \/ SpuriousWakeup(w)
    \/ Sequential
    \/ Finished

Spec == Init /\ [][Next]_vars

\* Every thread keeps running, a plugin call returns, and a thread that asks for
\* state.mutex again and again gets it some day: std::mutex promises no order, so
\* the acquisitions need strong fairness.  Spurious wakeups are not assumed.
Fairness ==
    /\ \A w \in Workers : WF_vars(WorkerStep(w))
    /\ \A w \in Workers : SF_vars(Enter(w)) /\ SF_vars(Complete(w))
    /\ WF_vars(Sequential)

FairSpec == Spec /\ Fairness

-----------------------------------------------------------------------------
(* Properties.                                                             *)

Executing(w) == pc[w] \in {"execute", "complete"}

\* Every variable of ParallelExecutionState and of the threads keeps its type.
TypeOK ==
    /\ system \in [Groups -> Systems]
    /\ edges \in SUBSET (Groups \X Groups)
    /\ stopOnFirstFailure \in BOOLEAN
    /\ parallel \in BOOLEAN
    /\ readyIndices \in Seq(Groups)
    /\ busySystems \in SUBSET Systems
    /\ pendingDependencies \in [Groups -> Nat]
    /\ started \in [Groups -> BOOLEAN]
    /\ completed \in [Groups -> BOOLEAN]
    /\ failed \in [Groups -> BOOLEAN]
    /\ stopLaunching \in BOOLEAN
    /\ runningWorkers \in Nat
    /\ mutex \in Workers \cup {NoWorker}
    /\ pc \in [Workers -> {"lock", "scan", "execute", "complete", "notify",
                           "wait", "done"}]
    /\ index \in [Workers -> Groups \cup {0}]
    /\ verdict \in [Workers -> BOOLEAN]
    /\ attempts \in Nat
    /\ cursor \in Nat

\* Two threads never run groups of the same package system at the same time, and
\* never the same group: busySystems is exactly the set of systems being used.
SystemExclusive ==
    /\ \A v, w \in Workers :
           Executing(v) /\ Executing(w) /\ v # w =>
               system[index[v]] # system[index[w]]
    /\ busySystems = {system[index[w]] : w \in {v \in Workers : Executing(v)}}

\* A group is started only when every group it depends on was executed and none
\* of them failed.  Each of those was started too, so this holds along every
\* chain of dependencies although failed[] is only passed on to the direct
\* successors of a failed group.
DependenciesSucceeded ==
    \A g \in Groups : started[g] =>
        \A p \in Dependencies(g) : completed[p] /\ ~failed[p]

\* runningWorkers counts the threads between taking and completing a group; a
\* thread that reads 0 may leave because nobody is left who could release work.
RunningWorkersExact ==
    runningWorkers = Cardinality({w \in Workers : Executing(w)})

\* The groups at most n edges away from a group that was executed and failed.
FailedWithin[n \in 0 .. GroupCount] ==
    IF n = 0 THEN {g \in Groups : completed[g] /\ failed[g]}
    ELSE FailedWithin[n - 1] \cup UNION {Successors(g) : g \in FailedWithin[n - 1]}

\* The groups that can never run: one they depend on, directly or not, has failed.
FailedUpstream == FailedWithin[GroupCount]

\* When run() returns without having been told to stop, a group without records
\* is one that a failure upstream has blocked: no group is abandoned because the
\* last thread left too early or a wakeup was lost.
NoGroupAbandoned ==
    Returned /\ ~stopLaunching =>
        \A g \in Groups : completed[g] \/ g \in FailedUpstream

\* run() returns: no interleaving of waits, notifications and exits leaves
\* a thread waiting for a notification nobody will send.
Terminates == <>Returned

-----------------------------------------------------------------------------
(* The inductive invariant behind the safety properties.                   *)

\* Facts about single groups: the counter of a group counts the dependencies
\* that were not executed yet, and a failed group has marked its successors.
GroupsInv ==
    /\ edges \in SUBSET {e \in Groups \X Groups : e[1] < e[2]}
    /\ \A g \in Groups :
          /\ pendingDependencies[g] =
                 Cardinality({p \in Dependencies(g) : ~completed[p]})
          /\ completed[g] => started[g]
          /\ completed[g] /\ failed[g] => \A s \in Successors(g) : failed[s]
    /\ stopLaunching <=> stopOnFirstFailure
                           /\ \E g \in Groups : completed[g] /\ failed[g]

\* Facts about threads: the one that scans holds the mutex, started before any
\* failure that stops the launch, and never looks past the end of the queue; one
\* that executes has a group nobody has completed; and a group under way belongs
\* to a thread, or to the sequential loop.
ThreadsInv ==
    /\ \A w \in Workers :
          /\ pc[w] = "scan" <=> mutex = w
          /\ pc[w] = "scan" => ~stopLaunching /\ attempts <= Len(readyIndices)
          /\ Executing(w) => /\ index[w] \in Groups
                             /\ started[index[w]]
                             /\ ~completed[index[w]]
          /\ ~parallel => pc[w] = "lock"
    /\ \A g \in Groups : started[g] /\ ~completed[g] =>
          IF parallel THEN \E w \in Workers : Executing(w) /\ index[w] = g
                      ELSE g = cursor
    /\ ~parallel => \A g \in Groups : completed[g] => g < cursor

\* Together with the properties themselves these facts are preserved by every
\* step of every thread.
SchedulerInv ==
    /\ TypeOK
    /\ GroupsInv
    /\ ThreadsInv
    /\ SystemExclusive
    /\ DependenciesSucceeded
    /\ RunningWorkersExact

\* Where the work is that is left.  Threads: every group that may start is in the
\* ready queue, a scan with nobody running sees the whole queue, and a thread left
\* because it had to or because nothing was left.  Sequential loop: every group it
\* has passed was executed, was marked, or waits for one that was not executed.
\* In both, a mark on a group that was not executed comes from a failed dependency.
QueueInv ==
    /\ parallel => Workers # {}
    /\ \A g \in Groups : failed[g] /\ ~completed[g] =>
          \E p \in Dependencies(g) : completed[p] /\ failed[p]
    /\ parallel => \A g \in Groups :
          ~Stale(g) => \E i \in 1 .. Len(readyIndices) : readyIndices[i] = g
    /\ \A w \in Workers :
          /\ pc[w] = "scan" /\ runningWorkers = 0 => attempts = Len(readyIndices)
          /\ pc[w] = "done" =>
                stopLaunching \/ (readyIndices = <<>> /\ runningWorkers = 0)
    /\ cursor > 0
    /\ ~parallel => \A g \in Groups : g < cursor =>
          completed[g] \/ failed[g] \/ pendingDependencies[g] # 0

\* The progress of a group as run() shows it to the rest of the program.
GroupStatus ==
    [g \in Groups |->
        IF ~started[g] THEN "waiting"
        ELSE IF ~completed[g] THEN "running"
        ELSE IF failed[g] THEN "failed" ELSE "succeeded"]

Execution == INSTANCE TaskGroupExecution WITH status <- GroupStatus

\* The scheduler, threaded or sequential, implements the abstract execution of
\* a plan, its progress included.
ImplementsExecution == Execution!FairSpec
=============================================================================
