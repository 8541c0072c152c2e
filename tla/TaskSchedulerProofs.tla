------------------------ MODULE TaskSchedulerProofs ------------------------
(***************************************************************************)
(* Proofs about TaskScheduler for every plan, every number of threads and  *)
(* every interleaving: SchedulerInv is an inductive invariant, the safety  *)
(* properties follow from it, and every step of the threads is a step of   *)
(* the abstract TaskGroupExecution or leaves it unchanged.  The second     *)
(* half does the same for SystemUpdate, the other worker pool.             *)
(***************************************************************************)
EXTENDS TaskScheduler, SystemUpdate, FiniteSetTheorems, TLAPS

LEMMA GroupsFinite == IsFiniteSet(Groups) /\ \A S \in SUBSET Groups : IsFiniteSet(S)
<1>1. IsFiniteSet(Groups)
  BY SchedulerAssumption, FS_Interval DEF Groups
<1> QED
  BY <1>1, FS_Subset

\* The order in which released groups are pushed makes a sequence of groups.
LEMMA OrderingsAreSequences ==
    ASSUME NEW S \in SUBSET Groups, NEW s \in Orderings(S)
    PROVE  s \in Seq(Groups)
<1>1. Cardinality(S) \in Nat
  BY GroupsFinite, FS_CardinalityType
<1>2. s \in [1 .. Cardinality(S) -> Groups]
  BY DEF Orderings
<1> QED
  BY <1>1, <1>2

-----------------------------------------------------------------------------
(* Type correctness.                                                       *)

LEMMA InitType == Init => TypeOK
<1> SUFFICES ASSUME Init PROVE TypeOK
  OBVIOUS
<1>1. readyIndices \in Seq(Groups)
  <2>1. readyIndices \in Orderings({g \in Groups : pendingDependencies[g] = 0})
    BY DEF Init, InitShared, Ascending
  <2> QED
    BY <2>1, OrderingsAreSequences
<1>2. pendingDependencies \in [Groups -> Nat]
  BY GroupsFinite, FS_CardinalityType DEF Init, InitShared, Dependencies
<1> QED
  BY <1>1, <1>2 DEF Init, InitPlan, InitShared, TypeOK

LEMMA PropagateType ==
    ASSUME TypeOK, NEW g \in Groups, NEW bad \in BOOLEAN, Propagate(g, bad)
    PROVE  /\ pendingDependencies' \in [Groups -> Nat]
           /\ failed' \in [Groups -> BOOLEAN]
           /\ completed' \in [Groups -> BOOLEAN]
BY DEF TypeOK, Propagate

LEMMA NextType == TypeOK /\ ThreadsInv /\ [Next]_vars => TypeOK'
<1> SUFFICES ASSUME TypeOK, ThreadsInv, [Next]_vars PROVE TypeOK'
  OBVIOUS
<1> USE DEF plan, shared, threads
<1>1. ASSUME NEW w \in Workers, Enter(w) PROVE TypeOK'
  <2>1. Len(readyIndices) \in Nat
    BY DEF TypeOK
  <2>2. CASE Goto(w, "done") /\ UNCHANGED <<mutex, attempts>>
    BY <1>1, <2>2 DEF TypeOK, Enter, Goto
  <2>3. CASE Goto(w, "scan") /\ mutex' = w /\ attempts' = Len(readyIndices)
    BY <1>1, <2>1, <2>3 DEF TypeOK, Enter, Goto
  <2> QED
    BY <1>1, <2>2, <2>3 DEF Enter
<1>2. ASSUME NEW w \in Workers, Skip(w) PROVE TypeOK'
  <2>1. readyIndices # <<>> /\ readyIndices \in Seq(Groups)
    BY <1>2 DEF TypeOK, ThreadsInv, Skip
  <2>2. Head(readyIndices) \in Groups /\ Tail(readyIndices) \in Seq(Groups)
    BY <2>1
  <2>3. readyIndices' \in Seq(Groups)
    BY <1>2, <2>2 DEF Skip, Requeue
  <2> QED
    BY <1>2, <2>3 DEF TypeOK, Skip
<1>3. ASSUME NEW w \in Workers, Take(w) PROVE TypeOK'
  <2>1. readyIndices # <<>> /\ readyIndices \in Seq(Groups)
    BY <1>3 DEF TypeOK, ThreadsInv, Take
  <2>2. Head(readyIndices) \in Groups /\ Tail(readyIndices) \in Seq(Groups)
    BY <2>1
  <2> QED
    BY <1>3, <2>2 DEF TypeOK, Take, Goto
<1>4. ASSUME NEW w \in Workers, Settle(w) PROVE TypeOK'
  BY <1>4 DEF TypeOK, Settle, Goto
<1>5. ASSUME NEW w \in Workers, Execute(w) PROVE TypeOK'
  BY <1>5 DEF TypeOK, Execute, Goto
<1>6. ASSUME NEW w \in Workers, Complete(w) PROVE TypeOK'
  <2>1. index[w] \in Groups /\ verdict[w] \in BOOLEAN
    BY <1>6 DEF TypeOK, ThreadsInv, Executing, Complete
  <2>2. /\ pendingDependencies' \in [Groups -> Nat]
        /\ failed' \in [Groups -> BOOLEAN]
        /\ completed' \in [Groups -> BOOLEAN]
    BY <1>6, <2>1, PropagateType DEF Complete
  <2>3. readyIndices' \in Seq(Groups)
    <3>1. PICK released \in Orderings(Released(index[w])) :
             readyIndices' = readyIndices \o released
      BY <1>6 DEF Complete
    <3>2. released \in Seq(Groups)
      BY <3>1, OrderingsAreSequences DEF Released, Successors
    <3> QED
      BY <3>1, <3>2 DEF TypeOK
  <2>4. /\ busySystems' \in SUBSET Systems
        /\ runningWorkers' \in Nat
        /\ stopLaunching' \in BOOLEAN
    BY <1>6, <2>1 DEF TypeOK, Complete, StopAfter, WorkerDone
  <2> QED
    BY <1>6, <2>2, <2>3, <2>4 DEF TypeOK, Complete, Goto
<1>7. ASSUME NEW w \in Workers, Notify(w) \/ SpuriousWakeup(w) PROVE TypeOK'
  BY <1>7 DEF TypeOK, Notify, SpuriousWakeup, Goto
<1>8. CASE SequentialSkip
  BY <1>8 DEF TypeOK, SequentialSkip
<1>9. CASE SequentialStart
  BY <1>9 DEF TypeOK, SequentialStart, InSequence
<1>10. CASE SequentialFinish
  <2>1. PICK bad \in BOOLEAN : /\ Propagate(cursor, bad)
                               /\ stopLaunching' = (stopLaunching \/ (bad /\ stopOnFirstFailure))
    BY <1>10 DEF SequentialFinish, StopAfter
  <2>2. /\ pendingDependencies' \in [Groups -> Nat]
        /\ failed' \in [Groups -> BOOLEAN]
        /\ completed' \in [Groups -> BOOLEAN]
    BY <1>10, <2>1, PropagateType DEF SequentialFinish, InSequence
  <2> QED
    BY <1>10, <2>1, <2>2 DEF TypeOK, SequentialFinish
<1>11. CASE UNCHANGED vars
  BY <1>11 DEF TypeOK, vars
<1> QED
  BY <1>1, <1>2, <1>3, <1>4, <1>5, <1>6, <1>7, <1>8, <1>9, <1>10, <1>11
  DEF Next, WorkerStep, Sequential, Finished

-----------------------------------------------------------------------------
(* What the completion of a group does to the counters and flags.          *)

LEMMA PropagatePending ==
    ASSUME TypeOK, GroupsInv, NEW g \in Groups, NEW bad \in BOOLEAN,
           ~completed[g], Propagate(g, bad), edges' = edges
    PROVE  \A h \in Groups :
              pendingDependencies'[h] =
                  Cardinality({p \in Dependencies(h)' : ~completed'[p]})
<1> SUFFICES ASSUME NEW h \in Groups
             PROVE  pendingDependencies'[h] =
                        Cardinality({p \in Dependencies(h)' : ~completed'[p]})
  OBVIOUS
<1> DEFINE Open == {p \in Dependencies(h) : ~completed[p]}
           OpenNext == {p \in Dependencies(h)' : ~completed'[p]}
<1>1. IsFiniteSet(Open) /\ pendingDependencies[h] = Cardinality(Open)
  BY GroupsFinite DEF GroupsInv, Dependencies
<1>2. OpenNext = Open \ {g}
  BY DEF TypeOK, Propagate, Dependencies
<1>3. CASE h \in Successors(g)
  <2>1. g \in Open
    BY <1>3 DEF Dependencies, Successors
  <2>2. Cardinality(OpenNext) = Cardinality(Open) - 1 /\ Cardinality(Open) > 0
    <3>1. Cardinality(Open \ {g}) = Cardinality(Open) - 1
      BY <1>1, <2>1, FS_RemoveElement
    <3>2. Cardinality(Open) \in Nat /\ Cardinality(Open \ {g}) \in Nat
      BY <1>1, FS_CardinalityType, FS_Subset
    <3> QED
      BY <1>2, <3>1, <3>2
  <2>3. pendingDependencies'[h] = pendingDependencies[h] - 1
    BY <1>1, <1>3, <2>2 DEF Propagate
  <2> QED
    BY <1>1, <2>2, <2>3
<1>4. CASE h \notin Successors(g)
  <2>1. g \notin Open
    BY <1>4 DEF Dependencies, Successors
  <2>2. OpenNext = Open
    BY <1>2, <2>1
  <2>3. pendingDependencies'[h] = pendingDependencies[h]
    BY <1>4 DEF Propagate, TypeOK
  <2> QED
    BY <1>1, <2>2, <2>3
<1> QED
  BY <1>3, <1>4

\* Nothing that was started depends on a group that is not completed, so a late
\* completion cannot mark a group that runs or has run.
LEMMA PropagateFlags ==
    ASSUME TypeOK, GroupsInv, DependenciesSucceeded,
           NEW g \in Groups, NEW bad \in BOOLEAN,
           started[g], ~completed[g], Propagate(g, bad),
           edges' = edges, started' = started
    PROVE  /\ \A h \in Groups : completed'[h] => started'[h]
           /\ \A h \in Groups : completed'[h] /\ failed'[h] =>
                 \A s \in Successors(h)' : failed'[s]
           /\ DependenciesSucceeded'
           /\ \A h \in Groups : started[h] /\ h # g =>
                 completed'[h] = completed[h] /\ failed'[h] = failed[h]
           /\ completed'[g] = TRUE /\ failed'[g] = bad
<1>1. \A h \in Groups : started[h] => h \notin Successors(g)
  BY DEF DependenciesSucceeded, Successors, Dependencies
<1>2. \A h \in Groups : started[h] /\ h # g =>
         completed'[h] = completed[h] /\ failed'[h] = failed[h]
  BY <1>1 DEF TypeOK, Propagate
<1>3. completed'[g] = TRUE /\ failed'[g] = bad
  BY DEF TypeOK, Propagate
<1>4. \A h \in Groups : completed'[h] => started'[h]
  BY DEF TypeOK, GroupsInv, Propagate
<1>5. ASSUME NEW h \in Groups, completed'[h], failed'[h], NEW s \in Successors(h)'
      PROVE  failed'[s]
  <2>1. s \in Groups /\ s \in Successors(h)
    BY <1>5 DEF Successors
  <2>2. CASE h = g
    <3>1. g # s
      BY <2>1, <2>2 DEF GroupsInv, Successors, Groups
    <3> QED
      BY <1>3, <1>5, <2>1, <2>2, <3>1 DEF Propagate
  <2>3. CASE h # g
    <3>1. completed[h] /\ failed[h]
      BY <1>2, <1>4, <1>5, <2>3
    <3>2. failed[s] /\ s # g
      BY <2>1, <3>1 DEF GroupsInv, DependenciesSucceeded, Successors, Dependencies
    <3> QED
      BY <2>1, <3>2 DEF Propagate, TypeOK
  <2> QED
    BY <2>2, <2>3
<1>6. DependenciesSucceeded'
  <2> SUFFICES ASSUME NEW h \in Groups, started[h], NEW p \in Dependencies(h)
               PROVE  completed'[p] /\ ~failed'[p]
    BY DEF DependenciesSucceeded, Dependencies
  <2>1. p \in Groups /\ completed[p] /\ ~failed[p]
    BY DEF DependenciesSucceeded, Dependencies
  <2>2. p # g /\ started[p]
    BY <2>1 DEF GroupsInv
  <2> QED
    BY <1>2, <2>1, <2>2
<1> QED
  BY <1>2, <1>3, <1>4, <1>5, <1>6

-----------------------------------------------------------------------------
(* Every action preserves the invariant.                                   *)

LEMMA ExecutingFinite == IsFiniteSet({w \in Workers : Executing(w)})
BY SchedulerAssumption, FS_Subset

LEMMA InitInv == Init => SchedulerInv
<1> SUFFICES ASSUME Init PROVE SchedulerInv
  OBVIOUS
<1>1. TypeOK
  BY InitType
<1>2. {w \in Workers : Executing(w)} = {}
  BY DEF Init, Executing
<1>3. GroupsInv
  <2>1. \A g \in Groups : {p \in Dependencies(g) : ~completed[p]} = Dependencies(g)
    BY DEF Init, InitShared, Dependencies
  <2>2. \A g \in Groups : ~completed[g] /\
          pendingDependencies[g] = Cardinality({p \in Dependencies(g) : ~completed[p]})
    BY <2>1 DEF Init, InitShared
  <2>3. stopLaunching = FALSE /\ edges \in SUBSET {e \in Groups \X Groups : e[1] < e[2]}
    BY DEF Init, InitShared, InitPlan
  <2> QED
    BY <2>2, <2>3 DEF GroupsInv
<1>4. ThreadsInv
  BY SchedulerAssumption DEF Init, InitShared, ThreadsInv, Executing
<1>5. SystemExclusive
  BY <1>2 DEF SystemExclusive, Init, InitShared
<1>6. DependenciesSucceeded
  BY DEF DependenciesSucceeded, Init, InitShared
<1>7. RunningWorkersExact
  BY <1>2, FS_EmptySet DEF RunningWorkersExact, Init, InitShared
<1> QED
  BY <1>1, <1>3, <1>4, <1>5, <1>6, <1>7 DEF SchedulerInv

\* A step that leaves the flags, the counters and the plan alone.
LEMMA QuietGroups ==
    ASSUME SchedulerInv,
           UNCHANGED <<plan, pendingDependencies, started, completed, failed,
                       stopLaunching>>
    PROVE  GroupsInv' /\ DependenciesSucceeded'
<1>1. GroupsInv'
  BY DEF SchedulerInv, GroupsInv, plan, Dependencies, Successors
<1>2. DependenciesSucceeded'
  BY DEF SchedulerInv, DependenciesSucceeded, plan, Dependencies
<1> QED
  BY <1>1, <1>2

\* A step after which the same threads execute the same groups.
LEMMA QuietThreads ==
    ASSUME SchedulerInv,
           UNCHANGED <<plan, busySystems, runningWorkers, index>>,
           \A w \in Workers : Executing(w)' = Executing(w)
    PROVE  SystemExclusive' /\ RunningWorkersExact'
<1>1. {w \in Workers : Executing(w)'} = {w \in Workers : Executing(w)}
  OBVIOUS
<1>2. SystemExclusive'
  BY <1>1 DEF SchedulerInv, SystemExclusive, plan
<1>3. RunningWorkersExact'
  BY <1>1 DEF SchedulerInv, RunningWorkersExact
<1> QED
  BY <1>2, <1>3

LEMMA EnterInv ==
    ASSUME SchedulerInv, TypeOK', NEW w \in Workers, Enter(w)
    PROVE  SchedulerInv'
<1> USE DEF plan, shared
<1>1. GroupsInv' /\ DependenciesSucceeded'
  BY QuietGroups DEF Enter
<1>2. \A v \in Workers : Executing(v)' = Executing(v)
  BY DEF Enter, Goto, Executing, SchedulerInv, TypeOK
<1>3. SystemExclusive' /\ RunningWorkersExact'
  BY <1>2, QuietThreads DEF Enter
<1>4. ThreadsInv'
  <2>1. Len(readyIndices) \in Nat
    BY DEF SchedulerInv, TypeOK
  <2>2. CASE Goto(w, "done") /\ UNCHANGED <<mutex, attempts>>
    BY <1>2, <2>2, SchedulerAssumption
    DEF SchedulerInv, TypeOK, ThreadsInv, Enter, Goto, Executing
  <2>3. CASE Goto(w, "scan") /\ mutex' = w /\ attempts' = Len(readyIndices)
             /\ ~stopLaunching
    BY <1>2, <2>1, <2>3, SchedulerAssumption
    DEF SchedulerInv, TypeOK, ThreadsInv, Enter, Goto, Executing
  <2> QED
    BY <2>2, <2>3 DEF Enter
<1> QED
  BY <1>1, <1>3, <1>4 DEF SchedulerInv

LEMMA SkipInv ==
    ASSUME SchedulerInv, TypeOK', NEW w \in Workers, Skip(w)
    PROVE  SchedulerInv'
<1> USE DEF plan
<1>1. GroupsInv' /\ DependenciesSucceeded'
  BY QuietGroups DEF Skip
<1>2. \A v \in Workers : Executing(v)' = Executing(v)
  BY DEF Skip, Executing
<1>3. SystemExclusive' /\ RunningWorkersExact'
  BY <1>2, QuietThreads DEF Skip
<1>4. ThreadsInv'
  <2>1. readyIndices \in Seq(Groups) /\ readyIndices # <<>> /\ attempts \in Nat
        /\ attempts <= Len(readyIndices)
    BY DEF SchedulerInv, TypeOK, ThreadsInv, Skip
  <2>2. attempts' <= Len(readyIndices')
    BY <2>1 DEF Skip, Requeue
  <2> QED
    BY <1>2, <2>2 DEF SchedulerInv, ThreadsInv, Skip, Executing
<1> QED
  BY <1>1, <1>3, <1>4 DEF SchedulerInv

\* What not being stale means: the counter at zero says that every dependency was
\* completed, and an unmarked group has no dependency that failed.
LEMMA NotStaleMeansReady ==
    ASSUME SchedulerInv, NEW g \in Groups, ~Stale(g)
    PROVE  \A p \in Dependencies(g) : completed[p] /\ ~failed[p]
<1> DEFINE Open == {p \in Dependencies(g) : ~completed[p]}
<1>1. IsFiniteSet(Open) /\ Cardinality(Open) = 0
  BY GroupsFinite DEF SchedulerInv, GroupsInv, Stale, Dependencies
<1>2. Open = {}
  BY <1>1, FS_EmptySet
<1>3. \A p \in Dependencies(g) : completed[p]
  BY <1>2
<1> QED
  BY <1>3 DEF SchedulerInv, GroupsInv, Stale, Dependencies, Successors

LEMMA TakeInv ==
    ASSUME SchedulerInv, TypeOK', NEW w \in Workers, Take(w)
    PROVE  SchedulerInv'
<1> USE DEF plan
<1> DEFINE c == Head(readyIndices)
<1>1. c \in Groups
  BY DEF SchedulerInv, TypeOK, ThreadsInv, Take
<1>2. /\ started' = [started EXCEPT ![c] = TRUE]
      /\ busySystems' = busySystems \cup {system[c]}
      /\ system[c] \notin busySystems
      /\ index' = [index EXCEPT ![w] = c]
      /\ ~Stale(c)
      /\ pc' = [pc EXCEPT ![w] = "execute"]
  BY DEF Take, Goto, Busy
<1>3. /\ Executing(w)' /\ ~Executing(w) /\ index'[w] = c
      /\ \A v \in Workers \ {w} : Executing(v)' = Executing(v) /\ index'[v] = index[v]
  BY <1>2 DEF Take, Executing, SchedulerInv, TypeOK
<1> HIDE DEF c
<1>4. GroupsInv'
  <2>1. \A g \in Groups : started[g] => started'[g]
    BY <1>1, <1>2 DEF SchedulerInv, TypeOK
  <2> QED
    BY <2>1, ZenonT(60) DEF SchedulerInv, GroupsInv, Take, Dependencies, Successors
<1>5. DependenciesSucceeded'
  <2>1. \A p \in Dependencies(c) : completed[p] /\ ~failed[p]
    BY <1>1, <1>2, NotStaleMeansReady
  <2>2. \A g \in Groups : g # c => started'[g] = started[g]
    BY <1>1, <1>2 DEF SchedulerInv, TypeOK
  <2> QED
    BY <2>1, <2>2 DEF SchedulerInv, DependenciesSucceeded, Take, Dependencies
<1>6. SystemExclusive'
  <2>1. {v \in Workers : Executing(v)'} = {v \in Workers : Executing(v)} \cup {w}
    BY <1>3
  <2>2. \A v \in Workers : Executing(v) => system[index[v]] \in busySystems
    BY DEF SchedulerInv, SystemExclusive
  <2>3. busySystems' = {system'[index'[v]] : v \in {u \in Workers : Executing(u)'}}
    <3>1. busySystems = {system[index[v]] : v \in {u \in Workers : Executing(u)}}
      BY DEF SchedulerInv, SystemExclusive
    <3>2. \A v \in {u \in Workers : Executing(u)} : index'[v] = index[v]
      BY <1>3
    <3>3. system' = system
      BY DEF Take
    <3> QED
      BY <1>2, <1>3, <2>1, <3>1, <3>2, <3>3
  <2>4. \A u, v \in Workers : Executing(u)' /\ Executing(v)' /\ u # v =>
           system'[index'[u]] # system'[index'[v]]
    BY <1>2, <1>3, <2>2 DEF SchedulerInv, SystemExclusive, Take
  <2> QED
    BY <2>3, <2>4 DEF SystemExclusive
<1>7. RunningWorkersExact'
  <2>1. {v \in Workers : Executing(v)'} = {v \in Workers : Executing(v)} \cup {w}
    BY <1>3
  <2>2. w \notin {v \in Workers : Executing(v)}
    BY <1>3
  <2>3. Cardinality({v \in Workers : Executing(v)'})
            = Cardinality({v \in Workers : Executing(v)}) + 1
    BY <2>1, <2>2, ExecutingFinite, FS_AddElement
  <2> QED
    BY <2>3 DEF SchedulerInv, RunningWorkersExact, Take
<1>8. ThreadsInv'
  <2>1. mutex = w /\ mutex' = NoWorker /\ pc'[w] = "execute" /\ parallel
    BY <1>2 DEF SchedulerInv, ThreadsInv, Take, TypeOK
  <2>2. \A v \in Workers : pc'[v] # "scan"
    BY <1>2, <2>1 DEF SchedulerInv, ThreadsInv, TypeOK
  <2>3. \A v \in Workers : Executing(v)' => /\ index'[v] \in Groups
                                            /\ started'[index'[v]]
                                            /\ ~completed'[index'[v]]
    <3>1. started'[c] /\ ~completed'[c]
      BY <1>1, <1>2 DEF SchedulerInv, GroupsInv, Stale, Take, TypeOK
    <3>2. \A g \in Groups : started[g] => started'[g]
      BY <1>1, <1>2 DEF SchedulerInv, TypeOK
    <3> QED
      BY <1>1, <1>3, <3>1, <3>2 DEF SchedulerInv, ThreadsInv, Take
  <2>4. \A g \in Groups : started'[g] /\ ~completed'[g] =>
           \E v \in Workers : Executing(v)' /\ index'[v] = g
    <3>1. \A g \in Groups : g # c => started'[g] = started[g]
      BY <1>1, <1>2 DEF SchedulerInv, TypeOK
    <3>2. completed' = completed
      BY DEF Take
    <3>3. \A g \in Groups : started[g] /\ ~completed[g] =>
             \E v \in Workers : Executing(v) /\ index[v] = g
      BY <2>1 DEF SchedulerInv, ThreadsInv
    <3>4. \A v \in Workers : Executing(v) => Executing(v)' /\ index'[v] = index[v]
      BY <1>3
    <3> SUFFICES ASSUME NEW g \in Groups, started'[g], ~completed'[g]
                 PROVE  \E v \in Workers : Executing(v)' /\ index'[v] = g
      OBVIOUS
    <3>5. CASE g = c
      BY <1>3, <3>5
    <3>6. CASE g # c
      BY <3>1, <3>2, <3>3, <3>4, <3>6
    <3> QED
      BY <3>5, <3>6
  <2> QED
    BY <2>1, <2>2, <2>3, <2>4, SchedulerAssumption DEF ThreadsInv, Take
<1> QED
  BY <1>4, <1>5, <1>6, <1>7, <1>8 DEF SchedulerInv

LEMMA SettleInv ==
    ASSUME SchedulerInv, TypeOK', NEW w \in Workers, Settle(w)
    PROVE  SchedulerInv'
<1> USE DEF plan, shared
<1>1. GroupsInv' /\ DependenciesSucceeded'
  BY QuietGroups DEF Settle
<1>2. \A v \in Workers : Executing(v)' = Executing(v)
  BY DEF Settle, Goto, Executing, SchedulerInv, TypeOK
<1>3. SystemExclusive' /\ RunningWorkersExact'
  BY <1>2, QuietThreads DEF Settle
<1>4. ThreadsInv'
  <2>1. mutex = w /\ parallel
    BY DEF SchedulerInv, ThreadsInv, Settle, TypeOK
  <2>2. \A v \in Workers : pc'[v] # "scan" /\ (~parallel => pc'[v] = "lock")
    BY <2>1 DEF SchedulerInv, ThreadsInv, TypeOK, Settle, Goto
  <2> QED
    BY <1>2, <2>2, SchedulerAssumption DEF SchedulerInv, ThreadsInv, Settle
<1> QED
  BY <1>1, <1>3, <1>4 DEF SchedulerInv

\* The steps of a thread that neither holds nor takes the mutex: the plugin call,
\* the notification and a wakeup.
LEMMA OutsideLockInv ==
    ASSUME SchedulerInv, TypeOK', NEW w \in Workers,
           Execute(w) \/ Notify(w) \/ SpuriousWakeup(w)
    PROVE  SchedulerInv'
<1> USE DEF plan, shared
<1>1. GroupsInv' /\ DependenciesSucceeded'
  BY QuietGroups DEF Execute, Notify, SpuriousWakeup
<1>2. \A v \in Workers : /\ Executing(v)' = Executing(v)
                         /\ pc'[v] = "scan" <=> pc[v] = "scan"
                         /\ pc[v] = "lock" => pc'[v] = "lock"
  BY DEF Execute, Notify, SpuriousWakeup, Goto, Executing, SchedulerInv, TypeOK
<1>3. UNCHANGED <<plan, shared, index, mutex, attempts, cursor>>
  BY DEF Execute, Notify, SpuriousWakeup
<1>4. SystemExclusive' /\ RunningWorkersExact'
  BY <1>2, <1>3, QuietThreads
<1>5. ThreadsInv'
  BY <1>2, <1>3 DEF SchedulerInv, ThreadsInv
<1> QED
  BY <1>1, <1>4, <1>5 DEF SchedulerInv

\* stopLaunching after a completion, in both paths.
LEMMA StopExact ==
    ASSUME SchedulerInv, NEW g \in Groups, NEW bad \in BOOLEAN,
           started[g], ~completed[g], Propagate(g, bad),
           edges' = edges, started' = started, stopOnFirstFailure' = stopOnFirstFailure,
           stopLaunching' <=> (stopLaunching \/ (bad /\ stopOnFirstFailure))
    PROVE  GroupsInv' /\ DependenciesSucceeded'
<1>1. TypeOK /\ GroupsInv /\ DependenciesSucceeded
  BY DEF SchedulerInv
<1>2. /\ \A h \in Groups : completed'[h] => started'[h]
      /\ \A h \in Groups : completed'[h] /\ failed'[h] =>
            \A s \in Successors(h)' : failed'[s]
      /\ DependenciesSucceeded'
      /\ \A h \in Groups : started[h] /\ h # g =>
            completed'[h] = completed[h] /\ failed'[h] = failed[h]
      /\ completed'[g] = TRUE /\ failed'[g] = bad
  BY <1>1, PropagateFlags
<1>3. \A h \in Groups : pendingDependencies'[h] =
             Cardinality({p \in Dependencies(h)' : ~completed'[p]})
  BY <1>1, PropagatePending
<1>4. (\E h \in Groups : completed'[h] /\ failed'[h])
         <=> (bad \/ \E h \in Groups : completed[h] /\ failed[h])
  <2>1. \A h \in Groups : completed[h] => started[h] /\ h # g
    BY <1>1 DEF GroupsInv
  <2> QED
    BY <1>2, <2>1
<1>5. stopLaunching' <=> stopOnFirstFailure'
                           /\ \E h \in Groups : completed'[h] /\ failed'[h]
  BY <1>1, <1>4 DEF GroupsInv, TypeOK
<1>6. edges' \in SUBSET {e \in Groups \X Groups : e[1] < e[2]}
  BY <1>1 DEF GroupsInv
<1> QED
  BY <1>2, <1>3, <1>5, <1>6 DEF GroupsInv

LEMMA CompleteInv ==
    ASSUME SchedulerInv, TypeOK', NEW w \in Workers, Complete(w)
    PROVE  SchedulerInv'
<1> USE DEF plan
<1> DEFINE g == index[w]
<1>1. /\ Executing(w) /\ g \in Groups /\ started[g] /\ ~completed[g]
      /\ verdict[w] \in BOOLEAN /\ parallel
  BY DEF SchedulerInv, TypeOK, ThreadsInv, Complete, Executing
<1>2. /\ Propagate(g, verdict[w])
      /\ busySystems' = busySystems \ {system[g]}
      /\ pc' = [pc EXCEPT ![w] = "notify"]
      /\ UNCHANGED <<plan, started, mutex, index, verdict, attempts, cursor>>
      /\ mutex = NoWorker
  BY DEF Complete, Goto
<1>3. /\ ~Executing(w)'
      /\ \A v \in Workers \ {w} : Executing(v)' = Executing(v)
  BY <1>2 DEF Executing, SchedulerInv, TypeOK
<1> HIDE DEF g
<1>4. GroupsInv' /\ DependenciesSucceeded'
  BY <1>1, <1>2, StopExact DEF Complete, StopAfter
<1>5. \A v \in Workers \ {w} : Executing(v) => system[index[v]] # system[g]
  BY <1>1 DEF SchedulerInv, SystemExclusive, g
<1>6. SystemExclusive'
  <2>1. {v \in Workers : Executing(v)'} = {v \in Workers : Executing(v)} \ {w}
    BY <1>3
  <2>2. busySystems = {system[index[v]] : v \in {u \in Workers : Executing(u)}}
    BY DEF SchedulerInv, SystemExclusive
  <2>3. busySystems' = {system'[index'[v]] : v \in {u \in Workers : Executing(u)'}}
    <3>1. system' = system /\ index' = index /\ system[g] = system[index[w]]
      BY <1>2 DEF g
    <3> QED
      BY <1>1, <1>2, <1>5, <2>1, <2>2, <3>1
  <2>4. \A u, v \in Workers : Executing(u)' /\ Executing(v)' /\ u # v =>
           system'[index'[u]] # system'[index'[v]]
    BY <1>2, <1>3 DEF SchedulerInv, SystemExclusive
  <2> QED
    BY <2>3, <2>4 DEF SystemExclusive
<1>7. RunningWorkersExact'
  <2>1. {v \in Workers : Executing(v)'} = {v \in Workers : Executing(v)} \ {w}
    BY <1>3
  <2>2. w \in {v \in Workers : Executing(v)}
    BY <1>1
  <2>3. Cardinality({v \in Workers : Executing(v)'})
            = Cardinality({v \in Workers : Executing(v)}) - 1
    BY <2>1, <2>2, ExecutingFinite, FS_RemoveElement
  <2>4. Cardinality({v \in Workers : Executing(v)}) \in Nat \ {0}
    BY <2>2, ExecutingFinite, FS_CardinalityType, FS_EmptySet
  <2> QED
    BY <2>3, <2>4 DEF SchedulerInv, RunningWorkersExact, Complete, WorkerDone
<1>8. ThreadsInv'
  <2>1. \A v \in Workers : pc'[v] # "scan" /\ mutex' # v
    BY <1>2, SchedulerAssumption DEF SchedulerInv, ThreadsInv, TypeOK
  <2>2. \A h \in Groups : h # g => completed'[h] = completed[h]
    BY <1>1, <1>2 DEF Propagate, SchedulerInv, TypeOK
  <2>3. \A v \in Workers : Executing(v)' => index[v] # g /\ Executing(v)
    BY <1>3, <1>5
  <2>4. \A v \in Workers : Executing(v)' => /\ index'[v] \in Groups
                                            /\ started'[index'[v]]
                                            /\ ~completed'[index'[v]]
    BY <1>2, <2>2, <2>3 DEF SchedulerInv, ThreadsInv
  <2>5. \A h \in Groups : started'[h] /\ ~completed'[h] =>
           \E v \in Workers : Executing(v)' /\ index'[v] = h
    <3> SUFFICES ASSUME NEW h \in Groups, started'[h], ~completed'[h]
                 PROVE  \E v \in Workers : Executing(v)' /\ index'[v] = h
      OBVIOUS
    <3>1. h # g
      BY <1>1, <1>2 DEF Propagate, SchedulerInv, TypeOK
    <3>2. started[h] /\ ~completed[h]
      BY <1>2, <2>2, <3>1
    <3>3. PICK v \in Workers : Executing(v) /\ index[v] = h
      BY <1>1, <3>2 DEF SchedulerInv, ThreadsInv
    <3>4. v # w
      BY <3>1, <3>3 DEF g
    <3> QED
      BY <1>2, <1>3, <3>3, <3>4
  <2> QED
    BY <1>1, <1>2, <2>1, <2>4, <2>5 DEF ThreadsInv
<1> QED
  BY <1>4, <1>6, <1>7, <1>8 DEF SchedulerInv

-----------------------------------------------------------------------------
(* The sequential path.                                                    *)

LEMMA SequentialInv ==
    ASSUME SchedulerInv, TypeOK', Sequential
    PROVE  SchedulerInv'
<1> USE DEF plan, shared, threads
<1>1. /\ ~parallel /\ cursor \in Groups /\ ~stopLaunching
      /\ UNCHANGED <<plan, threads, busySystems, runningWorkers, readyIndices>>
  BY DEF Sequential, SequentialSkip, SequentialStart, SequentialFinish, InSequence
<1>2. \A w \in Workers : Executing(w)' = Executing(w) /\ ~Executing(w)
                         /\ pc[w] = "lock"
  BY <1>1 DEF Executing, SchedulerInv, ThreadsInv
<1>3. SystemExclusive' /\ RunningWorkersExact'
  BY <1>1, <1>2, QuietThreads
<1>4. \A g \in Groups : /\ started[g] /\ ~completed[g] => g = cursor
                        /\ completed[g] => g < cursor
  BY <1>1 DEF SchedulerInv, ThreadsInv
<1>5. ASSUME \A g \in Groups : /\ started'[g] /\ ~completed'[g] => g = cursor'
                               /\ completed'[g] => g < cursor'
      PROVE  ThreadsInv'
  BY <1>1, <1>2, <1>5 DEF SchedulerInv, ThreadsInv
<1>6. CASE SequentialSkip
  <2>1. GroupsInv' /\ DependenciesSucceeded'
    BY <1>6, QuietGroups DEF SequentialSkip
  <2>2. \A g \in Groups : /\ started'[g] /\ ~completed'[g] => g = cursor'
                          /\ completed'[g] => g < cursor'
    BY <1>1, <1>4, <1>6 DEF SequentialSkip, Groups
  <2> QED
    BY <1>3, <1>5, <2>1, <2>2 DEF SchedulerInv
<1>7. CASE SequentialStart
  <2>1. \A g \in Groups : g # cursor => started'[g] = started[g]
    BY <1>1, <1>7 DEF SequentialStart, SchedulerInv, TypeOK
  <2>2. \A g \in Groups : started[g] => started'[g]
    BY <1>1, <1>7 DEF SequentialStart, SchedulerInv, TypeOK
  <2>3. GroupsInv'
    BY <1>7, <2>2
    DEF SequentialStart, SchedulerInv, GroupsInv, Dependencies, Successors
  <2>4. \A p \in Dependencies(cursor) : completed[p] /\ ~failed[p]
    BY <1>1, <1>7, NotStaleMeansReady DEF SequentialStart
  <2>5. DependenciesSucceeded'
    BY <1>7, <2>1, <2>4
    DEF SequentialStart, SchedulerInv, DependenciesSucceeded, Dependencies
  <2>6. \A g \in Groups : /\ started'[g] /\ ~completed'[g] => g = cursor'
                          /\ completed'[g] => g < cursor'
    BY <1>4, <1>7, <2>1 DEF SequentialStart
  <2> QED
    BY <1>3, <1>5, <2>3, <2>5, <2>6 DEF SchedulerInv
<1>8. CASE SequentialFinish
  <2>1. PICK bad \in BOOLEAN : /\ Propagate(cursor, bad)
                               /\ stopLaunching' = (stopLaunching \/ (bad /\ stopOnFirstFailure))
    BY <1>8 DEF SequentialFinish, StopAfter
  <2>2. started[cursor] /\ started' = started
    BY <1>8 DEF SequentialFinish
  <2>3. ~completed[cursor]
    BY <1>1, <1>4 DEF Groups
  <2>4. GroupsInv' /\ DependenciesSucceeded'
    BY <1>1, <2>1, <2>2, <2>3, StopExact
  <2>5. cursor' = cursor + 1 /\ completed' = [completed EXCEPT ![cursor] = TRUE]
    BY <1>8, <2>1 DEF SequentialFinish, Propagate
  <2>6. \A g \in Groups : /\ started'[g] /\ ~completed'[g] => g = cursor'
                          /\ completed'[g] => g < cursor'
    BY <1>1, <1>4, <2>2, <2>5 DEF SchedulerInv, TypeOK, Groups
  <2> QED
    BY <1>3, <1>5, <2>4, <2>6 DEF SchedulerInv
<1> QED
  BY <1>6, <1>7, <1>8 DEF Sequential

-----------------------------------------------------------------------------
(* The invariant and what follows from it.                                 *)

LEMMA NextInv == SchedulerInv /\ [Next]_vars => SchedulerInv'
<1> SUFFICES ASSUME SchedulerInv, [Next]_vars PROVE SchedulerInv'
  OBVIOUS
<1>1. TypeOK'
  BY NextType DEF SchedulerInv
<1>2. ASSUME NEW w \in Workers, WorkerStep(w) \/ SpuriousWakeup(w)
      PROVE  SchedulerInv'
  BY <1>1, <1>2, EnterInv, SkipInv, TakeInv, SettleInv, OutsideLockInv, CompleteInv
  DEF WorkerStep
<1>3. CASE Sequential
  BY <1>1, <1>3, SequentialInv
<1>4. CASE UNCHANGED vars
  <2>1. GroupsInv' /\ DependenciesSucceeded'
    BY <1>4, QuietGroups DEF vars, shared
  <2>2. \A w \in Workers : Executing(w)' = Executing(w)
    BY <1>4 DEF vars, threads, Executing
  <2>3. SystemExclusive' /\ RunningWorkersExact'
    BY <1>4, <2>2, QuietThreads DEF vars, shared, threads
  <2>4. ThreadsInv'
    BY <1>4, <2>2 DEF vars, plan, shared, threads, SchedulerInv, ThreadsInv
  <2> QED
    BY <1>1, <2>1, <2>3, <2>4 DEF SchedulerInv
<1> QED
  BY <1>2, <1>3, <1>4 DEF Next, Finished

\* The conjunction of facts that every step of every thread preserves, for every
\* plan, every number of threads and every interleaving of run()'s workers.
THEOREM SchedulerInvariant == Spec => []SchedulerInv
<1> QED
  BY InitInv, NextInv, PTL DEF Spec

\* ParallelExecutionState and the threads' variables always have their types; in
\* particular no dependency counter and no runningWorkers drops below zero.
THEOREM TypeCorrect == Spec => []TypeOK
<1>1. SchedulerInv => TypeOK
  BY DEF SchedulerInv
<1> QED
  BY <1>1, SchedulerInvariant, PTL

\* busySystems keeps two threads from ever using one package system together.
THEOREM SystemExclusion == Spec => []SystemExclusive
<1>1. SchedulerInv => SystemExclusive
  BY DEF SchedulerInv
<1> QED
  BY <1>1, SchedulerInvariant, PTL

\* A group that was started depends on successful groups only, in the threaded
\* and in the sequential path.
THEOREM DependencyOrder == Spec => []DependenciesSucceeded
<1>1. SchedulerInv => DependenciesSucceeded
  BY DEF SchedulerInv
<1> QED
  BY <1>1, SchedulerInvariant, PTL

\* runningWorkers is the number of threads that are executing a group, so the
\* exit tests of the worker loop read what they are meant to read.
THEOREM RunningWorkersCorrect == Spec => []RunningWorkersExact
<1>1. SchedulerInv => RunningWorkersExact
  BY DEF SchedulerInv
<1> QED
  BY <1>1, SchedulerInvariant, PTL

-----------------------------------------------------------------------------
(* Refinement: the threads implement the abstract execution of the plan.   *)

LEMMA InitRefines == Init => Execution!Init
<1> SUFFICES ASSUME Init PROVE Execution!Init
  OBVIOUS
<1>1. GroupStatus = [g \in Groups |-> "waiting"]
  BY DEF GroupStatus, Init, InitShared
<1>2. edges \in SUBSET (Groups \X Groups)
  BY InitType DEF TypeOK
<1> QED
  BY <1>1, <1>2 DEF Execution!Init, Init, InitPlan

\* Only these variables decide what the abstract execution sees.
LEMMA StatusUnchanged ==
    ASSUME UNCHANGED <<plan, started, completed, failed>>
    PROVE  UNCHANGED Execution!vars
<1>1. GroupStatus' = GroupStatus
  BY DEF GroupStatus
<1> QED
  BY <1>1 DEF Execution!vars, Execution!plan, plan

\* A group that was not started, is not blocked and waits for nothing may start,
\* if nothing was stopped and nobody uses its system.
LEMMA StartRefines ==
    ASSUME SchedulerInv, NEW c \in Groups, ~Stale(c), ~stopLaunching,
           \A h \in Groups : started[h] /\ ~completed[h] => system[h] # system[c],
           started' = [started EXCEPT ![c] = TRUE],
           UNCHANGED <<plan, completed, failed>>
    PROVE  Execution!Next
<1>1. TypeOK /\ GroupsInv
  BY DEF SchedulerInv
<1>2. GroupStatus[c] = "waiting" /\ ~completed[c]
  BY <1>1 DEF GroupStatus, Stale, GroupsInv
<1>3. ~Execution!Stopped
  BY <1>1 DEF Execution!Stopped, GroupStatus, GroupsInv
<1>4. ASSUME NEW p \in Execution!Dependencies(c)
      PROVE  GroupStatus[p] = "succeeded"
  <2>1. p \in Groups /\ completed[p] /\ ~failed[p]
    BY NotStaleMeansReady DEF Execution!Dependencies, Dependencies
  <2> QED
    BY <1>1, <2>1 DEF GroupStatus, GroupsInv
<1>5. \A h \in Groups : GroupStatus[h] = "running" => system[h] # system[c]
  BY DEF GroupStatus
<1>6. GroupStatus' = [GroupStatus EXCEPT ![c] = "running"]
  BY <1>1, <1>2 DEF GroupStatus, TypeOK
<1>7. Execution!Start(c)
  BY <1>2, <1>3, <1>4, <1>5, <1>6
  DEF Execution!Start, Execution!MayStart, Execution!plan, plan
<1> QED
  BY <1>7 DEF Execution!Next

\* A completion changes the status of its own group only: the successors it marks
\* as failed were not started, so nobody sees the mark.
LEMMA FinishRefines ==
    ASSUME SchedulerInv, NEW g \in Groups, NEW bad \in BOOLEAN,
           started[g], ~completed[g], Propagate(g, bad),
           UNCHANGED <<plan, started>>
    PROVE  Execution!Next
<1>1. TypeOK /\ GroupsInv /\ DependenciesSucceeded
  BY DEF SchedulerInv
<1>2. /\ \A h \in Groups : started[h] /\ h # g =>
            completed'[h] = completed[h] /\ failed'[h] = failed[h]
      /\ completed'[g] = TRUE /\ failed'[g] = bad
  BY <1>1, PropagateFlags DEF plan
<1>3. GroupStatus[g] = "running"
  BY DEF GroupStatus
<1>4. GroupStatus' =
        [GroupStatus EXCEPT ![g] = IF bad THEN "failed" ELSE "succeeded"]
  BY <1>2 DEF GroupStatus
<1>5. Execution!Finish(g)
  BY <1>3, <1>4 DEF Execution!Finish, Execution!plan, plan
<1> QED
  BY <1>5 DEF Execution!Next

LEMMA StepRefines == SchedulerInv /\ [Next]_vars => [Execution!Next]_(Execution!vars)
<1> SUFFICES ASSUME SchedulerInv, [Next]_vars
             PROVE  Execution!Next \/ UNCHANGED Execution!vars
  OBVIOUS
<1> USE DEF shared, threads
<1>1. ASSUME NEW w \in Workers,
             Enter(w) \/ Skip(w) \/ Settle(w) \/ Execute(w) \/ Notify(w)
                 \/ SpuriousWakeup(w)
      PROVE  UNCHANGED Execution!vars
  BY <1>1, StatusUnchanged DEF Enter, Skip, Settle, Execute, Notify, SpuriousWakeup
<1>2. ASSUME NEW w \in Workers, Take(w) PROVE Execution!Next
  <2> DEFINE c == Head(readyIndices)
  <2>1. c \in Groups /\ ~Stale(c) /\ system[c] \notin busySystems
    BY <1>2 DEF Take, Busy, SchedulerInv, TypeOK, ThreadsInv
  <2>2. /\ started' = [started EXCEPT ![c] = TRUE]
        /\ UNCHANGED <<plan, completed, failed>>
    BY <1>2 DEF Take
  <2>3. ~stopLaunching /\ parallel
    BY <1>2 DEF Take, SchedulerInv, ThreadsInv, TypeOK
  <2> HIDE DEF c
  <2>4. ASSUME NEW h \in Groups, started[h], ~completed[h]
        PROVE  system[h] # system[c]
    <3>1. PICK v \in Workers : Executing(v) /\ index[v] = h
      BY <2>3, <2>4 DEF SchedulerInv, ThreadsInv
    <3> QED
      BY <2>1, <3>1 DEF SchedulerInv, SystemExclusive
  <2> QED
    BY <2>1, <2>2, <2>3, <2>4, StartRefines
<1>3. ASSUME NEW w \in Workers, Complete(w) PROVE Execution!Next
  <2>1. /\ index[w] \in Groups /\ started[index[w]] /\ ~completed[index[w]]
        /\ verdict[w] \in BOOLEAN
    BY <1>3 DEF Complete, Executing, SchedulerInv, ThreadsInv, TypeOK
  <2>2. Propagate(index[w], verdict[w]) /\ UNCHANGED <<plan, started>>
    BY <1>3 DEF Complete
  <2> QED
    BY <2>1, <2>2, FinishRefines
<1>4. CASE SequentialSkip
  BY <1>4, StatusUnchanged DEF SequentialSkip
<1>5. CASE SequentialStart
  <2>1. /\ ~parallel /\ cursor \in Groups /\ ~stopLaunching /\ ~Stale(cursor)
        /\ started' = [started EXCEPT ![cursor] = TRUE]
        /\ UNCHANGED <<plan, completed, failed>>
    BY <1>5 DEF SequentialStart, InSequence
  <2>2. ~started[cursor]
    BY <2>1 DEF Stale
  <2>3. \A h \in Groups : ~(started[h] /\ ~completed[h])
    BY <2>1, <2>2 DEF SchedulerInv, ThreadsInv
  <2> QED
    BY <2>1, <2>3, StartRefines
<1>6. CASE SequentialFinish
  <2>1. PICK bad \in BOOLEAN : Propagate(cursor, bad)
    BY <1>6 DEF SequentialFinish
  <2>2. /\ ~parallel /\ cursor \in Groups /\ started[cursor]
        /\ UNCHANGED <<plan, started>>
    BY <1>6 DEF SequentialFinish, InSequence
  <2>3. ~completed[cursor]
    BY <2>2 DEF SchedulerInv, ThreadsInv, Groups
  <2> QED
    BY <2>1, <2>2, <2>3, FinishRefines
<1>7. CASE UNCHANGED vars
  BY <1>7, StatusUnchanged DEF vars
<1> QED
  BY <1>1, <1>2, <1>3, <1>4, <1>5, <1>6, <1>7
  DEF Next, WorkerStep, Sequential, Finished

\* run() implements the abstract execution of its plan: whatever the threads do,
\* the starts and finishes of the groups that callers and plugins observe are
\* those of TaskGroupExecution (the safety half of ImplementsExecution).
THEOREM SchedulerRefinement == Spec => Execution!Spec
<1> QED
  BY InitRefines, StepRefines, SchedulerInvariant, PTL DEF Spec, Execution!Spec

-----------------------------------------------------------------------------
(* No group is abandoned.  The groups behind a failure are the value of a  *)
(* recursive function; what it computes is shown by induction, in the form *)
(* that a nonempty set of natural numbers has a least element.             *)

LEMMA LeastElement ==
    ASSUME NEW T \in SUBSET Nat, T # {}
    PROVE  \E n \in T : \A m \in T : n <= m
<1> DEFINE lt == {ss \in Nat \X Nat : ss[1] < ss[2]}
<1>1. IsWellFoundedOn(lt, Nat)
  BY NatLessThanWellFounded DEF OpToRel
<1>2. \A x, y \in T : <<y, x>> \in lt <=> y < x
  OBVIOUS
<1> HIDE DEF lt
<1>3. PICK x \in T : \A y \in T : ~(<<y, x>> \in lt)
  BY <1>1, WFMin
<1>4. \A y \in T : ~(y < x)
  BY <1>2, <1>3
<1>5. \A y \in T : x <= y
  BY <1>4
<1> QED
  BY <1>5

\* One step of the recursion of FailedWithin.
FailedStep(f, n) ==
    IF n = 0 THEN {g \in Groups : completed[g] /\ failed[g]}
    ELSE f[n - 1] \cup UNION {Successors(g) : g \in f[n - 1]}

\* The recursion has a solution up to every bound: the least bound without one
\* would get one by extending the solution for the bound before it.
LEMMA FailedWithinExists ==
    \A b \in Nat : \E f : f = [n \in 0 .. b |-> FailedStep(f, n)]
<1> DEFINE Solved(b) == \E f : f = [n \in 0 .. b |-> FailedStep(f, n)]
           T == {b \in Nat : ~Solved(b)}
<1> SUFFICES ASSUME T # {} PROVE FALSE
  OBVIOUS
<1>1. PICK b \in T : \A m \in T : b <= m
  BY LeastElement
<1>2. Solved(0)
  <2> DEFINE f == [n \in 0 .. 0 |-> {g \in Groups : completed[g] /\ failed[g]}]
  <2>1. f = [n \in 0 .. 0 |-> FailedStep(f, n)]
    BY DEF FailedStep
  <2> QED
    BY <2>1
<1>3. b # 0 /\ b - 1 \in Nat /\ Solved(b - 1)
  <2> HIDE DEF Solved
  <2>1. b \in Nat /\ ~Solved(b)
    BY <1>1
  <2>2. b # 0
    BY <1>2, <2>1
  <2>3. b - 1 \in Nat /\ ~(b <= b - 1)
    BY <2>1, <2>2
  <2> QED
    BY <1>1, <2>2, <2>3
<1>4. PICK f : f = [n \in 0 .. b - 1 |-> FailedStep(f, n)]
  BY <1>3
<1> DEFINE h == [n \in 0 .. b |-> IF n = b THEN FailedStep(f, b) ELSE f[n]]
<1>5. ASSUME NEW n \in 0 .. b PROVE h[n] = FailedStep(h, n)
  <2>1. FailedStep(h, n) = FailedStep(f, n)
    <3>1. CASE n = 0
      BY <3>1 DEF FailedStep
    <3>2. CASE n # 0
      <4>1. n - 1 \in 0 .. b /\ n - 1 # b
        BY <1>3, <3>2
      <4>2. h[n - 1] = f[n - 1]
        BY <4>1
      <4> HIDE DEF h
      <4> QED
        BY <4>2 DEF FailedStep
    <3> QED
      BY <3>1, <3>2
  <2>2. h[n] = FailedStep(f, n)
    <3>1. CASE n = b
      BY <3>1
    <3>2. CASE n # b
      <4>1. n \in 0 .. b - 1
        BY <1>3, <3>2
      <4> QED
        BY <1>4, <3>2, <4>1
    <3> QED
      BY <3>1, <3>2
  <2> QED
    BY <2>1, <2>2
<1>6. h = [n \in 0 .. b |-> FailedStep(h, n)]
  BY <1>5
<1>7. Solved(b)
  BY <1>6
<1> QED
  BY <1>1, <1>7

LEMMA FailedWithinEquation ==
    \A n \in 0 .. GroupCount : FailedWithin[n] = FailedStep(FailedWithin, n)
<1>1. \E f : f = [n \in 0 .. GroupCount |-> FailedStep(f, n)]
  BY FailedWithinExists, SchedulerAssumption
<1>2. FailedWithin = CHOOSE f : f = [n \in 0 .. GroupCount |-> FailedStep(f, n)]
  BY DEF FailedWithin, FailedStep
<1>3. FailedWithin = [n \in 0 .. GroupCount |-> FailedStep(FailedWithin, n)]
  BY <1>1, <1>2
<1> QED
  BY <1>3

\* The same, element by element.
LEMMA FailedWithinMember ==
    ASSUME NEW n \in 0 .. GroupCount, n # 0, NEW g
    PROVE  g \in FailedWithin[n] <=>
              \/ g \in FailedWithin[n - 1]
              \/ \E p \in FailedWithin[n - 1] : g \in Successors(p)
<1> DEFINE before == FailedWithin[n - 1]
<1>1. FailedWithin[n] = before \cup UNION {Successors(p) : p \in before}
  BY FailedWithinEquation DEF FailedStep
<1> HIDE DEF before
<1>2. g \in FailedWithin[n] <=> g \in before \/ \E p \in before : g \in Successors(p)
  BY <1>1, Zenon
<1> QED
  BY <1>2 DEF before

LEMMA FailedWithinGrows ==
    \A n, m \in 0 .. GroupCount : n <= m => FailedWithin[n] \subseteq FailedWithin[m]
<1> SUFFICES ASSUME NEW n \in 0 .. GroupCount
             PROVE  \A m \in 0 .. GroupCount :
                       n <= m => FailedWithin[n] \subseteq FailedWithin[m]
  OBVIOUS
<1> DEFINE T == {m \in 0 .. GroupCount :
                    n <= m /\ ~(FailedWithin[n] \subseteq FailedWithin[m])}
<1> SUFFICES ASSUME T # {} PROVE FALSE
  OBVIOUS
<1>1. T \in SUBSET Nat
  OBVIOUS
<1>2. PICK m \in T : \A k \in T : m <= k
  BY <1>1, LeastElement
<1>3. m \in 0 .. GroupCount /\ n < m /\ m - 1 \in 0 .. GroupCount /\ n <= m - 1 /\ m # 0
  BY <1>2, SchedulerAssumption
<1>4. m - 1 \notin T
  BY <1>2, <1>3
<1>5. FailedWithin[n] \subseteq FailedWithin[m - 1]
  BY <1>3, <1>4
<1>6. FailedWithin[m - 1] \subseteq FailedWithin[m]
  BY <1>3, FailedWithinEquation DEF FailedStep
<1> QED
  BY <1>2, <1>5, <1>6

\* Edges go upwards, so a group is at most as many edges away from a failure as its
\* number says: the recursion has come to its end when it stops.
LEMMA FailedWithinRank ==
    ASSUME GroupsInv
    PROVE  \A g \in Groups : \A n \in 0 .. GroupCount :
              g \in FailedWithin[n] => g \in FailedWithin[g]
<1> DEFINE T == {g \in Groups : \E n \in 0 .. GroupCount :
                    g \in FailedWithin[n] /\ g \notin FailedWithin[g]}
<1> SUFFICES ASSUME T # {} PROVE FALSE
  OBVIOUS
<1>1. T \in SUBSET Nat
  BY SchedulerAssumption DEF Groups
<1>2. PICK g \in T : \A k \in T : g <= k
  BY <1>1, LeastElement
<1>3. g \in Groups /\ g \in 0 .. GroupCount /\ g \notin FailedWithin[g]
  BY <1>2, SchedulerAssumption DEF Groups
<1> DEFINE U == {n \in 0 .. GroupCount : g \in FailedWithin[n]}
<1>4. U \in SUBSET Nat /\ U # {}
  BY <1>2
<1>5. PICK n \in U : \A k \in U : n <= k
  BY <1>4, LeastElement
<1>6. n # 0
  <2>1. 0 \in 0 .. GroupCount /\ 0 <= g
    BY <1>3, SchedulerAssumption
  <2>2. FailedWithin[0] \subseteq FailedWithin[g]
    BY <1>3, <2>1, FailedWithinGrows
  <2> QED
    BY <1>3, <1>5, <2>2
<1>7. n \in 0 .. GroupCount /\ n - 1 \in 0 .. GroupCount /\ ~(n <= n - 1)
      /\ g \in FailedWithin[n]
  BY <1>5, <1>6, SchedulerAssumption
<1>8. g \notin FailedWithin[n - 1]
  BY <1>5, <1>7
<1>9. PICK p \in FailedWithin[n - 1] : g \in Successors(p)
  BY <1>6, <1>7, <1>8, FailedWithinMember
<1>10. p \in Groups /\ p < g /\ p + 1 \in 0 .. GroupCount /\ p \in 0 .. GroupCount
       /\ p + 1 <= g /\ p + 1 # 0 /\ (p + 1) - 1 = p /\ ~(g <= p)
  BY <1>3, <1>9, SchedulerAssumption DEF GroupsInv, Successors, Groups
<1>11. p \in FailedWithin[p]
  <2>1. p \notin T
    BY <1>2, <1>10
  <2> QED
    BY <1>7, <1>9, <1>10, <2>1
<1>12. g \in FailedWithin[p + 1]
  <2>1. p \in FailedWithin[(p + 1) - 1]
    BY <1>10, <1>11
  <2> QED
    BY <1>9, <1>10, <2>1, FailedWithinMember
<1>13. FailedWithin[p + 1] \subseteq FailedWithin[g]
  BY <1>3, <1>10, FailedWithinGrows
<1> QED
  BY <1>3, <1>12, <1>13

\* The set of groups behind a failure is closed under the edges of the plan.
LEMMA FailedUpstreamClosed ==
    ASSUME GroupsInv, NEW p \in Groups, NEW g \in Successors(p)
    PROVE  /\ completed[p] /\ failed[p] => p \in FailedUpstream
           /\ p \in FailedUpstream => g \in FailedUpstream
<1>1. GroupCount \in 0 .. GroupCount /\ 0 \in 0 .. GroupCount /\ 0 <= GroupCount
  BY SchedulerAssumption
<1>2. ASSUME completed[p] /\ failed[p] PROVE p \in FailedUpstream
  <2>1. p \in FailedWithin[0]
    BY <1>1, <1>2, FailedWithinEquation DEF FailedStep
  <2> QED
    BY <1>1, <2>1, FailedWithinGrows DEF FailedUpstream
<1>3. ASSUME p \in FailedUpstream PROVE g \in FailedUpstream
  <2>1. p \in FailedWithin[p]
    BY <1>1, <1>3, FailedWithinRank DEF FailedUpstream
  <2>2. p \in 0 .. GroupCount /\ p + 1 \in 0 .. GroupCount
        /\ p + 1 # 0 /\ (p + 1) - 1 = p /\ p + 1 <= GroupCount
    BY SchedulerAssumption DEF GroupsInv, Successors, Groups
  <2>3. g \in FailedWithin[p + 1]
    <3>1. p \in FailedWithin[(p + 1) - 1]
      BY <2>1, <2>2
    <3> QED
      BY <2>2, <3>1, FailedWithinMember
  <2> QED
    BY <1>1, <2>2, <2>3, FailedWithinGrows DEF FailedUpstream
<1> QED
  BY <1>2, <1>3

\* The order in which groups are pushed leaves none of them out.
LEMMA OrderingsCover ==
    ASSUME NEW S \in SUBSET Groups, NEW s \in Orderings(S), NEW g \in S
    PROVE  \E i \in 1 .. Len(s) : s[i] = g
<1>1. IsFiniteSet(S) /\ Cardinality(S) \in Nat
  BY GroupsFinite, FS_CardinalityType
<1> DEFINE n == Cardinality(S)
<1>2. IsFiniteSet(1 .. n) /\ Cardinality(1 .. n) = n
  BY <1>1, FS_Interval
<1>3. s \in Injection(1 .. n, S)
  BY DEF Orderings, Injection, IsInjective
<1>4. s \in Surjection(1 .. n, S)
  BY <1>1, <1>2, <1>3, FS_Injection
<1>5. \E i \in 1 .. n : s[i] = g
  BY <1>4 DEF Surjection
<1>6. Len(s) = n
  BY <1>1 DEF Orderings
<1> QED
  BY <1>5, <1>6

LEMMA InitQueue == Init => QueueInv
<1> SUFFICES ASSUME Init PROVE QueueInv
  OBVIOUS
<1>1. parallel => Workers # {}
  BY FS_EmptySet DEF Init, InitPlan
<1>2. ASSUME NEW g \in Groups, ~Stale(g)
      PROVE  \E i \in 1 .. Len(readyIndices) : readyIndices[i] = g
  <2> DEFINE S == {h \in Groups : pendingDependencies[h] = 0}
  <2>1. readyIndices \in Orderings(S) /\ g \in S
    BY <1>2 DEF Init, InitShared, Ascending, Stale
  <2> HIDE DEF S
  <2>2. S \in SUBSET Groups
    BY DEF S
  <2> QED
    BY <2>1, <2>2, OrderingsCover
<1>3. /\ \A g \in Groups : ~failed[g] /\ ~(g < 1)
      /\ \A w \in Workers : pc[w] = "lock"
      /\ cursor = 1
  BY DEF Init, InitShared, Groups
<1> QED
  BY <1>1, <1>2, <1>3 DEF QueueInv

\* A step of a thread that leaves the groups, the queue and the counters alone and
\* neither begins a scan nor ends the thread.
LEMMA QuietQueue ==
    ASSUME QueueInv,
           UNCHANGED <<plan, readyIndices, pendingDependencies, started, completed,
                       failed, stopLaunching, runningWorkers, attempts, cursor>>,
           \A v \in Workers : /\ pc'[v] = "scan" => pc[v] = "scan"
                              /\ pc'[v] = "done" => pc[v] = "done"
    PROVE  QueueInv'
<1> USE DEF plan
<1>1. \A g \in Groups : Stale(g)' = Stale(g) /\ Dependencies(g)' = Dependencies(g)
  BY DEF Stale, Dependencies
<1> QED
  BY <1>1 DEF QueueInv

LEMMA EnterQueue ==
    ASSUME SchedulerInv, QueueInv, NEW w \in Workers, Enter(w)
    PROVE  QueueInv'
<1> USE DEF plan, shared
<1>1. \A g \in Groups : Stale(g)' = Stale(g) /\ Dependencies(g)' = Dependencies(g)
  BY DEF Stale, Dependencies, Enter
<1>2. pc \in [Workers -> {"lock", "scan", "execute", "complete", "notify", "wait", "done"}]
  BY DEF SchedulerInv, TypeOK
<1>3. \A v \in Workers : pc[v] # "scan"
  BY SchedulerAssumption DEF SchedulerInv, ThreadsInv, Enter
<1>4. \A v \in Workers :
        /\ pc'[v] = "scan" /\ runningWorkers' = 0 => attempts' = Len(readyIndices')
        /\ pc'[v] = "done" =>
              stopLaunching' \/ (readyIndices' = <<>> /\ runningWorkers' = 0)
  BY <1>2, <1>3 DEF QueueInv, Enter, Goto
<1> QED
  BY <1>1, <1>4 DEF QueueInv, Enter

\* Nobody has left while a thread scans: a scan begins with work or with a running
\* thread, and the first thread that leaves for lack of work sees neither.
LEMMA SkipQueue ==
    ASSUME SchedulerInv, QueueInv, NEW w \in Workers, Skip(w)
    PROVE  QueueInv'
<1> USE DEF plan
<1> DEFINE c == Head(readyIndices)
<1>1. /\ readyIndices \in Seq(Groups) /\ readyIndices # <<>>
      /\ attempts \in Nat /\ attempts > 0 /\ attempts' = attempts - 1
      /\ attempts <= Len(readyIndices)
  BY DEF SchedulerInv, TypeOK, ThreadsInv, Skip
<1>2. \A g \in Groups : Stale(g)' = Stale(g) /\ Dependencies(g)' = Dependencies(g)
  BY DEF Stale, Dependencies, Skip
<1>3. c \in Groups /\ readyIndices' = Requeue(c) /\ (Stale(c) \/ Busy(c))
  BY <1>1 DEF Skip
<1>4. ASSUME parallel, NEW g \in Groups, ~Stale(g)
      PROVE  \E i \in 1 .. Len(readyIndices') : readyIndices'[i] = g
  <2>1. PICK i \in 1 .. Len(readyIndices) : readyIndices[i] = g
    BY <1>4 DEF QueueInv
  <2>2. CASE i = 1
    <3>1. c = g /\ readyIndices' = Append(Tail(readyIndices), c)
      BY <1>1, <1>3, <1>4, <2>1, <2>2 DEF Requeue
    <3> HIDE DEF c
    <3>2. readyIndices'[Len(readyIndices)] = g /\ Len(readyIndices') = Len(readyIndices)
      BY <1>1, <1>3, <3>1
    <3> QED
      BY <1>1, <3>2
  <2>3. CASE i # 1
    <3>1. i - 1 \in 1 .. Len(Tail(readyIndices)) /\ Tail(readyIndices)[i - 1] = g
      BY <1>1, <2>1, <2>3
    <3>2. CASE readyIndices' = Tail(readyIndices)
      BY <3>1, <3>2
    <3>3. CASE readyIndices' = Append(Tail(readyIndices), c)
      <4> HIDE DEF c
      <4>1. Tail(readyIndices) \in Seq(Groups)
        BY <1>1
      <4>2. /\ i - 1 \in 1 .. Len(readyIndices')
            /\ readyIndices'[i - 1] = Tail(readyIndices)[i - 1]
        BY <1>3, <3>1, <3>3, <4>1
      <4> QED
        BY <3>1, <4>2
    <3> QED
      BY <1>3, <3>2, <3>3 DEF Requeue
  <2> QED
    BY <2>2, <2>3
<1>5. ASSUME NEW v \in Workers, pc'[v] = "scan", runningWorkers' = 0
      PROVE  attempts' = Len(readyIndices')
  <2>1. pc[v] = "scan" /\ runningWorkers = 0 /\ attempts = Len(readyIndices)
    BY <1>5 DEF QueueInv, Skip
  <2>2. {u \in Workers : Executing(u)} = {}
    BY <2>1, ExecutingFinite, FS_EmptySet DEF SchedulerInv, RunningWorkersExact
  <2>3. busySystems = {}
    BY <2>2 DEF SchedulerInv, SystemExclusive
  <2>4. readyIndices' = Tail(readyIndices)
    BY <1>3, <2>3 DEF Busy, Requeue
  <2> QED
    BY <1>1, <2>1, <2>4
<1>6. ASSUME NEW v \in Workers, pc'[v] = "done"
      PROVE  stopLaunching' \/ (readyIndices' = <<>> /\ runningWorkers' = 0)
  BY <1>1, <1>6 DEF QueueInv, Skip
<1> QED
  BY <1>2, <1>4, <1>5, <1>6 DEF QueueInv, Skip

LEMMA TakeQueue ==
    ASSUME SchedulerInv, QueueInv, NEW w \in Workers, Take(w)
    PROVE  QueueInv'
<1> USE DEF plan
<1> DEFINE c == Head(readyIndices)
<1>1. /\ readyIndices \in Seq(Groups) /\ readyIndices # <<>>
      /\ readyIndices' = Tail(readyIndices)
      /\ runningWorkers \in Nat /\ runningWorkers' = runningWorkers + 1
      /\ ~stopLaunching
  BY DEF SchedulerInv, TypeOK, ThreadsInv, Take
<1>2. /\ c \in Groups /\ started' = [started EXCEPT ![c] = TRUE]
      /\ started \in [Groups -> BOOLEAN]
      /\ pc' = [pc EXCEPT ![w] = "execute"]
      /\ pc \in [Workers -> {"lock", "scan", "execute", "complete", "notify", "wait", "done"}]
  BY <1>1 DEF Take, Goto, SchedulerInv, TypeOK
<1>3. parallel
  BY DEF Take, SchedulerInv, ThreadsInv, TypeOK
<1>4. ASSUME NEW g \in Groups, ~Stale(g)'
      PROVE  \E i \in 1 .. Len(readyIndices') : readyIndices'[i] = g
  <2>1. g # c /\ ~Stale(g)
    BY <1>2, <1>4 DEF Stale, Take
  <2>2. PICK i \in 1 .. Len(readyIndices) : readyIndices[i] = g
    BY <1>3, <2>1 DEF QueueInv
  <2>3. i # 1
    BY <1>1, <2>1, <2>2
  <2>4. i - 1 \in 1 .. Len(Tail(readyIndices)) /\ Tail(readyIndices)[i - 1] = g
    BY <1>1, <2>2, <2>3
  <2> QED
    BY <1>1, <2>4
<1>5. \A v \in Workers : pc'[v] # "done" /\ (pc'[v] = "scan" => runningWorkers' # 0)
  BY <1>1, <1>2 DEF QueueInv
<1>6. \A g \in Groups : Dependencies(g)' = Dependencies(g)
  BY DEF Dependencies, Take
<1> HIDE DEF c
<1> QED
  BY <1>3, <1>4, <1>5, <1>6 DEF QueueInv, Take

LEMMA SettleQueue ==
    ASSUME SchedulerInv, QueueInv, NEW w \in Workers, Settle(w)
    PROVE  QueueInv'
<1> USE DEF plan, shared
<1>1. \A g \in Groups : Stale(g)' = Stale(g) /\ Dependencies(g)' = Dependencies(g)
  BY DEF Stale, Dependencies, Settle
<1>2. /\ pc \in [Workers -> {"lock", "scan", "execute", "complete", "notify", "wait", "done"}]
      /\ readyIndices \in Seq(Groups)
  BY DEF SchedulerInv, TypeOK
<1>3. runningWorkers = 0 => readyIndices = <<>>
  BY <1>2 DEF QueueInv, Settle
<1>4. \A v \in Workers :
        /\ pc'[v] = "scan" /\ runningWorkers' = 0 => attempts' = Len(readyIndices')
        /\ pc'[v] = "done" =>
              stopLaunching' \/ (readyIndices' = <<>> /\ runningWorkers' = 0)
  BY <1>2, <1>3 DEF QueueInv, Settle, Goto
<1> QED
  BY <1>1, <1>4 DEF QueueInv, Settle

\* What a completion does to a group that is not the completed one, nor one of its
\* successors; and where a new mark comes from.
LEMMA PropagateQueue ==
    ASSUME SchedulerInv, NEW g \in Groups, NEW bad \in BOOLEAN,
           started[g], ~completed[g], Propagate(g, bad),
           UNCHANGED <<plan, started>>
    PROVE  /\ \A h \in Groups : ~Stale(h)' =>
                 ~Stale(h) \/ (h \in Successors(g) /\ ~completed'[h])
           /\ \A h \in Groups : completed[h] => completed'[h]
           /\ (\A h \in Groups : failed[h] /\ ~completed[h] =>
                 \E p \in Dependencies(h) : completed[p] /\ failed[p])
              => \A h \in Groups : failed'[h] /\ ~completed'[h] =>
                    \E p \in Dependencies(h)' : completed'[p] /\ failed'[p]
<1> USE DEF plan
<1>1. TypeOK /\ GroupsInv /\ DependenciesSucceeded
  BY DEF SchedulerInv
<1>2. /\ \A h \in Groups : started[h] /\ h # g =>
            completed'[h] = completed[h] /\ failed'[h] = failed[h]
      /\ completed'[g] = TRUE /\ failed'[g] = bad
  BY <1>1, PropagateFlags
<1>3. \A h \in Groups : ~Stale(h)' =>
         ~Stale(h) \/ (h \in Successors(g) /\ ~completed'[h])
  BY <1>1 DEF TypeOK, GroupsInv, Propagate, Stale
<1>4. \A h \in Groups : completed[h] => completed'[h]
  BY <1>1 DEF TypeOK, Propagate
<1>5. ASSUME \A h \in Groups : failed[h] /\ ~completed[h] =>
                \E p \in Dependencies(h) : completed[p] /\ failed[p],
             NEW h \in Groups, failed'[h], ~completed'[h]
      PROVE  \E p \in Dependencies(h)' : completed'[p] /\ failed'[p]
  <2>1. h # g /\ ~completed[h] /\ Dependencies(h)' = Dependencies(h)
    BY <1>2, <1>4, <1>5 DEF Dependencies
  <2>2. CASE failed[h]
    <3>1. PICK p \in Dependencies(h) : completed[p] /\ failed[p]
      BY <1>5, <2>1, <2>2
    <3>2. p \in Groups /\ started[p] /\ p # g
      BY <1>1, <3>1 DEF GroupsInv, Dependencies
    <3> QED
      BY <1>2, <2>1, <3>1, <3>2
  <2>3. CASE ~failed[h]
    <3>1. bad /\ h \in Successors(g)
      BY <1>5, <2>1, <2>3 DEF Propagate
    <3> QED
      BY <1>2, <2>1, <3>1 DEF Successors, Dependencies
  <2> QED
    BY <2>2, <2>3
<1> QED
  BY <1>3, <1>4, <1>5

LEMMA CompleteQueue ==
    ASSUME SchedulerInv, QueueInv, NEW w \in Workers, Complete(w)
    PROVE  QueueInv'
<1> USE DEF plan
<1> DEFINE g == index[w]
<1>1. /\ g \in Groups /\ started[g] /\ ~completed[g] /\ verdict[w] \in BOOLEAN
      /\ parallel /\ Executing(w)
  BY DEF Complete, Executing, SchedulerInv, ThreadsInv, TypeOK
<1>2. /\ Propagate(g, verdict[w]) /\ UNCHANGED <<plan, started, cursor>>
      /\ StopAfter(verdict[w]) /\ pc' = [pc EXCEPT ![w] = "notify"]
      /\ mutex = NoWorker
  BY DEF Complete, Goto
<1>3. PICK released \in Orderings(Released(g)) :
         readyIndices' = readyIndices \o released
  BY DEF Complete
<1> HIDE DEF g
<1>4. /\ readyIndices \in Seq(Groups) /\ released \in Seq(Groups)
      /\ Released(g) \in SUBSET Groups
  BY <1>3, OrderingsAreSequences DEF SchedulerInv, TypeOK, Released, Successors
<1>5. ASSUME NEW h \in Groups, ~Stale(h)'
      PROVE  \E i \in 1 .. Len(readyIndices') : readyIndices'[i] = h
  <2>1. CASE ~Stale(h)
    <3>1. PICK i \in 1 .. Len(readyIndices) : readyIndices[i] = h
      BY <1>1, <2>1 DEF QueueInv
    <3>2. i \in 1 .. Len(readyIndices') /\ readyIndices'[i] = h
      BY <1>3, <1>4, <3>1
    <3> QED
      BY <3>2
  <2>2. CASE h \in Successors(g) /\ ~completed'[h]
    <3>1. h \in Released(g)
      BY <1>2, <1>5, <2>2 DEF Released, Stale
    <3>2. PICK i \in 1 .. Len(released) : released[i] = h
      BY <1>3, <1>4, <3>1, OrderingsCover
    <3>3. /\ Len(readyIndices) + i \in 1 .. Len(readyIndices')
          /\ readyIndices'[Len(readyIndices) + i] = h
      BY <1>3, <1>4, <3>2
    <3> QED
      BY <3>3
  <2> QED
    BY <1>1, <1>2, <1>5, <2>1, <2>2, PropagateQueue
<1>6. \A h \in Groups : failed'[h] /\ ~completed'[h] =>
         \E p \in Dependencies(h)' : completed'[p] /\ failed'[p]
  BY <1>1, <1>2, PropagateQueue DEF QueueInv
<1>7. runningWorkers # 0
  <2>1. w \in {v \in Workers : Executing(v)}
    BY <1>1
  <2> QED
    BY <2>1, ExecutingFinite, FS_EmptySet DEF SchedulerInv, RunningWorkersExact
<1>8. pc \in [Workers -> {"lock", "scan", "execute", "complete", "notify", "wait", "done"}]
  BY DEF SchedulerInv, TypeOK
<1>9. \A v \in Workers : pc'[v] # "scan" /\ (pc'[v] = "done" => stopLaunching')
  BY <1>2, <1>7, <1>8, SchedulerAssumption, ZenonT(60)
  DEF QueueInv, SchedulerInv, ThreadsInv, StopAfter
<1> QED
  BY <1>1, <1>2, <1>5, <1>6, <1>9 DEF QueueInv

LEMMA SequentialQueue ==
    ASSUME SchedulerInv, QueueInv, Sequential
    PROVE  QueueInv'
<1> USE DEF plan, shared, threads
<1>1. /\ ~parallel /\ cursor \in Groups /\ ~parallel'
      /\ \A v \in Workers : pc'[v] = "lock"
      /\ cursor' \in {cursor, cursor + 1}
  BY DEF Sequential, SequentialSkip, SequentialStart, SequentialFinish, InSequence,
         SchedulerInv, ThreadsInv
<1>2. \A h \in Groups : Dependencies(h)' = Dependencies(h)
  BY DEF Sequential, SequentialSkip, SequentialStart, SequentialFinish, Dependencies
<1>3. cursor' > 0
  BY <1>1 DEF Groups
<1>4. CASE SequentialSkip
  <2>1. \A h \in Groups : h < cursor' =>
           completed'[h] \/ failed'[h] \/ pendingDependencies'[h] # 0
    BY <1>1, <1>4 DEF SequentialSkip, QueueInv, Groups
  <2> QED
    BY <1>1, <1>2, <1>3, <1>4, <2>1 DEF QueueInv, SequentialSkip
<1>5. CASE SequentialStart
  BY <1>1, <1>2, <1>3, <1>5 DEF QueueInv, SequentialStart
<1>6. CASE SequentialFinish
  <2>1. PICK bad \in BOOLEAN : Propagate(cursor, bad)
    BY <1>6 DEF SequentialFinish
  <2>2. started[cursor] /\ ~completed[cursor] /\ started' = started /\ UNCHANGED plan
    BY <1>1, <1>6 DEF SequentialFinish, SchedulerInv, ThreadsInv, Groups
  <2>3. \A h \in Groups : failed'[h] /\ ~completed'[h] =>
           \E p \in Dependencies(h)' : completed'[p] /\ failed'[p]
    BY <1>1, <2>1, <2>2, PropagateQueue DEF QueueInv
  <2>4. ASSUME NEW h \in Groups, h < cursor'
        PROVE  completed'[h] \/ failed'[h] \/ pendingDependencies'[h] # 0
    <3>1. CASE h = cursor
      BY <2>1, <3>1 DEF Propagate, SchedulerInv, TypeOK
    <3>2. CASE h < cursor
      <4>1. h \notin Successors(cursor) /\ h # cursor
        BY <1>1, <3>2 DEF SchedulerInv, GroupsInv, Successors, Groups
      <4>2. /\ completed'[h] = completed[h] /\ failed'[h] = failed[h]
            /\ pendingDependencies'[h] = pendingDependencies[h]
        BY <2>1, <4>1 DEF Propagate, SchedulerInv, TypeOK
      <4> QED
        BY <1>1, <3>2, <4>2 DEF QueueInv
    <3> QED
      BY <1>1, <1>6, <2>4, <3>1, <3>2 DEF SequentialFinish, Groups
  <2> QED
    BY <1>1, <1>2, <1>3, <2>3, <2>4 DEF QueueInv
<1> QED
  BY <1>4, <1>5, <1>6 DEF Sequential

LEMMA NextQueue == SchedulerInv /\ QueueInv /\ [Next]_vars => QueueInv'
<1> SUFFICES ASSUME SchedulerInv, QueueInv, [Next]_vars PROVE QueueInv'
  OBVIOUS
<1> USE DEF shared
<1>1. pc \in [Workers -> {"lock", "scan", "execute", "complete", "notify", "wait", "done"}]
  BY DEF SchedulerInv, TypeOK
<1>2. ASSUME NEW w \in Workers, Execute(w) \/ Notify(w) \/ SpuriousWakeup(w)
      PROVE  QueueInv'
  <2>1. \A v \in Workers : /\ pc'[v] = "scan" => pc[v] = "scan"
                           /\ pc'[v] = "done" => pc[v] = "done"
    BY <1>1, <1>2 DEF Execute, Notify, SpuriousWakeup, Goto
  <2> QED
    BY <1>2, <2>1, QuietQueue DEF Execute, Notify, SpuriousWakeup
<1>3. CASE UNCHANGED vars
  BY <1>3, QuietQueue DEF vars, threads
<1> QED
  BY <1>2, <1>3, EnterQueue, SkipQueue, TakeQueue, SettleQueue, CompleteQueue,
     SequentialQueue
  DEF Next, WorkerStep, Finished

\* A group without records that no failure has blocked is not left behind: the
\* least one would have every dependency executed without failure, so it would
\* be in the queue of the threads, or in front of the loop that has ended.
LEMMA NothingLeft ==
    ASSUME SchedulerInv, QueueInv, Returned, ~stopLaunching
    PROVE  \A g \in Groups : completed[g] \/ g \in FailedUpstream
<1> DEFINE T == {g \in Groups : ~completed[g] /\ g \notin FailedUpstream}
<1> SUFFICES ASSUME T # {} PROVE FALSE
  OBVIOUS
<1>1. T \in SUBSET Nat
  BY DEF Groups
<1>2. PICK g \in T : \A h \in T : g <= h
  BY <1>1, LeastElement
<1>3. g \in Groups /\ ~completed[g] /\ g \notin FailedUpstream
  BY <1>2
<1>4. TypeOK /\ GroupsInv /\ ThreadsInv
  BY DEF SchedulerInv
<1>5. ASSUME NEW p \in Dependencies(g)
      PROVE  completed[p] /\ ~failed[p]
  <2>1. p \in Groups /\ g \in Successors(p) /\ ~(g <= p)
    BY <1>3, <1>4 DEF GroupsInv, Dependencies, Successors, Groups
  <2>2. p \notin T
    BY <1>2, <2>1
  <2>3. p \notin FailedUpstream
    BY <1>3, <1>4, <2>1, FailedUpstreamClosed
  <2> QED
    BY <1>4, <2>1, <2>2, <2>3, FailedUpstreamClosed
<1>6. pendingDependencies[g] = 0
  <2>1. {p \in Dependencies(g) : ~completed[p]} = {}
    BY <1>5
  <2> QED
    BY <1>3, <1>4, <2>1, FS_EmptySet DEF GroupsInv
<1>7. ~failed[g]
  BY <1>3, <1>5 DEF QueueInv
<1>8. CASE parallel
  <2>1. PICK w \in Workers : pc[w] = "done"
    BY <1>8 DEF QueueInv, Returned
  <2>2. readyIndices = <<>>
    BY <2>1 DEF QueueInv
  <2>3. started[g]
    BY <1>3, <1>6, <1>7, <1>8, <2>2 DEF QueueInv, Stale
  <2> QED
    BY <1>3, <1>4, <1>8, <2>3 DEF ThreadsInv, Executing, Returned
<1>9. CASE ~parallel
  <2>1. cursor \in Nat /\ cursor > 0 /\ cursor \notin Groups
    BY <1>4, <1>9 DEF TypeOK, QueueInv, Returned, InSequence
  <2>2. g < cursor
    BY <1>3, <2>1, SchedulerAssumption DEF Groups
  <2> QED
    BY <1>3, <1>6, <1>7, <1>9, <2>2 DEF QueueInv
<1> QED
  BY <1>8, <1>9

LEMMA QueueInvariant == Spec => []QueueInv
<1> QED
  BY InitQueue, NextQueue, SchedulerInvariant, PTL DEF Spec

\* When run() returns without having been stopped, every group has been executed
\* or lies behind one that failed: no thread leaves while work is left, whatever
\* the order in which groups are taken, put back, completed and released.
THEOREM NothingAbandoned == Spec => []NoGroupAbandoned
<1>1. SchedulerInv /\ QueueInv => NoGroupAbandoned
  BY NothingLeft DEF NoGroupAbandoned
<1> QED
  BY <1>1, SchedulerInvariant, QueueInvariant, PTL
-----------------------------------------------------------------------------
(* The pool of updateSystems: SystemUpdate, for every number of requests   *)
(* and of threads and every interleaving, the race for the word of results *)
(* included.  UpdateInv is an inductive invariant, no success is invented, *)
(* no task is dropped, and every step is a step of TaskGroupExecution or   *)
(* leaves it unchanged.                                                    *)

Labels == {"lock", "execute", "load", "store", "complete", "notify", "wait", "done"}

LEMMA RequestsFinite == \A S \in SUBSET Requests : IsFiniteSet(S) /\ Cardinality(S) \in Nat
<1>1. IsFiniteSet(Requests)
  BY UpdateAssumption, FS_Interval DEF Requests
<1> QED
  BY <1>1, FS_Subset, FS_CardinalityType

LEMMA WorkingFinite == IsFiniteSet({w \in Workers : Working(w)})
BY UpdateAssumption, FS_Subset

\* The queue run() starts with holds every task, and each of them once.
LEMMA InOrderFacts ==
    ASSUME NEW S \in SUBSET Requests, NEW s \in InOrder(S)
    PROVE  /\ s \in Seq(Requests) /\ Len(s) = Cardinality(S)
           /\ \A j, k \in 1 .. Len(s) : s[j] = s[k] => j = k
           /\ \A i \in S : \E k \in 1 .. Len(s) : s[k] = i
           /\ \A k \in 1 .. Len(s) : s[k] \in S
<1> DEFINE n == Cardinality(S)
<1>1. IsFiniteSet(S) /\ n \in Nat
  BY RequestsFinite
<1>2. /\ s \in [1 .. n -> S] /\ s \in [1 .. n -> Requests]
      /\ \A i, j \in 1 .. n : i < j => s[i] < s[j]
  BY DEF InOrder
<1> HIDE DEF n
<1>3. s \in Seq(Requests) /\ Len(s) = n
  BY <1>1, <1>2
<1>4. \A j, k \in 1 .. n : s[j] = s[k] => j = k
  <2> SUFFICES ASSUME NEW j \in 1 .. n, NEW k \in 1 .. n, s[j] = s[k], j # k PROVE FALSE
    OBVIOUS
  <2>1. s[j] \in Nat /\ s[k] \in Nat
    BY <1>2 DEF Requests
  <2>2. j < k \/ k < j
    BY <1>1
  <2> QED
    BY <1>2, <2>1, <2>2
<1>5. s \in Injection(1 .. n, S)
  BY <1>2, <1>4 DEF Injection, IsInjective
<1>6. IsFiniteSet(1 .. n) /\ Cardinality(1 .. n) = n
  BY <1>1, FS_Interval
<1>7. s \in Surjection(1 .. n, S)
  BY <1>1, <1>5, <1>6, FS_Injection DEF n
<1>8. \A i \in S : \E k \in 1 .. n : s[k] = i
  BY <1>7 DEF Surjection
<1> QED
  BY <1>2, <1>3, <1>4, <1>8 DEF n

LEMMA ConcatFacts ==
    ASSUME NEW s \in Seq(Requests), NEW t \in Seq(Requests)
    PROVE  s \o t \in Seq(Requests) /\ Len(s \o t) = Len(s) + Len(t)
OBVIOUS

\* Taking the task at position k leaves every other task in the queue, once.
LEMMA AfterTakeFacts ==
    ASSUME readyIndices \in Seq(Requests), NEW k \in 1 .. Len(readyIndices)
    PROVE  /\ AfterTake(k) \in Seq(Requests)
           /\ Len(AfterTake(k)) = Len(readyIndices) - 1
           /\ \A m \in 1 .. Len(AfterTake(k)) :
                 AfterTake(k)[m] = IF m <= Len(readyIndices) - k
                                   THEN readyIndices[k + m]
                                   ELSE readyIndices[m - (Len(readyIndices) - k)]
<1> DEFINE n == Len(readyIndices)
           tail == SubSeq(readyIndices, k + 1, n)
           front == SubSeq(readyIndices, 1, k - 1)
<1>1. n \in Nat /\ k \in 1 .. n
  OBVIOUS
<1>2. /\ tail \in Seq(Requests) /\ Len(tail) = n - k
      /\ \A m \in 1 .. n - k : tail[m] = readyIndices[k + m]
  OBVIOUS
<1>3. /\ front \in Seq(Requests) /\ Len(front) = k - 1
      /\ \A m \in 1 .. k - 1 : front[m] = readyIndices[m]
  OBVIOUS
<1>4. AfterTake(k) = tail \o front
  BY DEF AfterTake
<1> HIDE DEF tail, front, n
<1>5. AfterTake(k) \in Seq(Requests) /\ Len(AfterTake(k)) = n - 1
  <2>1. Len(tail \o front) = Len(tail) + Len(front) /\ tail \o front \in Seq(Requests)
    BY <1>2, <1>3, ConcatFacts
  <2> QED
    BY <1>1, <1>2, <1>3, <1>4, <2>1
<1>6. ASSUME NEW m \in 1 .. n - 1
      PROVE  AfterTake(k)[m] = IF m <= n - k THEN readyIndices[k + m]
                                             ELSE readyIndices[m - (n - k)]
  <2>1. CASE m <= n - k
    BY <1>1, <1>2, <1>3, <1>4, <2>1
  <2>2. CASE m > n - k
    <3>1. m - (n - k) \in 1 .. k - 1
      BY <1>1, <2>2
    <3>2. AfterTake(k)[m] = front[m - (n - k)]
      BY <1>1, <1>2, <1>3, <1>4, <2>2
    <3> QED
      BY <1>1, <1>3, <2>2, <3>1, <3>2
  <2> QED
    BY <1>1, <2>1, <2>2
<1> QED
  BY <1>5, <1>6 DEF n

LEMMA AfterTakeMembers ==
    ASSUME readyIndices \in Seq(Requests), NEW k \in 1 .. Len(readyIndices),
           \A a, b \in 1 .. Len(readyIndices) : readyIndices[a] = readyIndices[b] => a = b
    PROVE  /\ \A a, b \in 1 .. Len(AfterTake(k)) : AfterTake(k)[a] = AfterTake(k)[b] => a = b
           /\ \A m \in 1 .. Len(AfterTake(k)) :
                 \E j \in 1 .. Len(readyIndices) :
                    j # k /\ AfterTake(k)[m] = readyIndices[j]
           /\ \A j \in 1 .. Len(readyIndices) : j # k =>
                 \E m \in 1 .. Len(AfterTake(k)) : AfterTake(k)[m] = readyIndices[j]
<1> DEFINE n == Len(readyIndices)
           q == AfterTake(k)
           from(m) == IF m <= n - k THEN k + m ELSE m - (n - k)
<1>1. n \in Nat /\ k \in 1 .. n
  OBVIOUS
<1>2. Len(q) = n - 1 /\ \A m \in 1 .. n - 1 : q[m] = readyIndices[from(m)]
  <2>1. \A m \in 1 .. Len(q) : q[m] = IF m <= n - k THEN readyIndices[k + m]
                                      ELSE readyIndices[m - (n - k)]
    BY AfterTakeFacts
  <2>2. Len(q) = n - 1
    BY AfterTakeFacts
  <2> QED
    BY <2>1, <2>2
<1>3. \A m \in 1 .. n - 1 : from(m) \in 1 .. n /\ from(m) # k
  BY <1>1
<1>4. \A a, b \in 1 .. n - 1 : from(a) = from(b) => a = b
  BY <1>1
<1>5. ASSUME NEW j \in 1 .. n, j # k PROVE \E m \in 1 .. n - 1 : from(m) = j
  <2>1. CASE j > k
    <3>1. j - k \in 1 .. n - 1 /\ from(j - k) = j
      BY <1>1, <2>1
    <3> QED
      BY <3>1
  <2>2. CASE j < k
    <3>1. j + (n - k) \in 1 .. n - 1 /\ from(j + (n - k)) = j
      BY <1>1, <2>2
    <3> QED
      BY <3>1
  <2> QED
    BY <1>1, <1>5, <2>1, <2>2
<1>6. \A a, b \in 1 .. n : readyIndices[a] = readyIndices[b] => a = b
  OBVIOUS
<1> HIDE DEF n, q, from
<1>7. \A a, b \in 1 .. n - 1 : q[a] = q[b] => a = b
  BY <1>2, <1>3, <1>4, <1>6
<1>8. \A m \in 1 .. n - 1 : \E j \in 1 .. n : j # k /\ q[m] = readyIndices[j]
  BY <1>2, <1>3
<1>9. \A j \in 1 .. n : j # k => \E m \in 1 .. n - 1 : q[m] = readyIndices[j]
  BY <1>2, <1>5
<1> QED
  BY <1>2, <1>7, <1>8, <1>9 DEF n, q

-----------------------------------------------------------------------------
(* The initial states.                                                     *)

LEMMA UpdateInitInv == UpdateInit => UpdateInv
<1> SUFFICES ASSUME UpdateInit PROVE UpdateInv
  OBVIOUS
<1>1. /\ readyIndices \in Seq(Requests)
      /\ \A j, k \in 1 .. Len(readyIndices) : readyIndices[j] = readyIndices[k] => j = k
      /\ \A i \in updateTasks : \E k \in 1 .. Len(readyIndices) : readyIndices[k] = i
  BY InOrderFacts DEF UpdateInit
<1>2. UpdateTypeOK
  BY <1>1 DEF UpdateInit, UpdateTypeOK
<1>3. {w \in Workers : Working(w)} = {}
  BY DEF UpdateInit, Working
<1>4. /\ \A i \in Requests : ~started[i] /\ ~completed[i] /\ ~failed[i] /\ ~results[i]
      /\ \A w \in Workers : pc[w] = "lock" /\ ~Working(w) /\ word[w] = [i \in Requests |-> FALSE]
      /\ stopLaunching = FALSE
  BY DEF UpdateInit, Working
<1>5. \A k \in 1 .. Len(readyIndices) : readyIndices[k] \in Requests
  BY <1>1
<1>6. TasksInv
  BY <1>1, <1>4, <1>5 DEF TasksInv, Queued
<1>7. UpdateThreadsInv
  <2>1. parallel => Workers # {}
    BY FS_EmptySet DEF UpdateInit
  <2>2. busySystems = {} /\ runningWorkers = 0 /\ Cardinality({w \in Workers : Working(w)}) = 0
    BY <1>3, FS_EmptySet DEF UpdateInit
  <2>3. busySystems = {system[index[w]] : w \in {v \in Workers : Working(v)}}
    BY <1>3, <2>2
  <2> QED
    BY <1>4, <2>1, <2>2, <2>3 DEF UpdateThreadsInv
<1>8. ResultsInv
  BY <1>4 DEF ResultsInv
<1> QED
  BY <1>2, <1>6, <1>7, <1>8 DEF UpdateInv

-----------------------------------------------------------------------------
(* Steps of a thread that change nothing but what the thread itself keeps. *)

\* The tasks and the queue are as they were.
LEMMA QuietTasks ==
    ASSUME TasksInv, UNCHANGED <<updatePlan, readyIndices, started, completed, failed, stopLaunching>>
    PROVE  TasksInv'
BY DEF TasksInv, Queued, updatePlan

\* The same threads work on the same tasks.
LEMMA UpdateQuietThreads ==
    ASSUME UpdateThreadsInv, UNCHANGED <<updatePlan, pool, index>>,
           \A w \in Workers :
              /\ Working(w)' = Working(w)
              /\ ~parallel => pc'[w] = "lock"
              /\ pc'[w] = "done" =>
                    stopLaunching \/ (readyIndices = <<>> /\ runningWorkers = 0)
    PROVE  UpdateThreadsInv'
<1> USE DEF updatePlan, pool
<1>1. {w \in Workers : Working(w)'} = {w \in Workers : Working(w)}
  OBVIOUS
<1>2. /\ UNCHANGED <<system, parallel, started, completed, index, stopLaunching,
                     readyIndices, runningWorkers, busySystems>>
      /\ \A w \in Workers : Working(w)' = Working(w)
  OBVIOUS
<1>3. runningWorkers' = Cardinality({w \in Workers : Working(w)'})
  BY <1>1, <1>2 DEF UpdateThreadsInv
<1>4. busySystems' = {system'[index'[w]] : w \in {v \in Workers : Working(v)'}}
  BY <1>1, <1>2 DEF UpdateThreadsInv
<1>5. \A w \in Workers :
        /\ Working(w)' => index'[w] \in Requests /\ started'[index'[w]] /\ ~completed'[index'[w]]
        /\ ~parallel' => pc'[w] = "lock"
        /\ pc'[w] = "done" =>
              stopLaunching' \/ (readyIndices' = <<>> /\ runningWorkers' = 0)
  BY <1>2 DEF UpdateThreadsInv
<1>6. /\ parallel' => Workers # {}
      /\ \A v, w \in Workers : Working(v)' /\ Working(w)' /\ v # w =>
            system'[index'[v]] # system'[index'[w]]
  BY <1>2 DEF UpdateThreadsInv
<1>7. \A i \in Requests : started'[i] /\ ~completed'[i] =>
         IF parallel' THEN \E w \in Workers : Working(w)' /\ index'[w] = i
                      ELSE readyIndices' # <<>> /\ i = readyIndices'[1]
  BY <1>2 DEF UpdateThreadsInv
<1> QED
  BY <1>3, <1>4, <1>5, <1>6, <1>7 DEF UpdateThreadsInv

\* No word changes, and no thread steps back in its work.
LEMMA QuietResults ==
    ASSUME ResultsInv, UNCHANGED <<updatePlan, pool, index, word, results>>,
           \A w \in Workers : Working(w)' => /\ Working(w)
                                             /\ pc[w] = "complete" /\ verdict[w] =>
                                                   pc'[w] = "complete" /\ verdict'[w]
    PROVE  ResultsInv'
<1> USE DEF updatePlan, pool
<1>1. \A i \in Requests : BitBacked(i) => BitBacked(i)'
  BY DEF BitBacked
<1> QED
  BY <1>1 DEF ResultsInv

\* Leave, Wait, Notify and SpuriousWakeup move threads that do not work.
LEMMA IdleInv ==
    ASSUME UpdateInv, NEW w \in Workers,
           Leave(w) \/ Wait(w) \/ UpdateNotify(w) \/ UpdateSpuriousWakeup(w)
    PROVE  UpdateInv'
<1> USE DEF updatePlan, pool
<1>1. UpdateTypeOK /\ TasksInv /\ UpdateThreadsInv /\ ResultsInv
  BY DEF UpdateInv
<1>2. UNCHANGED <<updatePlan, pool, index, verdict, word, results>> /\ pc' \in [Workers -> Labels]
  BY <1>1 DEF UpdateTypeOK, Leave, Wait, UpdateNotify, UpdateSpuriousWakeup, Goto, Labels
<1>3. UpdateTypeOK'
  BY <1>1, <1>2 DEF UpdateTypeOK, Labels
<1>4. \A v \in Workers : Working(v)' = Working(v) /\ (Working(v) => pc'[v] = pc[v])
  BY <1>1 DEF UpdateTypeOK, Leave, Wait, UpdateNotify, UpdateSpuriousWakeup, Goto, Working
<1>5. \A v \in Workers : ~parallel => pc'[v] = "lock"
  BY <1>1
  DEF UpdateTypeOK, UpdateThreadsInv, Leave, Wait, UpdateNotify, UpdateSpuriousWakeup, Goto
<1>6. ASSUME Free = {}, runningWorkers = 0 PROVE readyIndices = <<>>
  <2>1. {v \in Workers : Working(v)} = {}
    BY <1>1, <1>6, WorkingFinite, FS_EmptySet DEF UpdateThreadsInv
  <2>2. busySystems = {}
    BY <1>1, <2>1 DEF UpdateThreadsInv
  <2>3. DOMAIN readyIndices = {}
    BY <1>6, <2>2 DEF Free
  <2> QED
    BY <1>1, <2>3 DEF UpdateTypeOK
<1>7. \A v \in Workers : pc'[v] = "done" =>
         stopLaunching \/ (readyIndices = <<>> /\ runningWorkers = 0)
  BY <1>1, <1>6, SMTT(30)
  DEF UpdateTypeOK, UpdateThreadsInv, Leave, Wait, UpdateNotify, UpdateSpuriousWakeup, Goto
<1>8. TasksInv'
  BY <1>1, <1>2, QuietTasks
<1>9. UpdateThreadsInv'
  BY <1>1, <1>2, <1>4, <1>5, <1>7, UpdateQuietThreads
<1>10. ResultsInv'
  BY <1>1, <1>2, <1>4, QuietResults
<1> QED
  BY <1>3, <1>8, <1>9, <1>10 DEF UpdateInv

LEMMA ExecuteInv ==
    ASSUME UpdateInv, NEW w \in Workers, UpdateExecute(w)
    PROVE  UpdateInv'
<1> USE DEF updatePlan, pool
<1>1. UpdateTypeOK /\ TasksInv /\ UpdateThreadsInv /\ ResultsInv
  BY DEF UpdateInv
<1>2. UpdateTypeOK'
  BY <1>1 DEF UpdateTypeOK, UpdateExecute, Goto
<1>3. /\ \A v \in Workers : Working(v)' = Working(v)
      /\ \A v \in Workers : pc'[v] = "done" => pc[v] = "done"
      /\ \A v \in Workers : v # w => pc'[v] = pc[v] /\ verdict'[v] = verdict[v]
      /\ pc[w] = "execute" /\ pc'[w] = "load"
  BY <1>1 DEF UpdateTypeOK, UpdateExecute, Goto, Working
<1>4. UNCHANGED <<updatePlan, pool, index, word, results>>
  BY DEF UpdateExecute
<1>5. TasksInv'
  BY <1>1, <1>4, QuietTasks
<1>6. parallel
  BY <1>1, <1>3 DEF UpdateThreadsInv, UpdateTypeOK
<1>7. UpdateThreadsInv'
  <2>1. \A v \in Workers : pc'[v] = "done" =>
           stopLaunching \/ (readyIndices = <<>> /\ runningWorkers = 0)
    BY <1>1, <1>3 DEF UpdateThreadsInv
  <2> QED
    BY <1>1, <1>3, <1>4, <1>6, <2>1, UpdateQuietThreads
<1>8. ResultsInv'
  BY <1>1, <1>3, <1>4, QuietResults
<1> QED
  BY <1>2, <1>5, <1>7, <1>8 DEF UpdateInv

\* Loading and storing the word of results: the race is between these two steps.
LEMMA WordInv ==
    ASSUME UpdateInv, NEW w \in Workers, LoadWord(w) \/ StoreWord(w)
    PROVE  UpdateInv'
<1> USE DEF updatePlan, pool
<1>1. UpdateTypeOK /\ TasksInv /\ UpdateThreadsInv /\ ResultsInv
  BY DEF UpdateInv
<1>2. /\ Working(w) /\ index[w] \in Requests /\ verdict[w] \in BOOLEAN
      /\ started[index[w]] /\ ~completed[index[w]]
  BY <1>1 DEF LoadWord, StoreWord, Working, UpdateThreadsInv, UpdateTypeOK
<1>3. UpdateTypeOK'
  <2>1. CASE LoadWord(w)
    BY <1>1, <2>1 DEF UpdateTypeOK, LoadWord, Goto
  <2>2. CASE StoreWord(w)
    BY <1>1, <1>2, <2>2 DEF UpdateTypeOK, StoreWord, Goto
  <2> QED
    BY <2>1, <2>2
<1>4. /\ \A v \in Workers : Working(v)' = Working(v)
      /\ \A v \in Workers : pc'[v] = "done" => pc[v] = "done"
      /\ \A v \in Workers : v # w => pc'[v] = pc[v]
      /\ UNCHANGED <<updatePlan, pool, index, verdict>>
  BY <1>1 DEF UpdateTypeOK, LoadWord, StoreWord, Goto, Working
<1>5. TasksInv'
  BY <1>1, <1>4, QuietTasks
<1>6. parallel
  BY <1>1, <1>2 DEF UpdateThreadsInv, UpdateTypeOK, Working
<1>7. UpdateThreadsInv'
  <2>1. \A v \in Workers : pc'[v] = "done" =>
           stopLaunching \/ (readyIndices = <<>> /\ runningWorkers = 0)
    BY <1>1, <1>4 DEF UpdateThreadsInv
  <2> QED
    BY <1>1, <1>4, <1>6, <2>1, UpdateQuietThreads
<1>8. \A i \in Requests : BitBacked(i) => i # index[w] /\ BitBacked(i)'
  <2>1. pc[w] \in {"load", "store"}
    BY DEF LoadWord, StoreWord
  <2> QED
    BY <1>2, <1>4, <2>1 DEF BitBacked
<1>9. CASE LoadWord(w)
  <2>1. \A i \in Requests : results'[i] \/ (\E v \in Workers : word'[v][i]) =>
           results[i] \/ (\E v \in Workers : word[v][i])
    BY <1>1, <1>9 DEF LoadWord, UpdateTypeOK
  <2>2. ResultsInv'
    BY <1>1, <1>8, <2>1 DEF ResultsInv
  <2> QED
    BY <1>3, <1>5, <1>7, <2>2 DEF UpdateInv
<1>10. CASE StoreWord(w)
  <2>1. \A i \in Requests : results'[i] \/ (\E v \in Workers : word'[v][i]) =>
           \/ results[i] \/ (\E v \in Workers : word[v][i])
           \/ i = index[w] /\ verdict[w]
    BY <1>1, <1>2, <1>10 DEF StoreWord, UpdateTypeOK
  <2>2. ASSUME verdict[w] PROVE BitBacked(index[w])'
    <3>1. ~failed[index[w]]
      BY <1>1, <1>2 DEF TasksInv
    <3>2. \A v \in Workers : Working(v) /\ index[v] = index[w] => v = w
      BY <1>1, <1>2 DEF UpdateThreadsInv
    <3>3. pc'[w] = "complete"
      BY <1>1, <1>10 DEF StoreWord, Goto, UpdateTypeOK
    <3> QED
      BY <1>2, <1>4, <1>6, <2>2, <3>1, <3>2, <3>3 DEF BitBacked
  <2>3. ResultsInv'
    <3> SUFFICES ASSUME NEW i \in Requests,
                        results'[i] \/ (\E v \in Workers : word'[v][i])
                 PROVE  BitBacked(i)'
      BY DEF ResultsInv
    <3>1. CASE results[i] \/ (\E v \in Workers : word[v][i])
      BY <1>1, <1>8, <3>1 DEF ResultsInv
    <3>2. CASE i = index[w] /\ verdict[w]
      <4>1. index'[w] = index[w]
        BY <1>4
      <4> QED
        BY <2>2, <3>2, <4>1
    <3> QED
      BY <2>1, <3>1, <3>2
  <2> QED
    BY <1>3, <1>5, <1>7, <2>3 DEF UpdateInv
<1> QED
  BY <1>9, <1>10

LEMMA UpdateTakeInv ==
    ASSUME UpdateInv, NEW w \in Workers, UpdateTake(w)
    PROVE  UpdateInv'
<1> USE DEF updatePlan
<1>1. UpdateTypeOK /\ TasksInv /\ UpdateThreadsInv /\ ResultsInv
  BY DEF UpdateInv
<1>2. PICK k \in Free :
        /\ index' = [index EXCEPT ![w] = readyIndices[k]]
        /\ started' = [started EXCEPT ![readyIndices[k]] = TRUE]
        /\ busySystems' = busySystems \cup {system[readyIndices[k]]}
        /\ readyIndices' = AfterTake(k)
  BY DEF UpdateTake
<1>3. /\ k \in 1 .. Len(readyIndices) /\ readyIndices[k] \in Requests
      /\ system[readyIndices[k]] \notin busySystems /\ readyIndices \in Seq(Requests)
  BY <1>1, <1>2 DEF Free, UpdateTypeOK
<1>4. /\ parallel /\ ~stopLaunching /\ runningWorkers' = runningWorkers + 1
      /\ pc[w] = "lock" /\ pc' = [pc EXCEPT ![w] = "execute"]
      /\ UNCHANGED <<system, updateTasks, stopOnFirstFailure, parallel, completed, failed,
                     stopLaunching, verdict, word, results>>
  BY DEF UpdateTake, Goto
<1> DEFINE c == readyIndices[k]
<1>5. ~started[c] /\ ~completed[c] /\ ~failed[c]
  BY <1>1, <1>3, <1>4 DEF TasksInv
<1>6. /\ AfterTake(k) \in Seq(Requests)
      /\ \A a, b \in 1 .. Len(AfterTake(k)) : AfterTake(k)[a] = AfterTake(k)[b] => a = b
      /\ \A m \in 1 .. Len(AfterTake(k)) :
            \E j \in 1 .. Len(readyIndices) : j # k /\ AfterTake(k)[m] = readyIndices[j]
      /\ \A j \in 1 .. Len(readyIndices) : j # k =>
            \E m \in 1 .. Len(AfterTake(k)) : AfterTake(k)[m] = readyIndices[j]
  <2>1. \A a, b \in 1 .. Len(readyIndices) : readyIndices[a] = readyIndices[b] => a = b
    BY <1>1 DEF TasksInv
  <2> QED
    BY <1>3, <2>1, AfterTakeFacts, AfterTakeMembers
<1>7. \A j \in 1 .. Len(readyIndices) : j # k => readyIndices[j] \in Requests /\ readyIndices[j] # c
  BY <1>1, <1>3 DEF TasksInv
<1> DEFINE q == AfterTake(k)
<1> HIDE DEF c, q
<1>8. /\ c \in Requests /\ index' = [index EXCEPT ![w] = c]
      /\ started' = [started EXCEPT ![c] = TRUE]
      /\ busySystems' = busySystems \cup {system[c]} /\ readyIndices' = q
      /\ system[c] \notin busySystems
  BY <1>2, <1>3 DEF c, q
<1>9. /\ \A a, b \in 1 .. Len(q) : q[a] = q[b] => a = b
      /\ \A m \in 1 .. Len(q) : \E j \in 1 .. Len(readyIndices) :
            j # k /\ q[m] = readyIndices[j]
      /\ \A j \in 1 .. Len(readyIndices) : j # k =>
            \E m \in 1 .. Len(q) : q[m] = readyIndices[j]
      /\ q \in Seq(Requests)
  BY <1>6 DEF q
<1>10. UpdateTypeOK'
  <2>1. started' \in [Requests -> BOOLEAN] /\ index' \in [Workers -> Requests \cup {0}]
    BY <1>1, <1>8 DEF UpdateTypeOK
  <2>2. busySystems' \in SUBSET Systems /\ runningWorkers' \in Nat
    BY <1>1, <1>4, <1>8 DEF UpdateTypeOK
  <2>3. pc' \in [Workers -> Labels]
    BY <1>1, <1>4 DEF UpdateTypeOK, Labels
  <2> QED
    BY <1>1, <1>4, <1>8, <1>9, <2>1, <2>2, <2>3 DEF UpdateTypeOK, Labels
<1>11. \A i \in Requests : started'[i] = (started[i] \/ i = c)
  BY <1>1, <1>8 DEF UpdateTypeOK
<1>12. \A m \in 1 .. Len(q) : q[m] \in Requests /\ q[m] # c /\ ~started'[q[m]]
  <2> SUFFICES ASSUME NEW m \in 1 .. Len(q)
               PROVE  q[m] \in Requests /\ q[m] # c /\ ~started'[q[m]]
    OBVIOUS
  <2>1. PICK j \in 1 .. Len(readyIndices) : j # k /\ q[m] = readyIndices[j]
    BY <1>9
  <2>2. ~started[readyIndices[j]]
    BY <1>1, <1>4 DEF TasksInv
  <2> QED
    BY <1>7, <1>11, <2>1, <2>2
<1>13. ASSUME NEW i \in updateTasks, ~completed[i]
       PROVE  Queued(i)' \/ started'[i]
  <2>1. i \in Requests
    BY <1>1 DEF UpdateTypeOK
  <2>2. CASE started[i] \/ i = c
    BY <1>11, <2>1, <2>2
  <2>3. CASE ~started[i] /\ i # c
    <3>1. PICK j \in 1 .. Len(readyIndices) : readyIndices[j] = i
      BY <1>1, <1>13, <2>3 DEF TasksInv, Queued
    <3>2. j # k
      BY <2>3, <3>1 DEF c
    <3>3. \E m \in 1 .. Len(q) : q[m] = i
      BY <1>9, <3>1, <3>2
    <3> QED
      BY <1>8, <3>3 DEF Queued
  <2> QED
    BY <2>2, <2>3
<1>14. TasksInv'
  <2>1. \A i \in Requests : (completed[i] => started'[i]) /\ (failed[i] => completed[i])
    BY <1>1, <1>11 DEF TasksInv
  <2>2. stopLaunching <=> stopOnFirstFailure /\ \E i \in Requests : failed[i]
    BY <1>1 DEF TasksInv
  <2> QED
    BY <1>4, <1>8, <1>9, <1>12, <1>13, <2>1, <2>2 DEF TasksInv
<1>15. /\ \A v \in Workers : v # w => pc'[v] = pc[v] /\ index'[v] = index[v]
       /\ pc'[w] = "execute" /\ index'[w] = c
  BY <1>1, <1>4, <1>8 DEF UpdateTypeOK
<1>16. /\ \A v \in Workers : v # w => Working(v)' = Working(v)
       /\ Working(w)' /\ ~Working(w)
  BY <1>4, <1>15 DEF Working
<1>17. \A v \in Workers : Working(v) => /\ system[index[v]] # system[c] /\ index[v] # c
                                        /\ index[v] \in Requests
                                        /\ started[index[v]] /\ ~completed[index[v]]
  BY <1>1, <1>8 DEF UpdateThreadsInv
<1>18. UpdateThreadsInv'
  <2> DEFINE W == {v \in Workers : Working(v)}
             V == {v \in Workers : Working(v)'}
  <2>1. V = W \cup {w} /\ w \notin W
    BY <1>16
  <2>2. runningWorkers' = Cardinality(V)
    <3>1. Cardinality(W \cup {w}) = Cardinality(W) + 1
      BY <2>1, WorkingFinite, FS_AddElement
    <3>2. runningWorkers = Cardinality(W)
      BY <1>1 DEF UpdateThreadsInv
    <3> QED
      BY <1>4, <2>1, <3>1, <3>2
  <2>3. busySystems' = {system'[index'[v]] : v \in V}
    <3>1. busySystems = {system[index[v]] : v \in W}
      BY <1>1 DEF UpdateThreadsInv
    <3>2. {system[index'[v]] : v \in W} = {system[index[v]] : v \in W}
      BY <1>15, <1>16
    <3> HIDE DEF W, V
    <3> QED
      BY <1>4, <1>8, <1>15, <2>1, <3>1, <3>2
  <2>4. \A v \in Workers :
          /\ Working(v)' => index'[v] \in Requests /\ started'[index'[v]] /\ ~completed'[index'[v]]
          /\ ~parallel' => pc'[v] = "lock"
    <3> SUFFICES ASSUME NEW v \in Workers, Working(v)'
                 PROVE  index'[v] \in Requests /\ started'[index'[v]] /\ ~completed'[index'[v]]
      BY <1>4
    <3>1. CASE v = w
      BY <1>4, <1>5, <1>8, <1>11, <1>15, <3>1
    <3>2. CASE v # w
      <4>1. index'[v] = index[v] /\ Working(v)
        BY <1>15, <1>16, <3>2
      <4>2. index[v] \in Requests /\ started[index[v]] /\ ~completed[index[v]]
        BY <1>17, <4>1
      <4>3. started'[index[v]] /\ ~completed'[index[v]]
        BY <1>4, <1>11, <4>2
      <4> QED
        BY <4>1, <4>2, <4>3
    <3> QED
      BY <3>1, <3>2
  <2>5. \A v \in Workers : pc'[v] # "done"
    <3>1. readyIndices # <<>>
      BY <1>3
    <3> QED
      BY <1>1, <1>4, <1>15, <3>1 DEF UpdateThreadsInv
  <2>6. \A v, u \in Workers : Working(v)' /\ Working(u)' /\ v # u =>
            system'[index'[v]] # system'[index'[u]]
    <3>1. \A v, u \in Workers : Working(v) /\ Working(u) /\ v # u =>
             system[index[v]] # system[index[u]]
      BY <1>1 DEF UpdateThreadsInv
    <3> QED
      BY <1>4, <1>15, <1>16, <1>17, <3>1
  <2>7. \A i \in Requests : started'[i] /\ ~completed'[i] =>
           \E v \in Workers : Working(v)' /\ index'[v] = i
    <3>1. \A i \in Requests : started[i] /\ ~completed[i] =>
             \E v \in Workers : Working(v) /\ index[v] = i
      BY <1>1, <1>4 DEF UpdateThreadsInv
    <3> SUFFICES ASSUME NEW i \in Requests, started'[i], ~completed'[i]
                 PROVE  \E v \in Workers : Working(v)' /\ index'[v] = i
      OBVIOUS
    <3>2. CASE i = c
      BY <1>15, <1>16, <3>2
    <3>3. CASE i # c
      <4>1. started[i] /\ ~completed[i]
        BY <1>4, <1>11, <3>3
      <4>2. PICK v \in Workers : Working(v) /\ index[v] = i
        BY <3>1, <4>1
      <4>3. v # w
        BY <1>16, <4>2
      <4> QED
        BY <1>15, <1>16, <4>2, <4>3
    <3> QED
      BY <3>2, <3>3
  <2>8. parallel' /\ Workers # {}
    BY <1>4
  <2> HIDE DEF W, V
  <2>9. runningWorkers' = Cardinality({v \in Workers : Working(v)'})
        /\ busySystems' = {system'[index'[v]] : v \in {u \in Workers : Working(u)'}}
    BY <2>2, <2>3 DEF V
  <2> QED
    BY <2>4, <2>5, <2>6, <2>7, <2>8, <2>9 DEF UpdateThreadsInv
<1>19. \A i \in Requests : BitBacked(i) => BitBacked(i)'
  <2> SUFFICES ASSUME NEW i \in Requests, BitBacked(i) PROVE BitBacked(i)'
    OBVIOUS
  <2>1. i # c
    BY <1>5 DEF BitBacked
  <2> QED
    BY <1>4, <1>11, <1>15, <1>16, <2>1 DEF BitBacked
<1>20. ResultsInv'
  BY <1>1, <1>4, <1>19 DEF ResultsInv
<1> QED
  BY <1>10, <1>14, <1>18, <1>20 DEF UpdateInv

\* The end of task i, whoever ran it: nobody else runs it or waits for it.
LEMMA EndTasks ==
    ASSUME UpdateTypeOK, TasksInv, NEW i \in Requests, NEW ok \in BOOLEAN,
           started[i], ~completed[i], End(i, ok), UNCHANGED <<updatePlan, started>>
    PROVE  /\ completed' \in [Requests -> BOOLEAN] /\ failed' \in [Requests -> BOOLEAN]
           /\ stopLaunching' \in BOOLEAN
           /\ \A j \in Requests : /\ completed'[j] = (completed[j] \/ j = i)
                                  /\ failed'[j] = (failed[j] \/ (j = i /\ ~ok))
                                  /\ completed'[j] => started'[j]
                                  /\ failed'[j] => completed'[j]
           /\ stopLaunching' <=> stopOnFirstFailure' /\ \E j \in Requests : failed'[j]
<1> USE DEF updatePlan
<1>1. /\ completed' = [completed EXCEPT ![i] = TRUE] /\ failed' = [failed EXCEPT ![i] = ~ok]
      /\ stopLaunching' = (stopLaunching \/ (~ok /\ stopOnFirstFailure))
      /\ completed \in [Requests -> BOOLEAN] /\ failed \in [Requests -> BOOLEAN]
      /\ stopLaunching \in BOOLEAN /\ stopOnFirstFailure \in BOOLEAN
      /\ UNCHANGED <<stopOnFirstFailure, started>>
  BY DEF End, UpdateTypeOK
<1>2. ~failed[i]
  BY DEF TasksInv
<1>3. \A j \in Requests : /\ completed'[j] = (completed[j] \/ j = i)
                          /\ failed'[j] = (failed[j] \/ (j = i /\ ~ok))
  BY <1>1, <1>2
<1>4. \A j \in Requests : (completed'[j] => started'[j]) /\ (failed'[j] => completed'[j])
  BY <1>1, <1>3 DEF TasksInv
<1>5. stopLaunching' <=> stopOnFirstFailure' /\ \E j \in Requests : failed'[j]
  BY <1>1, <1>3 DEF TasksInv
<1> QED
  BY <1>1, <1>3, <1>4, <1>5

LEMMA UpdateCompleteInv ==
    ASSUME UpdateInv, NEW w \in Workers, UpdateComplete(w)
    PROVE  UpdateInv'
<1> USE DEF updatePlan
<1>1. UpdateTypeOK /\ TasksInv /\ UpdateThreadsInv /\ ResultsInv
  BY DEF UpdateInv
<1> DEFINE c == index[w]
           ok == verdict[w]
<1>2. /\ Working(w) /\ c \in Requests /\ ok \in BOOLEAN
      /\ started[c] /\ ~completed[c] /\ parallel
  BY <1>1 DEF UpdateComplete, Working, UpdateThreadsInv, UpdateTypeOK
<1>3. /\ pc[w] = "complete" /\ End(c, ok) /\ busySystems' = busySystems \ {system[c]}
      /\ runningWorkers' = IF runningWorkers > 0 THEN runningWorkers - 1 ELSE 0
      /\ pc' = [pc EXCEPT ![w] = "notify"]
      /\ UNCHANGED <<system, updateTasks, stopOnFirstFailure, parallel, readyIndices, started,
                     index, verdict, word, results>>
  BY DEF UpdateComplete, Goto
<1> HIDE DEF c, ok
<1>4. /\ completed' \in [Requests -> BOOLEAN] /\ failed' \in [Requests -> BOOLEAN]
      /\ stopLaunching' \in BOOLEAN
      /\ \A j \in Requests : /\ completed'[j] = (completed[j] \/ j = c)
                             /\ failed'[j] = (failed[j] \/ (j = c /\ ~ok))
                             /\ completed'[j] => started'[j]
                             /\ failed'[j] => completed'[j]
      /\ stopLaunching' <=> stopOnFirstFailure' /\ \E j \in Requests : failed'[j]
  BY <1>1, <1>2, <1>3, EndTasks
<1>5. UpdateTypeOK'
  <2>1. busySystems' \in SUBSET Systems /\ runningWorkers' \in Nat
    BY <1>1, <1>3 DEF UpdateTypeOK
  <2>2. pc' \in [Workers -> Labels]
    BY <1>1, <1>3 DEF UpdateTypeOK, Labels
  <2> QED
    BY <1>1, <1>3, <1>4, <2>1, <2>2 DEF UpdateTypeOK, Labels
<1>6. TasksInv'
  <2>1. \A k \in 1 .. Len(readyIndices) : ~started[readyIndices[k]]
    BY <1>1, <1>2 DEF TasksInv
  <2>2. \A i \in updateTasks : ~completed'[i] => Queued(i)' \/ (parallel' /\ started'[i])
    <3> SUFFICES ASSUME NEW i \in updateTasks, ~completed'[i]
                 PROVE  Queued(i)' \/ (parallel' /\ started'[i])
      OBVIOUS
    <3>1. i \in Requests /\ ~completed[i]
      BY <1>1, <1>4 DEF UpdateTypeOK
    <3>2. Queued(i) \/ started[i]
      BY <1>1, <3>1 DEF TasksInv
    <3> QED
      BY <1>2, <1>3, <3>2 DEF Queued
  <2>3. \A j, k \in 1 .. Len(readyIndices) : readyIndices[j] = readyIndices[k] => j = k
    BY <1>1 DEF TasksInv
  <2> QED
    BY <1>2, <1>3, <1>4, <2>1, <2>2, <2>3 DEF TasksInv
<1>7. /\ \A v \in Workers : v # w => pc'[v] = pc[v] /\ Working(v)' = Working(v)
      /\ pc'[w] = "notify" /\ ~Working(w)'
  BY <1>1, <1>3 DEF UpdateTypeOK, Working
<1>8. \A v \in Workers : Working(v) /\ v # w =>
         /\ index[v] \in Requests /\ index[v] # c /\ system[index[v]] # system[c]
         /\ started[index[v]] /\ ~completed[index[v]]
  BY <1>1, <1>2 DEF UpdateThreadsInv, c
<1>9. UpdateThreadsInv'
  <2> DEFINE W == {v \in Workers : Working(v)}
             V == {v \in Workers : Working(v)'}
  <2>1. V = W \ {w} /\ w \in W
    BY <1>2, <1>7
  <2>2. runningWorkers = Cardinality(W) /\ runningWorkers \in Nat
    BY <1>1 DEF UpdateThreadsInv, UpdateTypeOK
  <2>3. IsFiniteSet(W)
    BY WorkingFinite
  <2>4. busySystems = {system[index[v]] : v \in W}
    BY <1>1 DEF UpdateThreadsInv
  <2>5. \A v \in V : v \in Workers /\ v # w /\ Working(v) /\ v \in W
    BY <1>7
  <2>6. \A v \in W : v \in Workers /\ Working(v) /\ (v # w => v \in V)
    BY <1>7
  <2> HIDE DEF W, V
  <2>7. Cardinality(W \ {w}) = Cardinality(W) - 1 /\ Cardinality(W) # 0
    BY <2>1, <2>3, FS_RemoveElement, FS_EmptySet
  <2>8. runningWorkers' = Cardinality(V) /\ runningWorkers # 0
    BY <1>3, <2>1, <2>2, <2>7
  <2>9. busySystems' = {system'[index'[v]] : v \in V}
    <3>1. {system[index[v]] : v \in W} \ {system[c]} = {system[index[v]] : v \in V}
      BY <1>8, <2>5, <2>6 DEF c
    <3> QED
      BY <1>3, <2>4, <3>1
  <2>10. \A v \in Workers :
          /\ Working(v)' => index'[v] \in Requests /\ started'[index'[v]] /\ ~completed'[index'[v]]
          /\ ~parallel' => pc'[v] = "lock"
    <3> SUFFICES ASSUME NEW v \in Workers, Working(v)'
                 PROVE  index'[v] \in Requests /\ started'[index'[v]] /\ ~completed'[index'[v]]
      BY <1>2, <1>3
    <3>1. v # w /\ Working(v)
      BY <1>7
    <3>2. /\ index[v] \in Requests /\ index[v] # c
          /\ started[index[v]] /\ ~completed[index[v]]
      BY <1>8, <3>1
    <3> QED
      BY <1>3, <1>4, <3>2
  <2>11. \A v \in Workers : pc'[v] = "done" => stopLaunching'
    <3> SUFFICES ASSUME NEW v \in Workers, pc'[v] = "done" PROVE stopLaunching'
      OBVIOUS
    <3>1. pc[v] = "done"
      BY <1>7
    <3>2. stopLaunching
      BY <1>1, <2>8, <3>1 DEF UpdateThreadsInv
    <3> QED
      BY <1>3, <3>2 DEF End
  <2>12. \A v, u \in Workers : Working(v)' /\ Working(u)' /\ v # u =>
            system'[index'[v]] # system'[index'[u]]
    BY <1>1, <1>3, <1>7 DEF UpdateThreadsInv
  <2>13. \A i \in Requests : started'[i] /\ ~completed'[i] =>
            \E v \in Workers : Working(v)' /\ index'[v] = i
    <3> SUFFICES ASSUME NEW i \in Requests, started'[i], ~completed'[i]
                 PROVE  \E v \in Workers : Working(v)' /\ index'[v] = i
      OBVIOUS
    <3>1. started[i] /\ ~completed[i] /\ i # c
      BY <1>3, <1>4
    <3>2. PICK v \in Workers : Working(v) /\ index[v] = i
      BY <1>1, <1>2, <3>1 DEF UpdateThreadsInv
    <3>3. v # w
      BY <3>1, <3>2 DEF c
    <3> QED
      BY <1>3, <1>7, <3>2, <3>3
  <2>14. parallel' /\ Workers # {}
    BY <1>2, <1>3
  <2>15. /\ runningWorkers' = Cardinality({v \in Workers : Working(v)'})
         /\ busySystems' = {system'[index'[v]] : v \in {u \in Workers : Working(u)'}}
    BY <2>8, <2>9 DEF V
  <2> QED
    BY <2>10, <2>11, <2>12, <2>13, <2>14, <2>15 DEF UpdateThreadsInv
<1>10. ASSUME NEW i \in Requests, BitBacked(i) PROVE BitBacked(i)'
  <2>1. started[i] /\ ~failed[i]
    BY <1>10 DEF BitBacked
  <2>2. i = c => ok
    BY <1>2, <1>10 DEF BitBacked, c, ok
  <2>3. ~failed'[i] /\ started'[i] /\ parallel'
    BY <1>2, <1>3, <1>4, <2>1, <2>2
  <2>4. \A v \in Workers : Working(v)' /\ index'[v] = i => pc'[v] = "complete" /\ verdict'[v]
    BY <1>3, <1>7, <1>10 DEF BitBacked
  <2> QED
    BY <2>3, <2>4 DEF BitBacked
<1>11. ResultsInv'
  BY <1>1, <1>3, <1>10 DEF ResultsInv
<1> QED
  BY <1>5, <1>6, <1>9, <1>11 DEF UpdateInv

-----------------------------------------------------------------------------
(* The caller's own loop.  No thread works.                                *)

LEMMA SequentialThreads ==
    ASSUME UpdateInv, ~parallel
    PROVE  /\ \A v \in Workers : pc[v] = "lock" /\ ~Working(v)
           /\ \A i \in Requests : started[i] /\ ~completed[i] =>
                 readyIndices # <<>> /\ i = readyIndices[1]
BY DEF UpdateInv, UpdateThreadsInv, Working

\* The threads are as they were: what is left to show of ThreadsInv is about tasks.
LEMMA SequentialThreadsInv ==
    ASSUME UpdateInv, ~parallel,
           UNCHANGED <<updatePlan, updateThreads, busySystems, runningWorkers>>,
           \A i \in Requests : started'[i] /\ ~completed'[i] =>
              readyIndices' # <<>> /\ i = readyIndices'[1]
    PROVE  UpdateThreadsInv'
<1> USE DEF updatePlan, updateThreads
<1>1. \A v \in Workers : pc'[v] = "lock" /\ ~Working(v) /\ ~Working(v)'
  BY SequentialThreads DEF Working
<1>2. {v \in Workers : Working(v)'} = {v \in Workers : Working(v)}
  BY <1>1
<1>3. /\ runningWorkers' = Cardinality({v \in Workers : Working(v)'})
      /\ busySystems' = {system'[index'[v]] : v \in {u \in Workers : Working(u)'}}
  BY <1>2 DEF UpdateInv, UpdateThreadsInv
<1>4. ~parallel'
  OBVIOUS
<1> QED
  BY <1>1, <1>3, <1>4 DEF UpdateThreadsInv

LEMMA SequentialStartInv ==
    ASSUME UpdateInv, UpdateSequentialStart
    PROVE  UpdateInv'
<1> USE DEF updatePlan, updateThreads
<1>1. UpdateTypeOK /\ TasksInv /\ UpdateThreadsInv /\ ResultsInv
  BY DEF UpdateInv
<1> DEFINE c == readyIndices[1]
<1>2. /\ ~parallel /\ readyIndices # <<>> /\ readyIndices \in Seq(Requests)
      /\ c \in Requests /\ 1 \in 1 .. Len(readyIndices) /\ Head(readyIndices) = c
  BY <1>1 DEF UpdateSequentialStart, UpdateInSequence, UpdateTypeOK
<1>3. /\ ~started[c] /\ started' = [started EXCEPT ![c] = TRUE]
      /\ UNCHANGED <<updatePlan, readyIndices, busySystems, completed, failed, stopLaunching,
                     runningWorkers, updateThreads, results>>
  BY <1>2 DEF UpdateSequentialStart
<1>4. UpdateTypeOK'
  BY <1>1, <1>2, <1>3 DEF UpdateTypeOK
<1>5. \A k \in 1 .. Len(readyIndices) : readyIndices[k] \in Requests /\ (k > 1 => readyIndices[k] # c)
  BY <1>1, <1>2 DEF TasksInv
<1>6. ~completed[c]
  BY <1>1, <1>2, <1>3 DEF TasksInv
<1> HIDE DEF c
<1>7. \A i \in Requests : started'[i] = (started[i] \/ i = c)
  BY <1>1, <1>2, <1>3 DEF UpdateTypeOK
<1>8. TasksInv'
  <2>1. \A i \in Requests : (completed[i] => started'[i]) /\ (failed[i] => completed[i])
    BY <1>1, <1>7 DEF TasksInv
  <2>2. \A k \in 1 .. Len(readyIndices) :
           IF k > 1 THEN ~started'[readyIndices[k]] ELSE ~completed[readyIndices[k]]
    BY <1>1, <1>2, <1>5, <1>7 DEF TasksInv
  <2>3. \A i \in updateTasks : ~completed'[i] => Queued(i)'
    BY <1>1, <1>2, <1>3 DEF TasksInv, Queued
  <2>4. /\ stopLaunching' <=> stopOnFirstFailure' /\ \E i \in Requests : failed'[i]
        /\ \A j, k \in 1 .. Len(readyIndices) : readyIndices[j] = readyIndices[k] => j = k
    BY <1>1, <1>3 DEF TasksInv
  <2> QED
    BY <1>2, <1>3, <2>1, <2>2, <2>3, <2>4 DEF TasksInv
<1>9. UpdateThreadsInv'
  <2>1. \A i \in Requests : started'[i] /\ ~completed'[i] =>
           readyIndices' # <<>> /\ i = readyIndices'[1]
    BY <1>2, <1>3, <1>7, SequentialThreads DEF c
  <2> QED
    BY <1>2, <1>3, <2>1, SequentialThreadsInv
<1>10. \A i \in Requests : BitBacked(i) => BitBacked(i)'
  BY <1>2, <1>3, <1>7, SequentialThreads DEF BitBacked, Working
<1>11. ResultsInv'
  BY <1>1, <1>3, <1>10 DEF ResultsInv
<1> QED
  BY <1>4, <1>8, <1>9, <1>11 DEF UpdateInv

LEMMA SequentialFinishInv ==
    ASSUME UpdateInv, UpdateSequentialFinish
    PROVE  UpdateInv'
<1> USE DEF updatePlan, updateThreads
<1>1. UpdateTypeOK /\ TasksInv /\ UpdateThreadsInv /\ ResultsInv
  BY DEF UpdateInv
<1> DEFINE c == readyIndices[1]
           q == Tail(readyIndices)
<1>2. /\ ~parallel /\ readyIndices # <<>> /\ readyIndices \in Seq(Requests)
      /\ c \in Requests /\ 1 \in 1 .. Len(readyIndices) /\ Head(readyIndices) = c
  BY <1>1 DEF UpdateSequentialFinish, UpdateInSequence, UpdateTypeOK
<1>3. PICK ok \in BOOLEAN : /\ End(c, ok)
                            /\ results' = [results EXCEPT ![c] = ok]
  BY <1>2 DEF UpdateSequentialFinish
<1>4. /\ started[c] /\ ~completed[c] /\ readyIndices' = q
      /\ UNCHANGED <<updatePlan, busySystems, started, runningWorkers, updateThreads>>
  BY <1>1, <1>2 DEF UpdateSequentialFinish, TasksInv
<1>5. /\ q \in Seq(Requests) /\ Len(q) = Len(readyIndices) - 1
      /\ \A k \in 1 .. Len(q) : q[k] = readyIndices[k + 1] /\ k + 1 \in 1 .. Len(readyIndices)
      /\ Len(readyIndices) \in Nat
  BY <1>2
<1> HIDE DEF c, q
<1>6. /\ completed' \in [Requests -> BOOLEAN] /\ failed' \in [Requests -> BOOLEAN]
      /\ stopLaunching' \in BOOLEAN
      /\ \A j \in Requests : /\ completed'[j] = (completed[j] \/ j = c)
                             /\ failed'[j] = (failed[j] \/ (j = c /\ ~ok))
                             /\ completed'[j] => started'[j]
                             /\ failed'[j] => completed'[j]
      /\ stopLaunching' <=> stopOnFirstFailure' /\ \E j \in Requests : failed'[j]
  BY <1>1, <1>2, <1>3, <1>4, EndTasks
<1>7. UpdateTypeOK'
  <2>1. results' \in [Requests -> BOOLEAN]
    BY <1>1, <1>2, <1>3 DEF UpdateTypeOK
  <2> QED
    BY <1>1, <1>4, <1>5, <1>6, <2>1 DEF UpdateTypeOK
<1>8. \A i \in Requests : ~(started[i] /\ ~completed'[i])
  BY <1>2, <1>6, SequentialThreads DEF c
<1>9. TasksInv'
  <2>1. \A k \in 1 .. Len(q) : q[k] \in Requests /\ ~started[q[k]]
    <3> SUFFICES ASSUME NEW k \in 1 .. Len(q) PROVE q[k] \in Requests /\ ~started[q[k]]
      OBVIOUS
    <3>1. q[k] = readyIndices[k + 1] /\ k + 1 \in 1 .. Len(readyIndices) /\ k + 1 > 1
      BY <1>5
    <3> QED
      BY <1>1, <1>2, <3>1 DEF TasksInv
  <2>2. \A j, k \in 1 .. Len(q) : q[j] = q[k] => j = k
    <3> SUFFICES ASSUME NEW j \in 1 .. Len(q), NEW k \in 1 .. Len(q), q[j] = q[k] PROVE j = k
      OBVIOUS
    <3>1. j + 1 = k + 1
      BY <1>1, <1>5 DEF TasksInv
    <3> QED
      BY <1>5, <3>1
  <2>3. ASSUME NEW i \in updateTasks, ~completed'[i] PROVE Queued(i)'
    <3>1. i \in Requests /\ ~completed[i] /\ i # c
      BY <1>1, <1>6, <2>3 DEF UpdateTypeOK
    <3>2. PICK k \in 1 .. Len(readyIndices) : readyIndices[k] = i
      BY <1>1, <1>2, <3>1 DEF TasksInv, Queued
    <3>3. k # 1
      BY <3>1, <3>2 DEF c
    <3>4. k - 1 \in 1 .. Len(q) /\ q[k - 1] = i
      BY <1>5, <3>2, <3>3
    <3> QED
      BY <1>4, <3>4 DEF Queued
  <2>4. \A k \in 1 .. Len(q) : ~started'[q[k]] /\ ~completed'[q[k]]
    BY <1>4, <1>6, <2>1
  <2> QED
    BY <1>2, <1>4, <1>6, <2>2, <2>3, <2>4 DEF TasksInv
<1>10. UpdateThreadsInv'
  BY <1>2, <1>4, <1>8, SequentialThreadsInv
<1>11. \A v \in Workers : ~Working(v)'
  BY <1>2, <1>4, SequentialThreads DEF Working
<1>12. ASSUME NEW i \in Requests, results'[i] \/ (\E v \in Workers : word'[v][i])
       PROVE  BitBacked(i)'
  <2>1. CASE results[i] \/ (\E v \in Workers : word[v][i])
    <3>1. BitBacked(i)
      BY <1>1, <2>1 DEF ResultsInv
    <3>2. completed[i] /\ started[i] /\ ~failed[i]
      BY <1>2, <3>1 DEF BitBacked
    <3>3. i # c
      BY <1>4, <3>2
    <3> QED
      BY <1>4, <1>6, <1>11, <3>2, <3>3 DEF BitBacked
  <2>2. CASE ~(results[i] \/ (\E v \in Workers : word[v][i]))
    <3>1. i = c /\ ok
      BY <1>1, <1>2, <1>3, <1>4, <1>12, <2>2 DEF UpdateTypeOK
    <3>2. ~failed[c]
      BY <1>1, <1>2, <1>4 DEF TasksInv
    <3>3. started'[i] /\ ~failed'[i] /\ completed'[i]
      BY <1>2, <1>4, <1>6, <3>1, <3>2
    <3> QED
      BY <1>11, <3>3 DEF BitBacked
  <2> QED
    BY <2>1, <2>2
<1>13. ResultsInv'
  BY <1>12 DEF ResultsInv
<1> QED
  BY <1>7, <1>9, <1>10, <1>13 DEF UpdateInv

-----------------------------------------------------------------------------
(* The theorems.                                                           *)

LEMMA UpdateNextInv == UpdateInv /\ [UpdateNext]_updateVars => UpdateInv'
<1> SUFFICES ASSUME UpdateInv, [UpdateNext]_updateVars PROVE UpdateInv'
  OBVIOUS
<1>1. CASE UNCHANGED updateVars
  <2> USE DEF updatePlan, pool, updateThreads, updateVars
  <2>1. \A v \in Workers : Working(v)' = Working(v)
    BY <1>1 DEF Working
  <2>2. UpdateTypeOK'
    BY <1>1 DEF UpdateInv, UpdateTypeOK
  <2>3. TasksInv'
    BY <1>1, QuietTasks DEF UpdateInv
  <2>4. UpdateThreadsInv'
    <3>1. \A v \in Workers : /\ ~parallel => pc'[v] = "lock"
                             /\ pc'[v] = "done" =>
                                  stopLaunching \/ (readyIndices = <<>> /\ runningWorkers = 0)
      BY <1>1 DEF UpdateInv, UpdateThreadsInv
    <3> QED
      BY <1>1, <2>1, <3>1, UpdateQuietThreads DEF UpdateInv
  <2>5. ResultsInv'
    BY <1>1, <2>1, QuietResults DEF UpdateInv
  <2> QED
    BY <2>2, <2>3, <2>4, <2>5 DEF UpdateInv
<1> QED
  BY <1>1, IdleInv, ExecuteInv, WordInv, UpdateTakeInv, UpdateCompleteInv, SequentialStartInv,
     SequentialFinishInv
  DEF UpdateNext, UpdateWorkerStep, UpdateSequential, UpdateFinished

\* UpdateInv holds in every reachable state of every instance.
THEOREM UpdateInvariant == UpdateSpec => []UpdateInv
<1> QED
  BY UpdateInitInv, UpdateNextInv, PTL DEF UpdateSpec

\* The variables of updateSystems and of its threads keep their types.
THEOREM UpdateTypeCorrect == UpdateSpec => []UpdateTypeOK
<1>1. UpdateInv => UpdateTypeOK
  BY DEF UpdateInv
<1> QED
  BY <1>1, UpdateInvariant, PTL

\* However the threads race for the word of results, a request that is reported
\* as updated was run and did not fail.
THEOREM SuccessNeverInvented == UpdateSpec => []NoFalseSuccess
<1>1. UpdateInv => NoFalseSuccess
  BY DEF UpdateInv, ResultsInv, BitBacked, NoFalseSuccess
<1> QED
  BY <1>1, UpdateInvariant, PTL

\* When updateSystems returns, every task it accepted has been run unless a failure
\* stopped it: no thread leaves while a task is queued or under way.
THEOREM AcceptedTasksRun == UpdateSpec => []NoTaskDropped
<1>1. ASSUME UpdateInv, UpdateReturned, ~stopLaunching, NEW i \in updateTasks, ~completed[i]
      PROVE  FALSE
  <2>1. UpdateTypeOK /\ TasksInv /\ UpdateThreadsInv /\ i \in Requests
    BY <1>1 DEF UpdateInv, UpdateTypeOK
  <2>2. CASE parallel
    <3>1. PICK w \in Workers : pc[w] = "done"
      BY <1>1, <2>1, <2>2 DEF UpdateReturned, UpdateThreadsInv
    <3>2. readyIndices = <<>>
      BY <1>1, <2>1, <3>1 DEF UpdateThreadsInv
    <3>3. started[i]
      BY <1>1, <2>1, <3>2 DEF TasksInv, Queued
    <3>4. PICK v \in Workers : Working(v)
      BY <1>1, <2>1, <2>2, <3>3 DEF UpdateThreadsInv
    <3> QED
      BY <1>1, <2>2, <3>4 DEF UpdateReturned, Working
  <2>3. CASE ~parallel
    <3>1. readyIndices = <<>>
      BY <1>1, <2>3 DEF UpdateReturned, UpdateInSequence
    <3> QED
      BY <1>1, <2>1, <2>3, <3>1 DEF TasksInv, Queued
  <2> QED
    BY <2>2, <2>3
<1>2. UpdateInv => NoTaskDropped
  BY <1>1 DEF NoTaskDropped
<1> QED
  BY <1>2, UpdateInvariant, PTL

-----------------------------------------------------------------------------
(* Refinement: the pool implements the abstract execution of its tasks.    *)

LEMMA UpdateInitRefines == UpdateInit => UpdateExecution!Init
<1> SUFFICES ASSUME UpdateInit PROVE UpdateExecution!Init
  OBVIOUS
<1>1. TaskStatus = [i \in Requests |-> "waiting"]
  BY DEF TaskStatus, UpdateInit
<1> QED
  BY <1>1 DEF UpdateExecution!Init, UpdateInit

LEMMA UpdateStatusUnchanged ==
    ASSUME UNCHANGED <<updatePlan, started, completed, failed>>
    PROVE  UNCHANGED UpdateExecution!vars
<1>1. TaskStatus' = TaskStatus
  BY DEF TaskStatus
<1> QED
  BY <1>1 DEF UpdateExecution!vars, UpdateExecution!plan, updatePlan

LEMMA UpdateStartRefines ==
    ASSUME UpdateInv, NEW c \in Requests, ~started[c], ~stopLaunching,
           \A h \in Requests : started[h] /\ ~completed[h] => system[h] # system[c],
           started' = [started EXCEPT ![c] = TRUE],
           UNCHANGED <<updatePlan, completed, failed>>
    PROVE  UpdateExecution!Next
<1>1. UpdateTypeOK /\ TasksInv
  BY DEF UpdateInv
<1>2. TaskStatus[c] = "waiting" /\ ~completed[c]
  BY <1>1 DEF TaskStatus, TasksInv
<1>3. ~UpdateExecution!Stopped
  BY <1>1 DEF UpdateExecution!Stopped, TaskStatus, TasksInv
<1>4. UpdateExecution!Dependencies(c) = {}
  BY DEF UpdateExecution!Dependencies
<1>5. \A h \in Requests : TaskStatus[h] = "running" => system[h] # system[c]
  BY DEF TaskStatus
<1>6. TaskStatus' = [TaskStatus EXCEPT ![c] = "running"]
  BY <1>1, <1>2 DEF TaskStatus, UpdateTypeOK
<1>7. UpdateExecution!Start(c)
  BY <1>2, <1>3, <1>4, <1>5, <1>6
  DEF UpdateExecution!Start, UpdateExecution!MayStart, UpdateExecution!plan, updatePlan
<1> QED
  BY <1>7 DEF UpdateExecution!Next

LEMMA UpdateFinishRefines ==
    ASSUME UpdateInv, NEW c \in Requests, NEW ok \in BOOLEAN,
           started[c], ~completed[c], End(c, ok), UNCHANGED <<updatePlan, started>>
    PROVE  UpdateExecution!Next
<1>1. UpdateTypeOK /\ TasksInv
  BY DEF UpdateInv
<1>2. \A j \in Requests : /\ completed'[j] = (completed[j] \/ j = c)
                          /\ failed'[j] = (failed[j] \/ (j = c /\ ~ok))
  BY <1>1, EndTasks
<1>3. TaskStatus[c] = "running" /\ ~failed[c]
  BY <1>1 DEF TaskStatus, TasksInv
<1>4. TaskStatus' = [TaskStatus EXCEPT ![c] = IF ok THEN "succeeded" ELSE "failed"]
  BY <1>2, <1>3 DEF TaskStatus
<1>5. UpdateExecution!Finish(c)
  BY <1>3, <1>4 DEF UpdateExecution!Finish, UpdateExecution!plan, updatePlan
<1> QED
  BY <1>5 DEF UpdateExecution!Next

LEMMA UpdateStepRefines == UpdateInv /\ [UpdateNext]_updateVars => [UpdateExecution!Next]_(UpdateExecution!vars)
<1> SUFFICES ASSUME UpdateInv, [UpdateNext]_updateVars
             PROVE  UpdateExecution!Next \/ UNCHANGED UpdateExecution!vars
  OBVIOUS
<1>1. UpdateTypeOK /\ TasksInv /\ UpdateThreadsInv
  BY DEF UpdateInv
<1>2. ASSUME NEW w \in Workers,
             \/ Leave(w) \/ Wait(w) \/ UpdateExecute(w) \/ LoadWord(w) \/ StoreWord(w)
             \/ UpdateNotify(w) \/ UpdateSpuriousWakeup(w)
      PROVE  UNCHANGED UpdateExecution!vars
  BY <1>2, UpdateStatusUnchanged
  DEF Leave, Wait, UpdateExecute, LoadWord, StoreWord, UpdateNotify, UpdateSpuriousWakeup, pool
<1>3. ASSUME NEW w \in Workers, UpdateTake(w) PROVE UpdateExecution!Next
  <2>1. PICK k \in Free : started' = [started EXCEPT ![readyIndices[k]] = TRUE]
    BY <1>3 DEF UpdateTake
  <2> DEFINE c == readyIndices[k]
  <2>2. c \in Requests /\ system[c] \notin busySystems /\ k \in 1 .. Len(readyIndices)
    BY <1>1 DEF Free, UpdateTypeOK
  <2>3. parallel /\ ~stopLaunching /\ UNCHANGED <<updatePlan, completed, failed>>
    BY <1>3 DEF UpdateTake
  <2>4. ~started[c]
    BY <1>1, <2>2, <2>3 DEF TasksInv
  <2>5. ASSUME NEW h \in Requests, started[h], ~completed[h]
        PROVE  system[h] # system[c]
    BY <1>1, <2>2, <2>3, <2>5 DEF UpdateThreadsInv
  <2> QED
    BY <2>1, <2>2, <2>3, <2>4, <2>5, UpdateStartRefines
<1>4. ASSUME NEW w \in Workers, UpdateComplete(w) PROVE UpdateExecution!Next
  <2>1. /\ index[w] \in Requests /\ started[index[w]] /\ ~completed[index[w]]
        /\ verdict[w] \in BOOLEAN
    BY <1>1, <1>4 DEF UpdateComplete, Working, UpdateThreadsInv, UpdateTypeOK
  <2>2. End(index[w], verdict[w]) /\ UNCHANGED <<updatePlan, started>>
    BY <1>4 DEF UpdateComplete
  <2> QED
    BY <2>1, <2>2, UpdateFinishRefines
<1>5. CASE UpdateSequentialStart
  <2>1. /\ ~parallel /\ Head(readyIndices) \in Requests /\ ~stopLaunching
        /\ readyIndices # <<>> /\ Head(readyIndices) = readyIndices[1]
        /\ ~started[Head(readyIndices)]
        /\ started' = [started EXCEPT ![Head(readyIndices)] = TRUE]
        /\ UNCHANGED <<updatePlan, completed, failed>>
    BY <1>1, <1>5 DEF UpdateSequentialStart, UpdateInSequence, UpdateTypeOK
  <2>2. \A h \in Requests : ~(started[h] /\ ~completed[h])
    BY <2>1, SequentialThreads
  <2> QED
    BY <2>1, <2>2, UpdateStartRefines
<1>6. CASE UpdateSequentialFinish
  <2>1. PICK ok \in BOOLEAN : End(Head(readyIndices), ok)
    BY <1>6 DEF UpdateSequentialFinish
  <2>2. /\ ~parallel /\ Head(readyIndices) \in Requests /\ started[Head(readyIndices)]
        /\ Head(readyIndices) = readyIndices[1] /\ 1 \in 1 .. Len(readyIndices)
        /\ UNCHANGED <<updatePlan, started>>
    BY <1>1, <1>6 DEF UpdateSequentialFinish, UpdateInSequence, UpdateTypeOK
  <2>3. ~completed[Head(readyIndices)]
    BY <1>1, <2>2 DEF TasksInv
  <2> QED
    BY <2>1, <2>2, <2>3, UpdateFinishRefines
<1>7. CASE UNCHANGED updateVars
  BY <1>7, UpdateStatusUnchanged DEF updateVars, pool
<1> QED
  BY <1>2, <1>3, <1>4, <1>5, <1>6, <1>7
  DEF UpdateNext, UpdateWorkerStep, UpdateSequential, UpdateFinished

\* updateSystems implements the abstract execution of tasks without dependencies:
\* a system is never updated twice at a time, a task never run twice, and nothing
\* starts after a failure that stops the launch.
THEOREM UpdateRefinement == UpdateSpec => UpdateImplementsExecution
<1> QED
  BY UpdateInitRefines, UpdateStepRefines, UpdateInvariant, PTL
  DEF UpdateSpec, UpdateImplementsExecution, UpdateExecution!Spec
=============================================================================
