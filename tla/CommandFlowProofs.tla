------------------------- MODULE CommandFlowProofs --------------------------
(***************************************************************************)
(* Proofs about CommandFlow for every vector of requests, every world and  *)
(* every depth of proxies: whatever is executed was validated, proxies are *)
(* followed exactly as far as they lead, temporary files are removed.      *)
(***************************************************************************)
EXTENDS CommandFlow, FiniteSetTheorems, FunctionTheorems, NaturalsInduction,
        WellFoundedInduction, TLAPS

LEMMA LeastNumber ==
    ASSUME NEW T \in SUBSET Nat, T # {}
    PROVE  \E n \in T : \A m \in T : n <= m
<1> DEFINE less == {ss \in Nat \X Nat : ss[1] < ss[2]}
<1>1. IsWellFoundedOn(less, Nat)
  BY NatLessThanWellFounded DEF OpToRel
<1>2. \A x, y \in T : <<y, x>> \in less <=> y < x
  OBVIOUS
<1> HIDE DEF less
<1>3. PICK x \in T : \A y \in T : ~(<<y, x>> \in less)
  BY <1>1, WFMin
<1>4. \A y \in T : ~(y < x)
  BY <1>2, <1>3
<1>5. \A y \in T : x <= y
  BY <1>4
<1> QED
  BY <1>5

(* Induction up to a bound: the first failure has a success before it.     *)
LEMMA FirstFailure ==
    ASSUME NEW n \in Nat, NEW S \in SUBSET (0 .. n), 0 \in S, S # 0 .. n
    PROVE  \E k \in 1 .. n : k \notin S /\ k - 1 \in S
<1> DEFINE T == {k \in 0 .. n : k \notin S}
<1>1. T \in SUBSET Nat
  OBVIOUS
<1>0. T # {}
  <2>1. \E k \in 0 .. n : k \notin S
    OBVIOUS
  <2> QED
    BY <2>1
<1>2. PICK k \in T : \A m \in T : k <= m
  BY <1>1, <1>0, LeastNumber
<1>3. k \in 0 .. n /\ k \notin S /\ k # 0
  BY <1>2
<1>4. k - 1 \in 0 .. n /\ ~(k <= k - 1)
  BY <1>3
<1>5. k - 1 \in S
  BY <1>2, <1>4
<1> QED
  BY <1>3, <1>5
-----------------------------------------------------------------------------
(* Temporary files.                                                        *)

(* Until a command ends, each file was there before or is on the list.     *)
FilesListed == pc # "done" => DOMAIN files \subseteq DOMAIN world.files \cup tempFiles

FilesInv == FilesListed /\ TempFilesRemoved

LEMMA ReturnRemoves ==
    ASSUME NEW code, FilesInv, pc # "done", Return(code), UNCHANGED world
    PROVE  FilesInv'
BY DEF FilesInv, FilesListed, TempFilesRemoved, Return, Without

LEMMA KeptFiles ==
    ASSUME FilesInv, pc # "done", pc' # "done", UNCHANGED <<files, tempFiles, world>>
    PROVE  FilesInv'
BY DEF FilesInv, FilesListed, TempFilesRemoved

LEMMA AddedFile ==
    ASSUME NEW location, NEW file, FilesInv, pc # "done", pc' = pc, UNCHANGED world,
           files' = With(location, file, files), tempFiles' = tempFiles \cup {location}
    PROVE  FilesInv'
BY DEF FilesInv, FilesListed, TempFilesRemoved, With

LEMMA FilesStep ==
    ASSUME FilesInv, [Next]_vars
    PROVE  FilesInv'
<1> USE DEF asked, OnlyPrepares
<1>1. CASE UNCHANGED vars
  BY <1>1 DEF vars, FilesInv, FilesListed, TempFilesRemoved
<1>2. ASSUME NEW ok \in BOOLEAN, RefreshRegistry(ok) PROVE FilesInv'
  BY <1>2, KeptFiles DEF RefreshRegistry, Goto
<1>3. ASSUME NEW failed, NextItem(failed), pc # "done", UNCHANGED world PROVE FilesInv'
  BY <1>3, KeptFiles, ReturnRemoves DEF NextItem
<1>4. ASSUME NEW ok \in BOOLEAN, RefreshWrapper(ok) \/ PluginInstall(ok) \/ PluginRemove(ok)
      PROVE  FilesInv'
  BY <1>3, <1>4 DEF RefreshWrapper, PluginInstall, PluginRemove
<1>5. ASSUME NEW ok \in BOOLEAN, Snapshot(ok) \/ Export(ok) PROVE FilesInv'
  BY <1>5, ReturnRemoves DEF Snapshot, Export
<1>6. CASE ExpandAndDiscover
  BY <1>6, ReturnRemoves, KeptFiles DEF ExpandAndDiscover, Goto
<1>7. CASE Dispatch
  <2>1. pc' # "done"
    BY <1>7 DEF Dispatch, Goto, Flow
  <2> QED
    BY <1>7, <2>1, KeptFiles DEF Dispatch
<1>8. CASE ListAndValidate
  BY <1>8, ReturnRemoves, KeptFiles DEF ListAndValidate, ValidateSystemWide, Goto
<1>9. ASSUME NEW failed, UpdateSystems(failed) PROVE FilesInv'
  BY <1>9, ReturnRemoves DEF UpdateSystems
<1>10. CASE SkipRequest
  BY <1>10, KeptFiles DEF SkipRequest, Preparing
<1>11. CASE Download
  BY <1>11, AddedFile DEF Download, Preparing
<1>12. CASE DownloadFails
  BY <1>12, ReturnRemoves DEF DownloadFails, Preparing
<1>13. CASE Unpack
  BY <1>13, AddedFile DEF Unpack, Preparing
<1>14. CASE UnpackThrows
  <2>1. Layer[1] = "gpg" => Inner(r.target)[1] = "decrypt"
    BY DEF Inner
  <2>2. /\ pc = "prepare" /\ pc' = "done" /\ exit' = 1 /\ world' = world
        /\ DOMAIN files' \subseteq (DOMAIN files \ (tempFiles \ LostLayers))
                                   \cup (IF Layer[1] = "gpg" THEN {Inner(r.target)} ELSE {})
    BY <1>14 DEF UnpackThrows, Preparing, With, Without
  <2>3. \A f \in DOMAIN files' \ DOMAIN world.files : f[1] = "decrypt"
    BY <2>1, <2>2 DEF FilesInv, FilesListed, LostLayers
  <2> QED
    BY <2>2, <2>3 DEF FilesInv, FilesListed, TempFilesRemoved
<1>15. CASE ResolveTarget
  BY <1>15, ReturnRemoves, KeptFiles DEF ResolveTarget, Preparing
<1>16. CASE ResolveRequests
  BY <1>16, ReturnRemoves, KeptFiles DEF ResolveRequests, Goto, Workflow
<1>17. CASE Query
  BY <1>17, ReturnRemoves DEF Query
<1>18. ASSUME NEW spec, PickSearchResult(spec) PROVE FilesInv'
  BY <1>18, KeptFiles DEF PickSearchResult, Goto
<1>19. ASSUME NEW ok \in BOOLEAN, NEW registered \in BOOLEAN, NEW written \in BOOLEAN,
              Pack(ok, registered, written)
       PROVE  FilesInv'
  BY <1>19, ReturnRemoves DEF Pack
<1>20. CASE Plan
  BY <1>20, ReturnRemoves, KeptFiles DEF Plan, PlanWith, Goto
<1>21. CASE Validate
  BY <1>21, ReturnRemoves, KeptFiles DEF Validate, ValidateGraph, Goto
<1>22. ASSUME NEW failed, Execute(failed) PROVE FilesInv'
  BY <1>22, ReturnRemoves DEF Execute
<1> QED
  BY <1>1, <1>2, <1>4, <1>5, <1>6, <1>7, <1>8, <1>9, <1>10, <1>11, <1>12, <1>13, <1>14, <1>15,
     <1>16, <1>17, <1>18, <1>19, <1>20, <1>21, <1>22 DEF Next

(* However a command ends, its temporary files are gone, except for the    *)
(* decrypted layer that extract_archive_to_temp_directory loses when the   *)
(* layer below it throws: every early return of OrchestratorDispatcher::run *)
(* cleans up.                                                              *)
THEOREM TemporaryFilesGone == Spec => []TempFilesRemoved
<1>1. Init => FilesInv
  BY DEF Init, FilesInv, FilesListed, TempFilesRemoved
<1>2. FilesInv => TempFilesRemoved
  BY DEF FilesInv
<1> QED
  BY <1>1, <1>2, FilesStep, PTL DEF Spec
-----------------------------------------------------------------------------
(* Following proxies: the steps of resolveRequest.                         *)

Bound == MAX_PROXY_RESOLUTION_DEPTH + 1

Followed(w, kn, c) == IF c.result = "more" THEN FollowProxy(w, kn, c) ELSE c

ChainStep(w, kn, q, f, k) == IF k = 0 THEN Unresolved(w, q) ELSE Followed(w, kn, f[k - 1])

(* f is the chain of q up to the step b.                                   *)
IsChain(w, kn, q, f, b) == f = [k \in 0 .. b |-> ChainStep(w, kn, q, f, k)]

ChainOver(w, kn, f) == \A k \in 1 .. Bound : f[k] = Followed(w, kn, f[k - 1])

Expands(w, q) == ~(~w.proxyExpansion \/ q.system = "")

LEMMA ChainsExist ==
    ASSUME NEW w, NEW kn, NEW q
    PROVE  \A b \in Nat : \E f : IsChain(w, kn, q, f, b)
<1> DEFINE Solved(b) == \E f : IsChain(w, kn, q, f, b)
           T == {b \in Nat : ~Solved(b)}
<1> SUFFICES ASSUME T # {} PROVE FALSE
  OBVIOUS
<1>1. PICK b \in T : \A m \in T : b <= m
  BY LeastNumber
<1>2. Solved(0)
  <2> DEFINE f == [k \in 0 .. 0 |-> Unresolved(w, q)]
  <2>1. IsChain(w, kn, q, f, 0)
    BY DEF IsChain, ChainStep
  <2> QED
    BY <2>1
<1>3. b # 0 /\ b - 1 \in Nat /\ Solved(b - 1)
  <2> HIDE DEF Solved
  <2>1. b \in Nat /\ ~Solved(b)
    BY <1>1
  <2>2. b # 0
    BY <1>2, <2>1
  <2>3. b - 1 \in Nat /\ ~(b <= b - 1)
    BY <2>1, <2>2
  <2> QED
    BY <1>1, <2>2, <2>3
<1>4. PICK f : IsChain(w, kn, q, f, b - 1)
  BY <1>3
<1> DEFINE h == [k \in 0 .. b |-> IF k = b THEN ChainStep(w, kn, q, f, b) ELSE f[k]]
<1>5. ASSUME NEW k \in 0 .. b PROVE h[k] = ChainStep(w, kn, q, h, k)
  <2>1. ChainStep(w, kn, q, h, k) = ChainStep(w, kn, q, f, k)
    <3>1. CASE k = 0
      BY <3>1 DEF ChainStep
    <3>2. CASE k # 0
      <4>1. k - 1 \in 0 .. b /\ k - 1 # b
        BY <1>3, <3>2
      <4>2. h[k - 1] = f[k - 1]
        BY <4>1
      <4> HIDE DEF h
      <4> QED
        BY <4>2 DEF ChainStep
    <3> QED
      BY <3>1, <3>2
  <2>2. h[k] = ChainStep(w, kn, q, f, k)
    <3>1. CASE k = b
      BY <3>1
    <3>2. CASE k # b
      <4>1. k \in 0 .. b - 1
        BY <1>3, <3>2
      <4> QED
        BY <1>4, <3>2, <4>1 DEF IsChain
    <3> QED
      BY <3>1, <3>2
  <2> QED
    BY <2>1, <2>2
<1>6. IsChain(w, kn, q, h, b)
  BY <1>5 DEF IsChain
<1>7. Solved(b)
  BY <1>6
<1> QED
  BY <1>1, <1>7

LEMMA BoundType == Bound \in Nat /\ Bound - 1 = MAX_PROXY_RESOLUTION_DEPTH /\ Bound > 1
BY DepthAssumption DEF Bound

(* resolveRequest is the last step of its chain.                           *)
LEMMA ChainOf ==
    ASSUME NEW w, NEW kn, NEW q
    PROVE  \E f : /\ f[0] = Unresolved(w, q)
                  /\ ChainOver(w, kn, f)
                  /\ Expands(w, q) => resolveRequest(w, kn, q) = f[Bound]
<1> DEFINE g == CHOOSE f : f = [k \in 0 .. Bound |-> ChainStep(w, kn, q, f, k)]
<1>1. g = [k \in 0 .. Bound |-> ChainStep(w, kn, q, g, k)]
  <2>1. \E f : f = [k \in 0 .. Bound |-> ChainStep(w, kn, q, f, k)]
    <3>1. \E f : IsChain(w, kn, q, f, Bound)
      BY BoundType, ChainsExist
    <3> QED
      BY <3>1 DEF IsChain
  <2> QED
    BY <2>1
<1>2. Expands(w, q) => resolveRequest(w, kn, q) = g[Bound]
  BY DEF resolveRequest, ChainStep, Followed, Bound, Expands
<1> HIDE DEF g
<1>3. \A k \in 0 .. Bound : g[k] = ChainStep(w, kn, q, g, k)
  BY <1>1
<1>4. 0 \in 0 .. Bound /\ \A k \in 1 .. Bound : k \in 0 .. Bound /\ k # 0
  BY BoundType
<1>5. g[0] = Unresolved(w, q) /\ ChainOver(w, kn, g)
  BY <1>3, <1>4 DEF ChainStep, ChainOver
<1> QED
  BY <1>2, <1>5

LEMMA NotExpanded ==
    ASSUME NEW w, NEW kn, NEW q, ~Expands(w, q)
    PROVE  resolveRequest(w, kn, q) = [request |-> q, visited |-> <<>>, result |-> "resolved"]
BY DEF Expands, resolveRequest

LEMMA NotExpandedRequest ==
    ASSUME NEW w, NEW kn, NEW q, ~Expands(w, q)
    PROVE  resolveRequest(w, kn, q).request = q /\ resolveRequest(w, kn, q).result = "resolved"
BY NotExpanded

(* A plugin counts for the resolution only by whether it can be loaded.    *)
SameLoading(w, kn, kn2) == \A s : loadPlugin(w, kn, s) <=> loadPlugin(w, kn2, s)

LEMMA FollowsAlike ==
    ASSUME NEW w, NEW kn, NEW kn2, SameLoading(w, kn, kn2), NEW c
    PROVE  Followed(w, kn, c) = Followed(w, kn2, c)
BY DEF SameLoading, Followed, FollowProxy

LEMMA ResolvesAlike ==
    ASSUME NEW w, NEW kn, NEW kn2, SameLoading(w, kn, kn2), NEW q
    PROVE  resolveRequest(w, kn, q) = resolveRequest(w, kn2, q)
<1>1. CASE ~Expands(w, q)
  BY <1>1, NotExpanded
<1>2. CASE Expands(w, q)
  <2>1. PICK f : /\ f[0] = Unresolved(w, q)
                 /\ ChainOver(w, kn, f)
                 /\ resolveRequest(w, kn, q) = f[Bound]
    BY <1>2, ChainOf
  <2>2. PICK g : /\ g[0] = Unresolved(w, q)
                 /\ ChainOver(w, kn2, g)
                 /\ resolveRequest(w, kn2, q) = g[Bound]
    BY <1>2, ChainOf
  <2> DEFINE S == {k \in 0 .. Bound : f[k] = g[k]}
  <2>3. 0 \in S
    BY <2>1, <2>2, BoundType
  <2>4. ASSUME NEW k \in 1 .. Bound, k - 1 \in S PROVE k \in S
    <3>1. f[k - 1] = g[k - 1]
      BY <2>4
    <3>2. f[k] = g[k]
      BY <2>1, <2>2, <3>1, FollowsAlike DEF ChainOver
    <3> QED
      BY <3>2, BoundType
  <2>5. S = 0 .. Bound
    <3> S \in SUBSET (0 .. Bound)
      OBVIOUS
    <3> HIDE DEF S
    <3> QED
      BY <2>3, <2>4, FirstFailure, BoundType
  <2>6. Bound \in S
    BY <2>5, BoundType
  <2> QED
    BY <2>1, <2>2, <2>6
<1> QED
  BY <1>1, <1>2

(* Fetching plugins for which the registry has a record changes nothing.   *)
LEMMA LoadingKeeps ==
    ASSUME NEW w, NEW kn, NEW S, NEW kn2, kn2.records = kn.records,
           kn2.plugins = AfterLoading(w, kn, S)
    PROVE  SameLoading(w, kn, kn2)
BY DEF SameLoading, loadPlugin, AfterLoading, Fetchable
-----------------------------------------------------------------------------
(* One step along a proxy.                                                 *)

IsLink(c) == /\ c = [request |-> c.request, visited |-> c.visited, result |-> c.result]
             /\ IsRequest(c.request) /\ IsSequence(c.visited)

ProxiesOf(w, kn) == {s \in DOMAIN w.proxy : loadPlugin(w, kn, s)}
TargetIn(w, s) == resolvePluginName(w, w.proxy[s].target)

(* The proxy s may send a request for verb on to t.                        *)
Hops(w, kn, verb, s, t) ==
    /\ s \in ProxiesOf(w, kn) /\ w.proxy[s].answers /\ TargetIn(w, s) = t
    /\ t \notin {"", s} /\ AllowedTarget(w, s, t)
    /\ verb # "INSTALL" \/ w.proxy[s].local = NoTarget \/ w.proxy[s].renames = <<>>

LEMMA RequestFields ==
    ASSUME NEW a, NEW s, NEW p, NEW t, NEW f
    PROVE  LET q == Request(a, s, p, t, f) IN
           /\ q.action = a /\ q.system = s /\ q.packages = p /\ q.target = t /\ q.flags = f
           /\ IsSequence(p) => IsRequest(q)
BY DEF Request, IsRequest

LEMMA SystemChanged ==
    ASSUME NEW q, IsRequest(q), NEW s
    PROVE  [q EXCEPT !.system = s] = Request(q.action, s, q.packages, q.target, q.flags)
BY DEF IsRequest, Request

LEMMA PackagesChanged ==
    ASSUME NEW q, IsRequest(q), NEW p
    PROVE  [q EXCEPT !.packages = p] = Request(q.action, q.system, p, q.target, q.flags)
BY DEF IsRequest, Request

LEMMA TargetChanged ==
    ASSUME NEW q, IsRequest(q), NEW t
    PROVE  [q EXCEPT !.target = t] = Request(q.action, q.system, q.packages, t, q.flags)
BY DEF IsRequest, Request

LEMMA EmptySequence == IsSequence(<<>>)
BY DEF IsSequence

(* The answer to a request that is no install only names another system.   *)
LEMMA AnswerKeeps ==
    ASSUME NEW w, IsWorld(w), NEW s \in DOMAIN w.proxy, NEW verb
    PROVE  LET a == resolveProxyRequest(w, verb, s) IN
           /\ IsSequence(a.renames)
           /\ verb # "INSTALL" => a.local = NoTarget /\ a.renames = <<>>
           /\ (a.local # NoTarget /\ a.renames # <<>>)
                 <=> ~(verb # "INSTALL" \/ w.proxy[s].local = NoTarget \/ w.proxy[s].renames = <<>>)
<1>1. IsAnswer(w.proxy[s])
  BY DEF IsWorld
<1> DEFINE b == w.proxy[s]
<1>2. b = [answers |-> b.answers, target |-> b.target, renames |-> b.renames, local |-> b.local]
  BY <1>1 DEF IsAnswer
<1> HIDE DEF b
<1>3. LET a == [b EXCEPT !.renames = <<>>, !.local = NoTarget] IN a.renames = <<>> /\ a.local = NoTarget
  BY <1>2
<1> QED
  BY <1>1, <1>3, EmptySequence DEF resolveProxyRequest, IsAnswer, b

LEMMA AnsweredRequest ==
    ASSUME NEW q, IsRequest(q), NEW t, NEW a, IsSequence(a.renames)
    PROVE  LET new == Answered(q, t, a) IN
           /\ IsRequest(new) /\ new.system = t /\ new.action = q.action
           /\ a.local = NoTarget /\ a.renames = <<>> =>
                new = Request(q.action, t, q.packages, q.target, q.flags)
<1> DEFINE p == IF a.local # NoTarget THEN <<>>
                ELSE IF a.renames # <<>> THEN a.renames ELSE q.packages
           g == IF a.local # NoTarget THEN a.local
                ELSE IF a.renames # <<>> THEN NoTarget ELSE q.target
<1>1. Answered(q, t, a) = [q EXCEPT !.system = t, !.packages = p, !.target = g]
  BY DEF Answered
<1>2. IsSequence(p)
  BY EmptySequence DEF IsRequest
<1>3. a.local = NoTarget /\ a.renames = <<>> => p = q.packages /\ g = q.target
  OBVIOUS
<1> HIDE DEF p, g
<1>4. [q EXCEPT !.system = t, !.packages = p, !.target = g] = Request(q.action, t, p, g, q.flags)
  <2> DEFINE q1 == [q EXCEPT !.system = t]
             q2 == [q1 EXCEPT !.packages = p]
  <2>1. [q EXCEPT !.system = t, !.packages = p, !.target = g] = [q2 EXCEPT !.target = g]
    OBVIOUS
  <2>2. q1 = Request(q.action, t, q.packages, q.target, q.flags)
    BY SystemChanged
  <2>3. IsSequence(q.packages)
    BY DEF IsRequest
  <2> HIDE DEF q1
  <2>4. q2 = Request(q.action, t, p, q.target, q.flags)
    BY <2>2, <2>3, RequestFields, PackagesChanged
  <2> HIDE DEF q2
  <2> QED
    BY <1>2, <2>1, <2>4, RequestFields, TargetChanged
<1> QED
  BY <1>1, <1>2, <1>3, <1>4, RequestFields

LEMMA EndedLink ==
    ASSUME NEW c, IsLink(c), NEW result
    PROVE  LET d == Ended(c, result) IN
           /\ IsLink(d) /\ d.result = result /\ d.request = c.request /\ d.visited = c.visited
BY DEF IsLink, Ended

LEMMA SeqIsSequence ==
    ASSUME NEW T, NEW seq \in Seq(T)
    PROVE  IsSequence(seq) /\ DOMAIN seq = 1 .. Len(seq)
BY DEF IsSequence

LEMMA SequenceIsSeq ==
    ASSUME NEW seq, IsSequence(seq)
    PROVE  /\ seq \in Seq({seq[i] : i \in 1 .. Len(seq)})
           /\ DOMAIN seq = 1 .. Len(seq)
BY DEF IsSequence

LEMMA AppendSequence ==
    ASSUME NEW seq, IsSequence(seq), NEW e
    PROVE  LET new == Append(seq, e) IN
           /\ IsSequence(new) /\ Len(new) = Len(seq) + 1
           /\ \A i \in 1 .. Len(seq) : new[i] = seq[i]
           /\ new[Len(seq) + 1] = e
<1> DEFINE T == {seq[i] : i \in 1 .. Len(seq)} \cup {e}
<1>1. seq \in Seq(T) /\ e \in T
  BY DEF IsSequence
<1> HIDE DEF T
<1>2. Append(seq, e) \in Seq(T)
  BY <1>1
<1>3. IsSequence(Append(seq, e))
  BY <1>2, SeqIsSequence
<1> QED
  BY <1>1, <1>3

(* What one step may make of a chain: it ends, or takes a hop.             *)
EndsAt(w, kn, c) ==
    \/ c.request.system = ""
    \/ Len(c.visited) < MAX_PROXY_RESOLUTION_DEPTH /\ c.request.system \notin ProxiesOf(w, kn)
HopsAt(w, kn, c) ==
    /\ c.request.system # "" /\ Len(c.visited) < MAX_PROXY_RESOLUTION_DEPTH
    /\ ~Contains(c.visited, c.request.system)
    /\ Hops(w, kn, c.request.action, c.request.system, TargetIn(w, c.request.system))

LEMMA Below ==
    ASSUME NEW c, IsLink(c)
    PROVE  /\ Len(c.visited) \in Nat
           /\ Len(c.visited) < MAX_PROXY_RESOLUTION_DEPTH
                 <=> ~(Len(c.visited) >= MAX_PROXY_RESOLUTION_DEPTH)
<1> DEFINE n == Len(c.visited)
<1>1. n \in Nat
  BY DEF IsLink, IsSequence
<1> HIDE DEF n
<1>2. n < MAX_PROXY_RESOLUTION_DEPTH <=> ~(n >= MAX_PROXY_RESOLUTION_DEPTH)
  BY <1>1, DepthAssumption
<1> QED
  BY <1>1, <1>2 DEF n

LEMMA FollowEnds ==
    ASSUME NEW w, NEW kn, NEW c, IsLink(c), c.result = "more", EndsAt(w, kn, c)
    PROVE  Followed(w, kn, c) = Ended(c, "resolved")
<1>1. c.request.system # "" => ~(Len(c.visited) >= MAX_PROXY_RESOLUTION_DEPTH)
  BY Below DEF EndsAt
<1> QED
  BY <1>1 DEF EndsAt, ProxiesOf, Followed, FollowProxy

LEMMA FollowHops ==
    ASSUME NEW w, IsWorld(w), NEW kn, NEW c, IsLink(c), c.result = "more", HopsAt(w, kn, c)
    PROVE  LET d == Followed(w, kn, c)
               s == c.request.system
           IN  /\ IsLink(d) /\ d.result = "more" /\ d.visited = Append(c.visited, s)
               /\ d.request.system = TargetIn(w, s) /\ d.request.action = c.request.action
               /\ c.request.action # "INSTALL" =>
                    d.request = Request(c.request.action, TargetIn(w, s), c.request.packages,
                                        c.request.target, c.request.flags)
<1> DEFINE s == c.request.system
           t == TargetIn(w, s)
           a == resolveProxyRequest(w, c.request.action, s)
           d == [request |-> Answered(c.request, t, a), visited |-> Append(c.visited, s),
                 result |-> "more"]
<1>1. ~(Len(c.visited) >= MAX_PROXY_RESOLUTION_DEPTH)
  BY Below DEF HopsAt
<1>2. s \in DOMAIN w.proxy /\ loadPlugin(w, kn, s) /\ w.proxy[s].answers
  BY DEF HopsAt, Hops, ProxiesOf
<1>3. t \notin {"", s} /\ AllowedTarget(w, s, t)
  BY DEF HopsAt, Hops
<1>4. ~(a.local # NoTarget /\ a.renames # <<>>) /\ IsSequence(a.renames)
  BY <1>2, AnswerKeeps DEF HopsAt, Hops
<1>5. Followed(w, kn, c) = FollowAnswer(w, c, t, a)
  BY <1>1, <1>2 DEF HopsAt, Followed, FollowProxy, TargetIn
<1>6. FollowAnswer(w, c, t, a) = d
  BY <1>3, <1>4 DEF FollowAnswer
<1>7. IsRequest(c.request) /\ IsSequence(c.visited)
  BY DEF IsLink
<1>8. /\ IsRequest(d.request) /\ d.request.system = t /\ d.request.action = c.request.action
      /\ c.request.action # "INSTALL" =>
            d.request = Request(c.request.action, t, c.request.packages,
                                c.request.target, c.request.flags)
  BY <1>2, <1>4, <1>7, AnsweredRequest, AnswerKeeps
<1>9. IsSequence(d.visited)
  BY <1>7, AppendSequence
<1>10. d = [request |-> d.request, visited |-> d.visited, result |-> d.result] /\ d.result = "more"
       /\ d.visited = Append(c.visited, s)
  OBVIOUS
<1> HIDE DEF d
<1>11. IsLink(d)
  BY <1>8, <1>9, <1>10 DEF IsLink
<1> QED
  BY <1>5, <1>6, <1>8, <1>10, <1>11

LEMMA FollowFails ==
    ASSUME NEW w, IsWorld(w), NEW kn, NEW c, IsLink(c), c.result = "more",
           ~EndsAt(w, kn, c), ~HopsAt(w, kn, c)
    PROVE  Followed(w, kn, c) = Ended(c, "error")
<1> DEFINE s == c.request.system
           t == TargetIn(w, s)
           a == resolveProxyRequest(w, c.request.action, s)
<1>1. s # ""
  BY DEF EndsAt
<1>2. CASE Len(c.visited) >= MAX_PROXY_RESOLUTION_DEPTH
  BY <1>1, <1>2 DEF Followed, FollowProxy
<1>3. CASE ~(Len(c.visited) >= MAX_PROXY_RESOLUTION_DEPTH)
  <2>1. Len(c.visited) < MAX_PROXY_RESOLUTION_DEPTH
    BY <1>3, Below
  <2>2. s \in DOMAIN w.proxy /\ loadPlugin(w, kn, s)
    BY <2>1 DEF EndsAt, ProxiesOf
  <2>3. CASE Contains(c.visited, s) \/ ~w.proxy[s].answers
    BY <1>1, <1>3, <2>2, <2>3 DEF Followed, FollowProxy
  <2>4. CASE ~(Contains(c.visited, s) \/ ~w.proxy[s].answers)
    <3>1. Followed(w, kn, c) = FollowAnswer(w, c, t, a)
      BY <1>1, <1>3, <2>2, <2>4 DEF Followed, FollowProxy, TargetIn
    <3>2. (a.local # NoTarget /\ a.renames # <<>>)
             <=> ~(c.request.action # "INSTALL" \/ w.proxy[s].local = NoTarget
                   \/ w.proxy[s].renames = <<>>)
      BY <2>2, AnswerKeeps
    <3>3. \/ t \in {"", s} \/ ~AllowedTarget(w, s, t)
          \/ a.local # NoTarget /\ a.renames # <<>>
      <4>1. ~Hops(w, kn, c.request.action, s, t)
        BY <1>1, <2>1, <2>4 DEF HopsAt
      <4> QED
        BY <2>2, <2>4, <3>2, <4>1 DEF Hops, ProxiesOf
    <3> QED
      BY <3>1, <3>3 DEF FollowAnswer
  <2> QED
    BY <2>3, <2>4
<1> QED
  BY <1>2, <1>3

LEMMA FirstLink ==
    ASSUME NEW w, NEW q, IsRequest(q)
    PROVE  LET c == Unresolved(w, q)
               s == resolvePluginName(w, q.system)
           IN  /\ IsLink(c) /\ c.result = "more" /\ c.visited = <<>>
               /\ c.request = Request(q.action, s, q.packages, q.target, q.flags)
               /\ c.request.system = s /\ c.request.action = q.action
<1> DEFINE s == resolvePluginName(w, q.system)
           new == Request(q.action, s, q.packages, q.target, q.flags)
           c == [request |-> new, visited |-> <<>>, result |-> "more"]
<1>1. Unresolved(w, q) = c
  BY SystemChanged DEF Unresolved
<1>2. IsRequest(new) /\ new.system = s /\ new.action = q.action
  BY RequestFields DEF IsRequest
<1> HIDE DEF new
<1>3. IsLink(c)
  BY <1>2, EmptySequence DEF IsLink
<1> QED
  BY <1>1, <1>2, <1>3 DEF new
-----------------------------------------------------------------------------
(* The whole chain.                                                        *)

(* The systems visited lead from s to where the chain has got.             *)
Trail(w, kn, verb, s, c) ==
    /\ Len(c.visited) = 0 => c.request.system = s
    /\ Len(c.visited) # 0 => c.visited[1] = s
    /\ \A j \in 1 .. Len(c.visited) :
          Hops(w, kn, verb, c.visited[j],
               IF j = Len(c.visited) THEN c.request.system ELSE c.visited[j + 1])

ChainInv(w, kn, q, c, k) ==
    /\ IsLink(c) /\ c.request.action = q.action
    /\ Trail(w, kn, q.action, resolvePluginName(w, q.system), c)
    /\ resolvePluginName(w, c.request.system) = c.request.system
    /\ c.result \in {"more", "resolved", "error"}
    /\ c.result = "more" => Len(c.visited) = k
    /\ c.result = "resolved" => EndsAt(w, kn, c)
    /\ q.action # "INSTALL" =>
          c.request = Request(q.action, c.request.system, q.packages, q.target, q.flags)

LEMMA NamesResolved ==
    ASSUME NEW w, IsWorld(w), NEW s
    PROVE  resolvePluginName(w, resolvePluginName(w, s)) = resolvePluginName(w, s)
BY DEF IsWorld, resolvePluginName

LEMMA EndedInv ==
    ASSUME NEW w, NEW kn, NEW q, NEW c, NEW k, NEW m, ChainInv(w, kn, q, c, k),
           NEW result \in {"resolved", "error"}, result = "resolved" => EndsAt(w, kn, c)
    PROVE  ChainInv(w, kn, q, Ended(c, result), m)
<1> DEFINE d == Ended(c, result)
<1>1. IsLink(d) /\ d.result = result /\ d.request = c.request /\ d.visited = c.visited
  BY EndedLink DEF ChainInv
<1> HIDE DEF d
<1>2. Trail(w, kn, q.action, resolvePluginName(w, q.system), d)
  BY <1>1 DEF ChainInv, Trail
<1>3. result = "resolved" => EndsAt(w, kn, d)
  BY <1>1 DEF EndsAt
<1>4. ChainInv(w, kn, q, d, m)
  BY <1>1, <1>2, <1>3 DEF ChainInv
<1> QED
  BY <1>4 DEF d

LEMMA HopInv ==
    ASSUME NEW w, IsWorld(w), NEW kn, NEW q, NEW c, NEW k \in Nat, ChainInv(w, kn, q, c, k),
           c.result = "more", HopsAt(w, kn, c)
    PROVE  ChainInv(w, kn, q, Followed(w, kn, c), k + 1)
<1> DEFINE d == Followed(w, kn, c)
           s == c.request.system
           t == TargetIn(w, s)
           old == c.visited
           new == d.visited
<1>1. /\ IsLink(d) /\ d.result = "more" /\ new = Append(old, s)
      /\ d.request.system = t /\ d.request.action = c.request.action
      /\ c.request.action # "INSTALL" =>
            d.request = Request(c.request.action, t, c.request.packages,
                                c.request.target, c.request.flags)
  BY FollowHops DEF ChainInv
<1>2. /\ IsLink(c) /\ c.request.action = q.action /\ Len(old) = k /\ IsSequence(old)
      /\ Trail(w, kn, q.action, resolvePluginName(w, q.system), c)
  BY DEF ChainInv, IsLink
<1>3. Hops(w, kn, q.action, s, t)
  BY <1>2 DEF HopsAt
<1>4. resolvePluginName(w, t) = t
  BY NamesResolved DEF TargetIn
<1>5. q.action # "INSTALL" => d.request = Request(q.action, t, q.packages, q.target, q.flags)
  <2> SUFFICES ASSUME q.action # "INSTALL"
               PROVE  d.request = Request(q.action, t, q.packages, q.target, q.flags)
    OBVIOUS
  <2>1. c.request = Request(q.action, s, q.packages, q.target, q.flags)
    BY DEF ChainInv
  <2>2. c.request.packages = q.packages /\ c.request.target = q.target /\ c.request.flags = q.flags
    BY <2>1, RequestFields
  <2> QED
    BY <1>1, <1>2, <2>2
<1> HIDE DEF d, t
<1>6. /\ Len(new) = k + 1 /\ new[k + 1] = s /\ \A i \in 1 .. k : new[i] = old[i]
  BY <1>1, <1>2, AppendSequence
<1>7. Trail(w, kn, q.action, resolvePluginName(w, q.system), d)
  <2> DEFINE s0 == resolvePluginName(w, q.system)
  <2>1. new[1] = s0
    <3>1. CASE k = 0
      BY <1>2, <1>6, <3>1 DEF Trail
    <3>2. CASE k # 0
      BY <1>2, <1>6, <3>2 DEF Trail
    <3> QED
      BY <3>1, <3>2
  <2>2. ASSUME NEW j \in 1 .. k + 1
        PROVE  Hops(w, kn, q.action, new[j], IF j = k + 1 THEN t ELSE new[j + 1])
    <3>1. CASE j = k + 1
      BY <1>3, <1>6, <3>1
    <3>2. CASE j = k
      <4>1. j \in 1 .. k /\ j # k + 1 /\ j + 1 = k + 1
        BY <3>2, <2>2
      <4>2. Hops(w, kn, q.action, old[j], s)
        BY <1>2, <3>2, <4>1 DEF Trail
      <4> QED
        BY <1>6, <4>1, <4>2
    <3>3. CASE j # k /\ j # k + 1
      <4>1. j \in 1 .. k /\ j + 1 \in 1 .. k
        BY <3>3, <2>2
      <4>2. Hops(w, kn, q.action, old[j], old[j + 1])
        BY <1>2, <3>3, <4>1 DEF Trail
      <4> QED
        BY <1>6, <3>3, <4>1, <4>2
    <3> QED
      BY <3>1, <3>2, <3>3
  <2>3. Len(new) # 0
    BY <1>6
  <2> QED
    BY <1>1, <1>6, <2>1, <2>2, <2>3 DEF Trail
<1>8. ChainInv(w, kn, q, d, k + 1)
  BY <1>1, <1>2, <1>4, <1>5, <1>6, <1>7 DEF ChainInv
<1> QED
  BY <1>8 DEF d

LEMMA ChainInvStep ==
    ASSUME NEW w, IsWorld(w), NEW kn, NEW q, NEW c, NEW k \in Nat, ChainInv(w, kn, q, c, k)
    PROVE  ChainInv(w, kn, q, Followed(w, kn, c), k + 1)
<1>1. IsLink(c)
  BY DEF ChainInv
<1>2. CASE c.result # "more"
  <2>1. Followed(w, kn, c) = c
    BY <1>2 DEF Followed
  <2> QED
    BY <1>2, <2>1 DEF ChainInv
<1>3. CASE c.result = "more" /\ EndsAt(w, kn, c)
  BY <1>1, <1>3, FollowEnds, EndedInv
<1>4. CASE c.result = "more" /\ HopsAt(w, kn, c)
  BY <1>4, HopInv
<1>5. CASE c.result = "more" /\ ~EndsAt(w, kn, c) /\ ~HopsAt(w, kn, c)
  BY <1>1, <1>5, FollowFails, EndedInv
<1> QED
  BY <1>2, <1>3, <1>4, <1>5

LEMMA ChainFacts ==
    ASSUME NEW w, IsWorld(w), NEW kn, NEW q, IsRequest(q), NEW f, f[0] = Unresolved(w, q),
           ChainOver(w, kn, f)
    PROVE  /\ \A k \in 0 .. Bound : ChainInv(w, kn, q, f[k], k)
           /\ f[Bound].result # "more"
<1> DEFINE S == {k \in 0 .. Bound : ChainInv(w, kn, q, f[k], k)}
<1>1. ChainInv(w, kn, q, f[0], 0)
  <2> DEFINE c == f[0]
  <2>1. /\ IsLink(c) /\ c.result = "more" /\ c.visited = <<>>
        /\ c.request = Request(q.action, resolvePluginName(w, q.system), q.packages, q.target, q.flags)
        /\ c.request.system = resolvePluginName(w, q.system) /\ c.request.action = q.action
    BY FirstLink
  <2> HIDE DEF c
  <2>2. Len(c.visited) = 0
    BY <2>1
  <2>3. Trail(w, kn, q.action, resolvePluginName(w, q.system), c)
    BY <2>1, <2>2 DEF Trail
  <2>4. ChainInv(w, kn, q, c, 0)
    BY <2>1, <2>2, <2>3, NamesResolved DEF ChainInv
  <2> QED
    BY <2>4 DEF c
<1>2. 0 \in S
  BY <1>1, BoundType
<1>3. ASSUME NEW k \in 1 .. Bound, k - 1 \in S PROVE k \in S
  <2>1. k - 1 \in Nat /\ (k - 1) + 1 = k /\ k \in 0 .. Bound
    BY BoundType
  <2>2. ChainInv(w, kn, q, f[k - 1], k - 1) /\ f[k] = Followed(w, kn, f[k - 1])
    BY <1>3 DEF ChainOver
  <2>3. ChainInv(w, kn, q, f[k], (k - 1) + 1)
    BY <2>1, <2>2, ChainInvStep
  <2> QED
    BY <2>1, <2>3
<1>4. S = 0 .. Bound
  <2> S \in SUBSET (0 .. Bound)
    OBVIOUS
  <2> HIDE DEF S
  <2> QED
    BY <1>2, <1>3, FirstFailure, BoundType
<1>5. f[Bound].result # "more"
  <2> DEFINE b == Bound - 1
             c == f[b]
  <2>1. b \in 0 .. Bound /\ f[Bound] = Followed(w, kn, c) /\ b = MAX_PROXY_RESOLUTION_DEPTH
    BY BoundType DEF ChainOver
  <2>2. ChainInv(w, kn, q, c, b)
    BY <1>4, <2>1
  <2> HIDE DEF b, c
  <2>3. IsLink(c)
    BY <2>2 DEF ChainInv
  <2>4. CASE c.result # "more"
    BY <2>1, <2>4 DEF Followed
  <2>5. CASE c.result = "more"
    <3>1. ~HopsAt(w, kn, c)
      <4>1. Len(c.visited) = MAX_PROXY_RESOLUTION_DEPTH
        BY <2>1, <2>2, <2>5 DEF ChainInv
      <4>2. ~(MAX_PROXY_RESOLUTION_DEPTH < MAX_PROXY_RESOLUTION_DEPTH)
        BY DepthAssumption
      <4> QED
        BY <4>1, <4>2 DEF HopsAt
    <3>2. f[Bound] = Ended(c, "resolved") \/ f[Bound] = Ended(c, "error")
      BY <2>1, <2>3, <2>5, <3>1, FollowEnds, FollowFails
    <3> QED
      BY <2>3, <3>2, EndedLink
  <2> QED
    BY <2>4, <2>5
<1> QED
  BY <1>4, <1>5
-----------------------------------------------------------------------------
(* Where the proxies of a system lead.                                     *)

(* The systems of path, from s to one that is no proxy.                    *)
IsPath(w, kn, verb, s, n, path) ==
    /\ path \in [1 .. n -> ProxiesOf(w, kn)]
    /\ path[1] = s /\ TargetIn(w, path[n]) \notin ProxiesOf(w, kn)
    /\ \A k \in 1 .. n :
          Hops(w, kn, verb, path[k], IF k = n THEN TargetIn(w, path[n]) ELSE path[k + 1])

LeadsIn(w, kn, verb, s) ==
    \/ s \notin ProxiesOf(w, kn)
    \/ \E n \in 1 .. MAX_PROXY_RESOLUTION_DEPTH - 1 : \E path \in [1 .. n -> ProxiesOf(w, kn)] :
          IsPath(w, kn, verb, s, n, path)

(* A chain that is resolved has followed a path.                           *)
LEMMA ResolvedLeads ==
    ASSUME NEW w, IsWorld(w), NEW kn, NEW q, NEW c, NEW k, ChainInv(w, kn, q, c, k),
           c.result = "resolved"
    PROVE  LeadsIn(w, kn, q.action, resolvePluginName(w, q.system))
<1> DEFINE n == Len(c.visited)
           s0 == resolvePluginName(w, q.system)
           t == c.request.system
<1>1. "" \notin ProxiesOf(w, kn)
  BY DEF IsWorld, ProxiesOf, loadPlugin, resolvePluginName
<1>2. IsLink(c) /\ EndsAt(w, kn, c) /\ Trail(w, kn, q.action, s0, c)
  BY DEF ChainInv
<1>3. t \notin ProxiesOf(w, kn)
  BY <1>1, <1>2 DEF EndsAt
<1>4. CASE n = 0
  BY <1>2, <1>3, <1>4 DEF Trail, LeadsIn
<1>5. CASE n # 0
  <2>1. n \in Nat /\ IsSequence(c.visited)
    BY <1>2, Below DEF IsLink
  <2> DEFINE path == c.visited
  <2>2. \A j \in 1 .. n : Hops(w, kn, q.action, path[j], IF j = n THEN t ELSE path[j + 1])
    BY <1>2 DEF Trail
  <2>3. path \in [1 .. n -> ProxiesOf(w, kn)]
    <3>1. \A j \in 1 .. n : path[j] \in ProxiesOf(w, kn)
      BY <2>2 DEF Hops
    <3>2. path = [j \in 1 .. n |-> path[j]]
      BY <2>1 DEF IsSequence
    <3> HIDE DEF path, n
    <3> QED
      BY <3>1, <3>2
  <2>4. n \in 1 .. n
    BY <1>5, <2>1
  <2>5. Hops(w, kn, q.action, path[n], t)
    BY <2>2, <2>4
  <2>6. TargetIn(w, path[n]) = t /\ t # ""
    BY <2>5 DEF Hops
  <2>7. n < MAX_PROXY_RESOLUTION_DEPTH
    BY <1>2, <2>6 DEF EndsAt
  <2>8. path[1] = s0
    BY <1>2, <1>5 DEF Trail
  <2>9. IsPath(w, kn, q.action, s0, n, path)
    BY <1>3, <2>2, <2>3, <2>6, <2>8 DEF IsPath
  <2>10. n \in 1 .. MAX_PROXY_RESOLUTION_DEPTH - 1
    <3> HIDE DEF n
    <3> QED
      BY <1>5, <2>1, <2>7, DepthAssumption
  <2> HIDE DEF path, n
  <2> QED
    BY <2>3, <2>9, <2>10 DEF LeadsIn
<1> QED
  BY <1>4, <1>5

(* A path that ends outside the proxies does not meet itself.              *)
LEMMA PathDistinct ==
    ASSUME NEW w, NEW kn, NEW verb, NEW s, NEW n \in Nat, NEW path,
           IsPath(w, kn, verb, s, n, path), NEW i \in 1 .. n, NEW j \in 1 .. n, i < j
    PROVE  path[i] # path[j]
<1> SUFFICES ASSUME path[i] = path[j] PROVE FALSE
  OBVIOUS
<1> DEFINE S == {m \in 0 .. n - j : path[i + m] = path[j + m]}
<1>1. ASSUME NEW k \in 1 .. n, k # n
      PROVE  path[k + 1] = TargetIn(w, path[k]) /\ path[k + 1] \in ProxiesOf(w, kn)
  <2>1. k + 1 \in 1 .. n
    BY <1>1
  <2> QED
    BY <1>1, <2>1 DEF IsPath, Hops
<1>2. 0 \in S
  OBVIOUS
<1>3. ASSUME NEW m \in 1 .. n - j, m - 1 \in S PROVE m \in S
  <2>1. /\ i + (m - 1) \in 1 .. n /\ i + (m - 1) # n /\ (i + (m - 1)) + 1 = i + m
        /\ j + (m - 1) \in 1 .. n /\ j + (m - 1) # n /\ (j + (m - 1)) + 1 = j + m
        /\ m \in 0 .. n - j
    OBVIOUS
  <2>2. path[i + m] = TargetIn(w, path[i + (m - 1)]) /\ path[j + m] = TargetIn(w, path[j + (m - 1)])
    BY <1>1, <2>1
  <2>3. path[i + (m - 1)] = path[j + (m - 1)]
    BY <1>3
  <2> QED
    BY <2>1, <2>2, <2>3
<1>4. S = 0 .. n - j
  <2>1. S \in SUBSET (0 .. n - j) /\ n - j \in Nat
    OBVIOUS
  <2> HIDE DEF S
  <2> QED
    BY <1>2, <1>3, <2>1, FirstFailure
<1>5. n - j \in S
  BY <1>4
<1>6. path[i + (n - j)] = path[n]
  <2>1. j + (n - j) = n
    OBVIOUS
  <2> QED
    BY <1>5, <2>1
<1>7. i + (n - j) \in 1 .. n /\ i + (n - j) # n
  OBVIOUS
<1>8. TargetIn(w, path[n]) \in ProxiesOf(w, kn)
  BY <1>1, <1>6, <1>7
<1> QED
  BY <1>8 DEF IsPath

LEMMA StaysEnded ==
    ASSUME NEW w, NEW kn, NEW f, ChainOver(w, kn, f),
           NEW m \in 0 .. Bound, f[m].result # "more"
    PROVE  f[Bound] = f[m]
<1> DEFINE S == {k \in 0 .. Bound - m : f[m + k] = f[m]}
<1>1. 0 \in S
  <2>1. m + 0 = m /\ 0 \in 0 .. Bound - m
    BY BoundType
  <2> QED
    BY <2>1
<1>2. ASSUME NEW k \in 1 .. Bound - m, k - 1 \in S PROVE k \in S
  <2>1. m + k \in 1 .. Bound /\ (m + k) - 1 = m + (k - 1) /\ k \in 0 .. Bound - m
    BY BoundType
  <2>2. f[m + k] = Followed(w, kn, f[m + (k - 1)])
    BY <2>1 DEF ChainOver
  <2>3. f[m + k] = f[m]
    BY <1>2, <2>2 DEF Followed
  <2> QED
    BY <2>1, <2>3
<1>3. S = 0 .. Bound - m
  <2>1. S \in SUBSET (0 .. Bound - m) /\ Bound - m \in Nat
    BY BoundType
  <2> HIDE DEF S
  <2> QED
    BY <1>1, <1>2, <2>1, FirstFailure
<1>4. Bound - m \in S /\ m + (Bound - m) = Bound
  BY <1>3, BoundType
<1> QED
  BY <1>4

(* A chain follows a path to its end.                                      *)
LEMMA PathFollowed ==
    ASSUME NEW w, IsWorld(w), NEW kn, NEW q, IsRequest(q), NEW f, f[0] = Unresolved(w, q),
           ChainOver(w, kn, f),
           NEW n \in 1 .. MAX_PROXY_RESOLUTION_DEPTH - 1, NEW path,
           IsPath(w, kn, q.action, resolvePluginName(w, q.system), n, path)
    PROVE  f[n].result = "more" /\ f[n].request.system = TargetIn(w, path[n])
<1> DEFINE Next1(k) == IF k = n THEN TargetIn(w, path[n]) ELSE path[k + 1]
           On(k) == /\ f[k].result = "more" /\ f[k].request.system = Next1(k)
                    /\ \A i \in 1 .. k : f[k].visited[i] = path[i]
           S == {k \in 0 .. n : On(k)}
<1>1. \A k \in 0 .. Bound : ChainInv(w, kn, q, f[k], k)
  BY ChainFacts
<1>2. n \in Nat /\ n # 0 /\ n < MAX_PROXY_RESOLUTION_DEPTH /\ n < Bound
  BY DepthAssumption DEF Bound
<1>3. 0 \in S
  <2>1. /\ f[0].result = "more" /\ f[0].request.system = resolvePluginName(w, q.system)
    BY FirstLink
  <2>2. Next1(0) = resolvePluginName(w, q.system)
    BY <1>2 DEF IsPath
  <2> QED
    BY <1>2, <2>1, <2>2
<1>4. ASSUME NEW k \in 1 .. n, k - 1 \in S PROVE k \in S
  <2> DEFINE c == f[k - 1]
             d == f[k]
             s == c.request.system
  <2>1. /\ k \in 1 .. Bound /\ k - 1 \in 0 .. Bound /\ k - 1 # n /\ (k - 1) + 1 = k /\ k \in 0 .. n
        /\ k - 1 < MAX_PROXY_RESOLUTION_DEPTH /\ k - 1 \in Nat
    BY <1>2, BoundType, DepthAssumption
  <2>2. c.result = "more" /\ s = path[k] /\ \A i \in 1 .. k - 1 : c.visited[i] = path[i]
    BY <1>4, <2>1
  <2>3. d = Followed(w, kn, c) /\ ChainInv(w, kn, q, c, k - 1)
    BY <1>1, <2>1 DEF ChainOver
  <2> HIDE DEF c, d
  <2>4. IsLink(c) /\ c.request.action = q.action /\ Len(c.visited) = k - 1
        /\ IsSequence(c.visited)
    BY <2>2, <2>3 DEF ChainInv, IsLink
  <2>5. Hops(w, kn, q.action, path[k], Next1(k))
    BY DEF IsPath
  <2>6. Next1(k) = TargetIn(w, path[k])
    BY <2>5 DEF Hops
  <2>7. s # ""
    <3>1. s \in ProxiesOf(w, kn)
      BY <2>2, <2>5 DEF Hops
    <3> QED
      BY <3>1 DEF IsWorld, ProxiesOf, loadPlugin, resolvePluginName
  <2>8. ~Contains(c.visited, s)
    <3> SUFFICES ASSUME NEW i \in 1 .. k - 1, c.visited[i] = s PROVE FALSE
      BY <2>4 DEF Contains
    <3>1. i \in 1 .. n /\ i < k
      BY <1>2
    <3> QED
      BY <1>2, <2>2, <3>1, PathDistinct
  <2>9. HopsAt(w, kn, c)
    BY <2>1, <2>2, <2>4, <2>5, <2>6, <2>7, <2>8 DEF HopsAt
  <2>10. /\ d.result = "more" /\ d.visited = Append(c.visited, s) /\ d.request.system = TargetIn(w, s)
    BY <2>2, <2>3, <2>4, <2>9, FollowHops
  <2>11. \A i \in 1 .. k : d.visited[i] = path[i]
    <3>1. \A i \in 1 .. k - 1 : d.visited[i] = path[i]
      BY <2>2, <2>4, <2>10, AppendSequence
    <3>2. d.visited[k] = path[k]
      BY <2>1, <2>2, <2>4, <2>10, AppendSequence
    <3>3. \A i \in 1 .. k : i = k \/ i \in 1 .. k - 1
      OBVIOUS
    <3> QED
      BY <3>1, <3>2, <3>3
  <2>12. On(k)
    BY <2>2, <2>6, <2>10, <2>11 DEF d
  <2> QED
    BY <2>1, <2>12
<1>5. S = 0 .. n
  <2> S \in SUBSET (0 .. n)
    OBVIOUS
  <2> HIDE DEF S
  <2> QED
    BY <1>2, <1>3, <1>4, FirstFailure
<1>6. n \in S
  BY <1>2, <1>5
<1> QED
  BY <1>6

(* resolveRequest accepts exactly the systems whose proxies lead somewhere. *)
LEMMA ResolutionDecided ==
    ASSUME NEW w, IsWorld(w), NEW kn, NEW q, IsRequest(q), Expands(w, q)
    PROVE  resolveRequest(w, kn, q).result = "resolved"
              <=> LeadsIn(w, kn, q.action, resolvePluginName(w, q.system))
<1> DEFINE s0 == resolvePluginName(w, q.system)
<1>1. PICK f : /\ f[0] = Unresolved(w, q)
               /\ ChainOver(w, kn, f)
               /\ resolveRequest(w, kn, q) = f[Bound]
  BY ChainOf
<1>2. \A k \in 0 .. Bound : ChainInv(w, kn, q, f[k], k)
  BY <1>1, ChainFacts
<1>3. ASSUME f[Bound].result = "resolved" PROVE LeadsIn(w, kn, q.action, s0)
  BY <1>2, <1>3, BoundType, ResolvedLeads
<1>4. ASSUME NEW n \in 0 .. Bound - 1, n < MAX_PROXY_RESOLUTION_DEPTH, f[n].result = "more",
             f[n].request.system \notin ProxiesOf(w, kn)
      PROVE  f[Bound].result = "resolved"
  <2> DEFINE c == f[n]
             d == f[n + 1]
  <2>1. n \in 0 .. Bound /\ n + 1 \in 1 .. Bound /\ n + 1 \in 0 .. Bound /\ (n + 1) - 1 = n
    BY BoundType
  <2>2. ChainInv(w, kn, q, c, n) /\ d = Followed(w, kn, c)
    BY <1>1, <1>2, <2>1 DEF ChainOver
  <2>3. IsLink(c) /\ EndsAt(w, kn, c)
    <3>1. IsLink(c) /\ Len(c.visited) = n
      BY <1>4, <2>2 DEF ChainInv
    <3> QED
      BY <1>4, <3>1 DEF EndsAt
  <2>4. d.result = "resolved"
    BY <1>4, <2>2, <2>3, FollowEnds, EndedLink
  <2>5. f[Bound] = d
    <3> DEFINE m == n + 1
    <3>1. m \in 0 .. Bound /\ f[m].result # "more"
      BY <2>1, <2>4
    <3> HIDE DEF m
    <3>2. f[Bound] = f[m]
      BY <1>1, <3>1, StaysEnded
    <3> QED
      BY <3>2 DEF m
  <2> QED
    BY <2>4, <2>5
<1>5. ASSUME s0 \notin ProxiesOf(w, kn) PROVE f[Bound].result = "resolved"
  <2>1. f[0].result = "more" /\ f[0].request.system = s0
    BY <1>1, FirstLink
  <2>2. 0 \in 0 .. Bound - 1 /\ 0 < MAX_PROXY_RESOLUTION_DEPTH
    BY DepthAssumption DEF Bound
  <2> QED
    BY <1>4, <1>5, <2>1, <2>2
<1>6. ASSUME NEW n \in 1 .. MAX_PROXY_RESOLUTION_DEPTH - 1, NEW path,
             IsPath(w, kn, q.action, s0, n, path)
      PROVE  f[Bound].result = "resolved"
  <2>1. f[n].result = "more" /\ f[n].request.system = TargetIn(w, path[n])
    BY <1>1, <1>6, PathFollowed
  <2>2. n \in 0 .. Bound - 1 /\ n < MAX_PROXY_RESOLUTION_DEPTH
    BY DepthAssumption DEF Bound
  <2> QED
    BY <1>4, <1>6, <2>1, <2>2 DEF IsPath
<1> QED
  BY <1>1, <1>3, <1>5, <1>6 DEF LeadsIn

(* Whatever it answers, resolveRequest makes a request of a request.       *)
LEMMA ResolvedRequest ==
    ASSUME NEW w, IsWorld(w), NEW kn, NEW q, IsRequest(q)
    PROVE  LET c == resolveRequest(w, kn, q) IN
           /\ IsRequest(c.request) /\ c.request.action = q.action
           /\ q.action # "INSTALL" =>
                 c.request = Request(q.action, c.request.system, q.packages, q.target, q.flags)
           /\ Expands(w, q) => ChainInv(w, kn, q, c, Bound) /\ c.result \in {"resolved", "error"}
<1>1. CASE ~Expands(w, q)
  BY <1>1, NotExpanded DEF IsRequest
<1>2. CASE Expands(w, q)
  <2>1. PICK f : /\ f[0] = Unresolved(w, q) /\ ChainOver(w, kn, f)
                 /\ resolveRequest(w, kn, q) = f[Bound]
    BY <1>2, ChainOf
  <2>2. ChainInv(w, kn, q, f[Bound], Bound) /\ f[Bound].result # "more"
    BY <2>1, ChainFacts, BoundType
  <2>3. f[Bound].result \in {"resolved", "error"}
    BY <2>2 DEF ChainInv
  <2> QED
    BY <1>2, <2>1, <2>2, <2>3 DEF ChainInv, IsLink
<1> QED
  BY <1>1, <1>2

(* No proxy is left, and resolving again changes nothing.                  *)
Fixed(w, kn, q) == q.system \notin ProxiesOf(w, kn) /\ resolveRequest(w, kn, q).request = q

Accepted(w, kn, q) == resolveRequest(w, kn, q).result = "resolved"

ExpandsAll(w) == \A q : Expands(w, q) \/ q.system = ""

LEMMA ProxyExpansion ==
    ASSUME NEW w, w.proxyExpansion
    PROVE  ExpandsAll(w)
BY Zenon DEF ExpandsAll, Expands

LEMMA NoProxyWithoutName ==
    ASSUME NEW w, IsWorld(w), NEW kn
    PROVE  "" \notin ProxiesOf(w, kn)
BY DEF IsWorld, ProxiesOf, loadPlugin, resolvePluginName

LEMMA ResolvedIsFixed ==
    ASSUME NEW w, IsWorld(w), NEW kn, NEW q, IsRequest(q), ExpandsAll(w),
           Accepted(w, kn, q)
    PROVE  Fixed(w, kn, resolveRequest(w, kn, q).request)
<1> DEFINE c == resolveRequest(w, kn, q)
           new == c.request
<1>1. CASE ~Expands(w, q)
  <2>1. q.system = ""
    BY <1>1, Zenon DEF ExpandsAll
  <2>2. c.request = q
    BY <1>1, NotExpandedRequest
  <2> QED
    BY <2>1, <2>2, NoProxyWithoutName DEF Fixed
<1>2. CASE Expands(w, q)
  <2>1. ChainInv(w, kn, q, c, Bound) /\ IsRequest(new)
    BY <1>2, ResolvedRequest
  <2>2. new.system \notin ProxiesOf(w, kn) /\ resolvePluginName(w, new.system) = new.system
    BY <2>1, NoProxyWithoutName DEF ChainInv, EndsAt, Accepted
  <2> HIDE DEF new, c
  <2>3. ASSUME ~Expands(w, new) PROVE Fixed(w, kn, new)
    BY <2>2, <2>3, NotExpandedRequest DEF Fixed
  <2>4. ASSUME Expands(w, new) PROVE Fixed(w, kn, new)
    <3>1. PICK f : /\ f[0] = Unresolved(w, new) /\ ChainOver(w, kn, f)
                   /\ resolveRequest(w, kn, new) = f[Bound]
      BY <2>4, ChainOf
    <3>2. /\ IsLink(f[0]) /\ f[0].result = "more" /\ f[0].visited = <<>>
          /\ f[0].request = Request(new.action, new.system, new.packages, new.target, new.flags)
          /\ f[0].request.system = new.system
      BY <2>1, <2>2, <3>1, FirstLink
    <3>3. f[0].request = new
      BY <2>1, <3>2 DEF IsRequest
    <3>4. EndsAt(w, kn, f[0])
      <4>1. Len(f[0].visited) = 0
        BY <3>2
      <4>2. 0 < MAX_PROXY_RESOLUTION_DEPTH
        BY DepthAssumption
      <4> QED
        BY <2>2, <3>2, <4>1, <4>2 DEF EndsAt
    <3>5. 1 \in 1 .. Bound /\ 1 \in 0 .. Bound /\ 1 - 1 = 0
      BY BoundType
    <3>6. f[1] = Followed(w, kn, f[0])
      BY <3>1, <3>5 DEF ChainOver
    <3>7. f[1].result = "resolved" /\ f[1].request = new
      BY <3>2, <3>3, <3>4, <3>6, FollowEnds, EndedLink
    <3>8. f[Bound] = f[1]
      BY <3>1, <3>5, <3>7, StaysEnded
    <3> QED
      BY <2>2, <3>1, <3>7, <3>8 DEF Fixed
  <2>5. Fixed(w, kn, new)
    BY <2>3, <2>4
  <2> QED
    BY <2>5 DEF new, c
<1> QED
  BY <1>1, <1>2

LEMMA FixedAlike ==
    ASSUME NEW w, NEW kn, NEW kn2, SameLoading(w, kn, kn2), NEW q
    PROVE  Fixed(w, kn, q) <=> Fixed(w, kn2, q)
<1>1. ProxiesOf(w, kn) = ProxiesOf(w, kn2)
  BY DEF ProxiesOf, SameLoading
<1> QED
  BY <1>1, ResolvesAlike DEF Fixed
-----------------------------------------------------------------------------
(* The rewrites make requests of requests.                                 *)

LEMMA Concatenated ==
    ASSUME NEW x, NEW y, AreRequests(x), AreRequests(y)
    PROVE  AreRequests(x \o y)
<1> DEFINE T == {x[i] : i \in 1 .. Len(x)} \cup {y[i] : i \in 1 .. Len(y)}
<1>1. x \in Seq(T) /\ y \in Seq(T)
  <2>1. IsSequence(x) /\ IsSequence(y)
    BY DEF AreRequests
  <2> QED
    BY <2>1 DEF IsSequence
<1>2. \A q \in T : IsRequest(q)
  <2>1. DOMAIN x = 1 .. Len(x) /\ DOMAIN y = 1 .. Len(y)
    BY SequenceIsSeq DEF AreRequests
  <2> QED
    BY <2>1 DEF AreRequests
<1> HIDE DEF T
<1>3. x \o y \in Seq(T)
  BY <1>1
<1>4. IsSequence(x \o y) /\ DOMAIN (x \o y) = 1 .. Len(x \o y)
  BY <1>3, SeqIsSequence
<1>5. \A i \in DOMAIN (x \o y) : (x \o y)[i] \in T
  BY <1>3
<1> QED
  BY <1>2, <1>4, <1>5 DEF AreRequests

LEMMA MadeSequence ==
    ASSUME NEW n \in Nat, NEW seq, seq = [i \in 1 .. n |-> seq[i]]
    PROVE  IsSequence(seq) /\ Len(seq) = n /\ DOMAIN seq = 1 .. n
<1> DEFINE T == {seq[i] : i \in 1 .. n}
<1>1. seq \in Seq(T) /\ Len(seq) = n
  OBVIOUS
<1> QED
  BY <1>1 DEF IsSequence

LEMMA MadeRequests ==
    ASSUME NEW n \in Nat, NEW seq, seq = [i \in 1 .. n |-> seq[i]],
           \A i \in 1 .. n : IsRequest(seq[i])
    PROVE  AreRequests(seq)
BY MadeSequence DEF AreRequests

LEMMA OneRequest ==
    ASSUME NEW q, IsRequest(q)
    PROVE  AreRequests(<<q>>)
<1>1. <<q>> = [i \in 1 .. 1 |-> <<q>>[i]] /\ \A i \in 1 .. 1 : <<q>>[i] = q
  OBVIOUS
<1> QED
  BY <1>1, MadeRequests

LEMMA SubRequests ==
    ASSUME NEW qs, AreRequests(qs), NEW m \in Nat, NEW n \in Int, m > 0, n <= Len(qs)
    PROVE  AreRequests(SubSeq(qs, m, n))
<1> DEFINE T == {qs[i] : i \in 1 .. Len(qs)}
<1>1. qs \in Seq(T) /\ DOMAIN qs = 1 .. Len(qs)
  BY SequenceIsSeq DEF AreRequests
<1>2. \A q \in T : IsRequest(q)
  BY <1>1 DEF AreRequests
<1> HIDE DEF T
<1>3. SubSeq(qs, m, n) \in Seq(T)
  BY <1>1
<1>4. \A i \in DOMAIN SubSeq(qs, m, n) : SubSeq(qs, m, n)[i] \in T
  BY <1>3
<1> QED
  BY <1>2, <1>3, <1>4, SeqIsSequence DEF AreRequests

(* SetToSeq lists a finite set.                                            *)
LEMMA ListedSet ==
    ASSUME NEW S, IsFiniteSet(S)
    PROVE  /\ Cardinality(S) \in Nat
           /\ SetToSeq(S) \in [1 .. Cardinality(S) -> S]
           /\ IsSequence(SetToSeq(S)) /\ Range(SetToSeq(S)) = S
           /\ SetToSeq(S) = <<>> => S = {}
<1> DEFINE n == Cardinality(S)
           seq == SetToSeq(S)
<1>1. n \in Nat /\ ExistsBijection(1 .. n, S)
  BY FS_CardinalityType
<1>2. \E f \in [1 .. n -> S] : IsInjective(f)
  <2>1. PICK f : f \in Bijection(1 .. n, S)
    BY <1>1, Fun_ExistsBij
  <2> QED
    BY <2>1 DEF Bijection, Injection
<1>3. seq \in [1 .. n -> S] /\ IsInjective(seq)
  BY <1>2 DEF SetToSeq
<1> HIDE DEF seq
<1>4. seq \in Bijection(1 .. n, Range(seq))
  <2>1. seq \in Injection(1 .. n, S)
    BY <1>3 DEF Injection
  <2> QED
    BY <2>1, Fun_InjMeansBijImage
<1>5. Cardinality(Range(seq)) = n
  BY <1>1, <1>4, Fun_ExistsBij, FS_CountingElements
<1>6. Range(seq) \in SUBSET S
  BY <1>3 DEF Range
<1>7. Range(seq) = S
  BY <1>5, <1>6, FS_Subset
<1>8. IsSequence(seq)
  BY <1>1, <1>3, MadeSequence
<1>9. seq = <<>> => S = {}
  BY <1>7 DEF Range
<1> QED
  BY <1>1, <1>3, <1>7, <1>8, <1>9 DEF seq

LEMMA UpdateAllListed ==
    ASSUME NEW w, IsWorld(w), NEW kn, IsFiniteSet(DOMAIN kn.records)
    PROVE  IsFiniteSet(UpdateAllNames(w, kn))
<1> DEFINE A == w.disk \ (Reserved \cup {""})
           B == IF w.git THEN {s \in DOMAIN kn.records : PluginRecord(kn.records, s)} ELSE {}
<1>1. IsFiniteSet(A)
  BY FS_Subset DEF IsWorld
<1>2. IsFiniteSet(B)
  <2>1. B \in SUBSET DOMAIN kn.records
    BY Zenon
  <2> QED
    BY <2>1, FS_Subset
<1>3. UpdateAllNames(w, kn) = A \cup B
  BY Zenon DEF UpdateAllNames
<1> QED
  BY <1>1, <1>2, <1>3, FS_Union

LEMMA ExpandedRequests ==
    ASSUME NEW w, IsWorld(w), NEW kn, IsFiniteSet(DOMAIN kn.records), NEW qs, AreRequests(qs)
    PROVE  AreRequests(expand_update_all_requests(w, kn, qs))
<1> DEFINE T == {i \in DOMAIN qs : IsUpdateAll(qs[i])}
           First(i) == IsUpdateAll(qs[i]) /\ \A j \in 1 .. i - 1 : ~IsUpdateAll(qs[j])
           first == CHOOSE i \in DOMAIN qs : First(i)
           names == UpdateAllNames(w, kn)
           new == [i \in 1 .. Cardinality(names) |->
                     Request("UPDATE", SetToSeq(names)[i], <<>>, NoTarget, qs[first].flags \ {"expand"})]
<1>1. CASE T = {}
  BY <1>1 DEF expand_update_all_requests
<1>2. CASE T # {}
  <2>1. expand_update_all_requests(w, kn, qs) = RemoveAt(qs, first) \o new
    BY <1>2 DEF expand_update_all_requests
  <2>2. IsSequence(qs) /\ DOMAIN qs = 1 .. Len(qs) /\ Len(qs) \in Nat
    BY SequenceIsSeq DEF AreRequests, IsSequence
  <2>3. \E i \in DOMAIN qs : First(i)
    <3>1. T \in SUBSET Nat
      BY <2>2
    <3>2. PICK i \in T : \A j \in T : i <= j
      BY <1>2, <3>1, LeastNumber
    <3>3. \A j \in 1 .. i - 1 : j \in DOMAIN qs /\ ~(i <= j)
      BY <2>2, <3>2
    <3>4. First(i)
      BY <3>2, <3>3
    <3> QED
      BY <3>2, <3>4
  <2>4. first \in DOMAIN qs
    BY <2>3
  <2> HIDE DEF first
  <2>5. AreRequests(RemoveAt(qs, first))
    <3>1. first - 1 \in Int /\ first - 1 <= Len(qs) /\ first + 1 \in Nat /\ first + 1 > 0
      BY <2>2, <2>4
    <3>2. 1 \in Nat /\ 1 > 0 /\ Len(qs) \in Int /\ Len(qs) <= Len(qs)
      BY <2>2
    <3> DEFINE a == first - 1
               b == first + 1
    <3> HIDE DEF a, b
    <3>3. AreRequests(SubSeq(qs, 1, a))
      BY <3>1, <3>2, SubRequests DEF a
    <3>4. AreRequests(SubSeq(qs, b, Len(qs)))
      BY <3>1, <3>2, SubRequests DEF b
    <3> QED
      BY <3>3, <3>4, Concatenated DEF RemoveAt, a, b
  <2>6. AreRequests(new)
    <3>1. Cardinality(names) \in Nat
      BY UpdateAllListed, FS_CardinalityType
    <3>2. \A i \in 1 .. Cardinality(names) : IsRequest(new[i])
      BY RequestFields, EmptySequence
    <3>3. new = [i \in 1 .. Cardinality(names) |-> new[i]]
      OBVIOUS
    <3> HIDE DEF new
    <3> QED
      BY <3>1, <3>2, <3>3, MadeRequests
  <2> QED
    BY <2>1, <2>5, <2>6, Concatenated
<1> QED
  BY <1>1, <1>2

LEMMA GatewayRequests ==
    ASSUME NEW w, NEW kn, NEW qs, AreRequests(qs)
    PROVE  AreRequests(rewrite_security_gateway_package_requests(w, kn, qs))
<1> DEFINE p == [i \in 1 .. Len(qs) - 1 |-> Specifier(qs[i + 1].system, "")]
           new == [qs[1] EXCEPT !.packages = p]
<1>1. ASSUME Len(qs) >= 2 PROVE AreRequests(<<new>>)
  <2>1. IsSequence(qs) /\ DOMAIN qs = 1 .. Len(qs) /\ Len(qs) \in Nat
    BY SequenceIsSeq DEF AreRequests, IsSequence
  <2>2. 1 \in DOMAIN qs /\ Len(qs) - 1 \in Nat
    BY <1>1, <2>1
  <2>3. IsRequest(qs[1])
    BY <2>2 DEF AreRequests
  <2>4. IsSequence(p)
    <3>1. p = [i \in 1 .. Len(qs) - 1 |-> p[i]]
      OBVIOUS
    <3> DEFINE n == Len(qs) - 1
    <3>2. n \in Nat /\ p = [i \in 1 .. n |-> p[i]]
      BY <2>2, <3>1
    <3> HIDE DEF n, p
    <3> QED
      BY <3>2, MadeSequence
  <2> HIDE DEF p
  <2>5. IsRequest(new)
    BY <2>3, <2>4, PackagesChanged, RequestFields
  <2> HIDE DEF new
  <2> QED
    BY <2>5, OneRequest
<1> DEFINE Gateway == /\ Len(qs) >= 2
                     /\ gatewayExists(w, qs[1].system)
                     /\ qs[1].action \in {"INSTALL", "UPDATE", "ENSURE"}
                     /\ SystemOnly(qs[1])
                     /\ \A i \in 2 .. Len(qs) : GatewayPackage(w, kn, qs[1].action, qs[i])
<1>2. rewrite_security_gateway_package_requests(w, kn, qs) = IF Gateway THEN <<new>> ELSE qs
  BY DEF rewrite_security_gateway_package_requests
<1>3. Gateway => Len(qs) >= 2
  OBVIOUS
<1> HIDE DEF new, Gateway
<1> QED
  BY <1>1, <1>2, <1>3

LEMMA RegistryPackage ==
    ASSUME NEW kn, NEW q, IsRequest(q), NEW spec
    PROVE  IsRequest(apply_registry_package_rewrite(kn, q, spec))
<1> DEFINE s == kn.records[spec.name].target
           f == q.flags \cup {"repository"}
           new == [q EXCEPT !.system = s, !.packages = <<spec>>, !.flags = @ \cup {"repository"}]
<1>1. IsSequence(<<spec>>)
  BY DEF IsSequence
<1>2. new = Request(q.action, s, <<spec>>, q.target, f)
  <2> DEFINE q1 == [q EXCEPT !.system = s]
             q2 == [q1 EXCEPT !.packages = <<spec>>]
  <2>1. new = [q2 EXCEPT !.flags = @ \cup {"repository"}]
    OBVIOUS
  <2>2. q1 = Request(q.action, s, q.packages, q.target, q.flags) /\ IsSequence(q.packages)
    BY SystemChanged DEF IsRequest
  <2> HIDE DEF q1, s
  <2>3. q2 = Request(q.action, s, <<spec>>, q.target, q.flags)
    BY <2>2, RequestFields, PackagesChanged
  <2> HIDE DEF q2, new
  <2> QED
    BY <2>1, <2>3 DEF Request
<1> HIDE DEF s, f
<1>3. IsRequest(new)
  BY <1>1, <1>2, RequestFields
<1>4. apply_registry_package_rewrite(kn, q, spec) \in {q, new}
  BY DEF apply_registry_package_rewrite, s
<1> HIDE DEF new
<1> QED
  BY <1>3, <1>4

LEMMA RewrittenRequest ==
    ASSUME NEW kn, NEW q, IsRequest(q)
    PROVE  AreRequests(RewriteRequest(kn, q))
<1> DEFINE Alone(i) == [q EXCEPT !.packages = <<q.packages[i]>>]
           Apply(i) == apply_registry_package_rewrite(kn, Alone(i), q.packages[i])
           each == [i \in DOMAIN q.packages |-> Apply(i)]
           one == apply_registry_package_rewrite(kn, q, Specifier(q.system, ""))
<1>1. AreRequests(<<q>>) /\ AreRequests(<<one>>)
  BY RegistryPackage, OneRequest
<1>2. AreRequests(each)
  <2>1. IsSequence(q.packages) /\ DOMAIN q.packages = 1 .. Len(q.packages) /\ Len(q.packages) \in Nat
    BY SequenceIsSeq DEF IsRequest, IsSequence
  <2>2. ASSUME NEW i PROVE IsRequest(Apply(i))
    <3>1. IsSequence(<<q.packages[i]>>)
      BY DEF IsSequence
    <3>2. IsRequest(Alone(i))
      BY <3>1, PackagesChanged, RequestFields
    <3> HIDE DEF Alone
    <3> QED
      BY <3>2, RegistryPackage
  <2> HIDE DEF Apply
  <2>3. each = [i \in 1 .. Len(q.packages) |-> each[i]]
        /\ \A i \in 1 .. Len(q.packages) : IsRequest(each[i])
    BY <2>1, <2>2
  <2> HIDE DEF each
  <2> QED
    BY <2>1, <2>3, MadeRequests
<1>3. RewriteRequest(kn, q) \in {<<q>>, <<one>>, each}
  BY DEF RewriteRequest
<1> HIDE DEF one, each
<1> QED
  BY <1>1, <1>2, <1>3

(* FlattenSeq, one sequence after the other.                               *)
FlattenStep(seqs, f, i) == IF i = 1 THEN seqs[i] ELSE f[i - 1] \o seqs[i]

IsFlattening(seqs, f, n) == f = [i \in 1 .. n |-> FlattenStep(seqs, f, i)]

LEMMA FlatteningsExist ==
    ASSUME NEW seqs
    PROVE  \A n \in Nat : \E f : IsFlattening(seqs, f, n)
<1> DEFINE Solved(n) == \E f : IsFlattening(seqs, f, n)
           T == {n \in Nat : ~Solved(n)}
<1> SUFFICES ASSUME T # {} PROVE FALSE
  OBVIOUS
<1>1. PICK n \in T : \A m \in T : n <= m
  BY LeastNumber
<1>2. Solved(0)
  <2> DEFINE f == [i \in 1 .. 0 |-> seqs]
  <2>1. IsFlattening(seqs, f, 0)
    BY DEF IsFlattening
  <2> QED
    BY <2>1
<1>3. n # 0 /\ n - 1 \in Nat /\ Solved(n - 1)
  <2> HIDE DEF Solved
  <2>1. n \in Nat /\ ~Solved(n)
    BY <1>1
  <2>2. n # 0
    BY <1>2, <2>1
  <2>3. n - 1 \in Nat /\ ~(n <= n - 1)
    BY <2>1, <2>2
  <2> QED
    BY <1>1, <2>2, <2>3
<1>4. PICK f : IsFlattening(seqs, f, n - 1)
  BY <1>3
<1> DEFINE h == [i \in 1 .. n |-> IF i = n THEN FlattenStep(seqs, f, n) ELSE f[i]]
<1>5. ASSUME NEW i \in 1 .. n PROVE h[i] = FlattenStep(seqs, h, i)
  <2>1. FlattenStep(seqs, h, i) = FlattenStep(seqs, f, i)
    <3>1. CASE i = 1
      BY <3>1 DEF FlattenStep
    <3>2. CASE i # 1
      <4>1. i - 1 \in 1 .. n /\ i - 1 # n
        BY <1>3, <3>2
      <4>2. h[i - 1] = f[i - 1]
        BY <4>1
      <4> HIDE DEF h
      <4> QED
        BY <4>2 DEF FlattenStep
    <3> QED
      BY <3>1, <3>2
  <2>2. h[i] = FlattenStep(seqs, f, i)
    <3>1. CASE i = n
      BY <3>1
    <3>2. CASE i # n
      <4>1. i \in 1 .. n - 1
        BY <1>3, <3>2
      <4> QED
        BY <1>4, <3>2, <4>1 DEF IsFlattening
    <3> QED
      BY <3>1, <3>2
  <2> QED
    BY <2>1, <2>2
<1>6. IsFlattening(seqs, h, n)
  BY <1>5 DEF IsFlattening
<1>7. Solved(n)
  BY <1>6
<1> QED
  BY <1>1, <1>7

LEMMA FlattenedRequests ==
    ASSUME NEW seqs, IsSequence(seqs), \A i \in DOMAIN seqs : AreRequests(seqs[i])
    PROVE  AreRequests(FlattenSeq(seqs))
<1> DEFINE n == Len(seqs)
<1>1. n \in Nat /\ DOMAIN seqs = 1 .. n
  BY SequenceIsSeq DEF IsSequence
<1>2. CASE n = 0
  <2>1. FlattenSeq(seqs) = seqs
    BY <1>2 DEF FlattenSeq
  <2>2. DOMAIN seqs = {}
    BY <1>1, <1>2
  <2> QED
    BY <2>1, <2>2 DEF AreRequests
<1>3. CASE n # 0
  <2> DEFINE g == CHOOSE f : f = [i \in 1 .. n |-> FlattenStep(seqs, f, i)]
  <2>1. g = [i \in 1 .. n |-> FlattenStep(seqs, g, i)]
    <3>1. \E f : f = [i \in 1 .. n |-> FlattenStep(seqs, f, i)]
      <4>1. \E f : IsFlattening(seqs, f, n)
        BY <1>1, FlatteningsExist
      <4> QED
        BY <4>1 DEF IsFlattening
    <3> QED
      BY <3>1
  <2>2. FlattenSeq(seqs) = g[n]
    BY <1>3 DEF FlattenSeq, FlattenStep
  <2> HIDE DEF g, n
  <2> DEFINE S == {k \in 0 .. n : k = 0 \/ AreRequests(g[k])}
  <2>3. ASSUME NEW k \in 1 .. n, k - 1 \in S PROVE k \in S
    <3>1. g[k] = FlattenStep(seqs, g, k) /\ AreRequests(seqs[k]) /\ k \in 0 .. n
      BY <1>1, <2>1
    <3>2. CASE k = 1
      BY <3>1, <3>2 DEF FlattenStep
    <3>3. CASE k # 1
      <4>1. k - 1 # 0
        BY <3>3
      <4>2. AreRequests(g[k - 1])
        BY <2>3, <4>1
      <4>3. AreRequests(g[k - 1] \o seqs[k])
        BY <3>1, <4>2, Concatenated
      <4> QED
        BY <3>1, <3>3, <4>3 DEF FlattenStep
    <3> QED
      BY <3>2, <3>3
  <2>4. S = 0 .. n
    <3>1. S \in SUBSET (0 .. n) /\ 0 \in S
      BY <1>1
    <3> HIDE DEF S
    <3> QED
      BY <1>1, <2>3, <3>1, FirstFailure
  <2>5. AreRequests(g[n])
    BY <1>1, <1>3, <2>4
  <2> QED
    BY <2>2, <2>5
<1> QED
  BY <1>2, <1>3

LEMMA RegistryRequests ==
    ASSUME NEW kn, NEW qs, AreRequests(qs)
    PROVE  AreRequests(rewrite_registry_package_requests(kn, qs))
<1> DEFINE seqs == [i \in DOMAIN qs |-> RewriteRequest(kn, qs[i])]
<1>1. IsSequence(qs) /\ DOMAIN qs = 1 .. Len(qs) /\ Len(qs) \in Nat
  BY SequenceIsSeq DEF AreRequests, IsSequence
<1>2. seqs = [i \in 1 .. Len(qs) |-> seqs[i]] /\ DOMAIN seqs = DOMAIN qs
  BY <1>1
<1>3. \A i \in DOMAIN seqs : AreRequests(seqs[i])
  BY RewrittenRequest DEF AreRequests
<1>4. rewrite_registry_package_requests(kn, qs) = FlattenSeq(seqs)
  BY DEF rewrite_registry_package_requests
<1> HIDE DEF seqs
<1> QED
  BY <1>1, <1>2, <1>3, <1>4, MadeSequence, FlattenedRequests

LEMMA ResolvedRequests ==
    ASSUME NEW w, IsWorld(w), NEW kn, NEW qs, AreRequests(qs)
    PROVE  AreRequests(resolveRequests(w, kn, qs))
<1> DEFINE new == resolveRequests(w, kn, qs)
<1>1. IsSequence(qs) /\ DOMAIN qs = 1 .. Len(qs) /\ Len(qs) \in Nat
  BY SequenceIsSeq DEF AreRequests, IsSequence
<1>2. new = [i \in 1 .. Len(qs) |-> new[i]]
  BY <1>1 DEF resolveRequests
<1>3. \A i \in 1 .. Len(qs) : IsRequest(new[i])
  BY <1>1, ResolvedRequest DEF resolveRequests, AreRequests
<1> HIDE DEF new
<1>4. AreRequests(new)
  BY <1>1, <1>2, <1>3, MadeRequests
<1> QED
  BY <1>4 DEF new

LEMMA ChangedRequests ==
    ASSUME NEW qs, AreRequests(qs), NEW n \in DOMAIN qs, NEW q, IsRequest(q)
    PROVE  AreRequests([qs EXCEPT ![n] = q])
<1> DEFINE new == [qs EXCEPT ![n] = q]
<1>1. IsSequence(qs) /\ DOMAIN qs = 1 .. Len(qs) /\ Len(qs) \in Nat
  BY SequenceIsSeq DEF AreRequests, IsSequence
<1>2. new = [i \in 1 .. Len(qs) |-> new[i]]
  BY <1>1
<1>3. \A i \in 1 .. Len(qs) : IsRequest(new[i])
  BY <1>1 DEF AreRequests
<1> HIDE DEF new
<1>4. AreRequests(new)
  BY <1>1, <1>2, <1>3, MadeRequests
<1> QED
  BY <1>4 DEF new
-----------------------------------------------------------------------------
(* The requests of a command, whatever it has reached.                     *)

FlowTypes == /\ world \in Worlds /\ AreRequests(requests)
             /\ at \in Nat \ {0} /\ IsFiniteSet(DOMAIN records)

LEMMA TypesKept ==
    ASSUME FlowTypes, UNCHANGED <<world, records, requests>>, at' = at \/ at' = at + 1 \/ at' = 1
    PROVE  FlowTypes'
BY DEF FlowTypes

LEMMA RequestsChanged ==
    ASSUME FlowTypes, UNCHANGED <<world, records>>, at' = at \/ at' = at + 1 \/ at' = 1,
           AreRequests(requests')
    PROVE  FlowTypes'
BY DEF FlowTypes

LEMMA RequestAtChanged ==
    ASSUME FlowTypes, at <= Len(requests), NEW q, IsRequest(q)
    PROVE  AreRequests([requests EXCEPT ![at] = q])
<1>1. IsSequence(requests) /\ DOMAIN requests = 1 .. Len(requests) /\ Len(requests) \in Nat
  BY SequenceIsSeq DEF FlowTypes, AreRequests, IsSequence
<1>2. at \in DOMAIN requests
  BY <1>1 DEF FlowTypes
<1> QED
  BY <1>2, ChangedRequests DEF FlowTypes

LEMMA RequestAt ==
    ASSUME FlowTypes, at <= Len(requests)
    PROVE  /\ IsRequest(r)
           /\ \A t : AreRequests([requests EXCEPT ![at].target = t])
           /\ \A s : AreRequests([requests EXCEPT ![at].system = s])
<1>1. IsSequence(requests) /\ DOMAIN requests = 1 .. Len(requests) /\ Len(requests) \in Nat
  BY SequenceIsSeq DEF FlowTypes, AreRequests, IsSequence
<1>2. IsRequest(r)
  BY <1>1 DEF FlowTypes, AreRequests, r
<1>3. ASSUME NEW t PROVE AreRequests([requests EXCEPT ![at].target = t])
  <2>1. IsRequest([r EXCEPT !.target = t])
    BY <1>2, TargetChanged, RequestFields DEF IsRequest
  <2>2. [requests EXCEPT ![at].target = t] = [requests EXCEPT ![at] = [r EXCEPT !.target = t]]
    BY DEF r
  <2> QED
    BY <2>1, <2>2, RequestAtChanged
<1>4. ASSUME NEW s PROVE AreRequests([requests EXCEPT ![at].system = s])
  <2>1. IsRequest([r EXCEPT !.system = s])
    BY <1>2, SystemChanged, RequestFields DEF IsRequest
  <2>2. [requests EXCEPT ![at].system = s] = [requests EXCEPT ![at] = [r EXCEPT !.system = s]]
    BY DEF r
  <2> QED
    BY <2>1, <2>2, RequestAtChanged
<1> QED
  BY <1>2, <1>3, <1>4

LEMMA TypesStep ==
    ASSUME FlowTypes, [Next]_vars
    PROVE  FlowTypes'
<1> USE DEF asked, OnlyPrepares
<1>1. CASE UNCHANGED vars
  BY <1>1, TypesKept DEF vars
<1>2. ASSUME NEW ok \in BOOLEAN, RefreshRegistry(ok) PROVE FlowTypes'
  <2>1. IsWorld(world)
    BY FlowAssumption DEF FlowTypes
  <2>2. records' \in {records, world.upstream}
    BY <1>2 DEF RefreshRegistry
  <2>3. IsFiniteSet(DOMAIN records')
    BY <2>1, <2>2 DEF FlowTypes, IsWorld
  <2> QED
    BY <1>2, <2>3 DEF RefreshRegistry, FlowTypes
<1>3. ASSUME NEW failed, NextItem(failed) PROVE at' = at \/ at' = at + 1
  BY <1>3 DEF NextItem
<1>4. ASSUME NEW ok \in BOOLEAN, RefreshWrapper(ok) \/ PluginInstall(ok) \/ PluginRemove(ok)
      PROVE  FlowTypes'
  BY <1>3, <1>4, TypesKept DEF RefreshWrapper, PluginInstall, PluginRemove
<1>5. ASSUME NEW ok \in BOOLEAN, Snapshot(ok) \/ Export(ok) PROVE FlowTypes'
  BY <1>5, TypesKept DEF Snapshot, Export
<1>6. CASE ExpandAndDiscover
  <2>1. AreRequests(requests')
    <3>1. IsWorld(world) /\ known.records = records
      BY FlowAssumption DEF FlowTypes, known
    <3>2. AreRequests(expand_update_all_requests(world, known, requests))
      BY <3>1, ExpandedRequests DEF FlowTypes
    <3> QED
      BY <1>6, <3>2 DEF ExpandAndDiscover
  <2> QED
    BY <1>6, <2>1, RequestsChanged DEF ExpandAndDiscover
<1>7. CASE Dispatch
  <2>1. AreRequests(requests')
    <3> DEFINE qs == rewrite_security_gateway_package_requests(world, known, requests)
    <3>1. AreRequests(qs)
      BY GatewayRequests DEF FlowTypes
    <3>2. requests' = rewrite_registry_package_requests(known, qs)
      BY <1>7 DEF Dispatch
    <3> HIDE DEF qs
    <3> QED
      BY <3>1, <3>2, RegistryRequests
  <2> QED
    BY <1>7, <2>1, RequestsChanged DEF Dispatch
<1>8. CASE ListAndValidate
  BY <1>8, TypesKept DEF ListAndValidate
<1>9. ASSUME NEW failed, UpdateSystems(failed) PROVE FlowTypes'
  BY <1>9, TypesKept DEF UpdateSystems
<1>10. CASE SkipRequest
  BY <1>10, TypesKept DEF SkipRequest
<1>11. CASE Download
  BY <1>11, RequestAt, RequestsChanged DEF Download, Preparing
<1>12. CASE DownloadFails
  BY <1>12, TypesKept DEF DownloadFails
<1>13. CASE Unpack
  BY <1>13, RequestAt, RequestsChanged DEF Unpack, Preparing
<1>14. CASE UnpackThrows
  BY <1>14, TypesKept DEF UnpackThrows
<1>15. CASE ResolveTarget
  BY <1>15, RequestAt, RequestsChanged DEF ResolveTarget, Preparing
<1>16. CASE ResolveRequests
  <2>1. AreRequests(resolveRequests(world, known, requests))
    BY ResolvedRequests, FlowAssumption DEF FlowTypes
  <2> QED
    BY <1>16, <2>1, TypesKept, RequestsChanged DEF ResolveRequests
<1>17. CASE Query
  BY <1>17, TypesKept DEF Query
<1>18. ASSUME NEW spec, PickSearchResult(spec) PROVE FlowTypes'
  <2> DEFINE p == <<Specifier(spec.name, "")>>
             q == Request("INSTALL", requests[1].system, p, NoTarget, {})
  <2>1. IsSequence(p)
    BY DEF IsSequence
  <2> HIDE DEF p
  <2>2. IsRequest(q)
    BY <2>1, RequestFields
  <2> HIDE DEF q
  <2>3. AreRequests(requests')
    BY <1>18, <2>2, OneRequest DEF PickSearchResult, p, q
  <2> QED
    BY <1>18, <2>3, RequestsChanged DEF PickSearchResult
<1>19. ASSUME NEW ok \in BOOLEAN, NEW registered \in BOOLEAN, NEW written \in BOOLEAN,
              Pack(ok, registered, written)
       PROVE  FlowTypes'
  BY <1>19, TypesKept DEF Pack
<1>20. CASE Plan
  BY <1>20, TypesKept DEF Plan
<1>21. CASE Validate
  BY <1>21, TypesKept DEF Validate
<1>22. ASSUME NEW failed, Execute(failed) PROVE FlowTypes'
  BY <1>22, TypesKept DEF Execute
<1> QED
  BY <1>1, <1>2, <1>4, <1>5, <1>6, <1>7, <1>8, <1>9, <1>10, <1>11, <1>12, <1>13, <1>14, <1>15,
     <1>16, <1>17, <1>18, <1>19, <1>20, <1>21, <1>22 DEF Next

LEMMA TypesInit ==
    ASSUME Init
    PROVE  FlowTypes
<1>1. world \in Worlds /\ command \in Commands /\ requests = command /\ records = world.cached /\ at = 1
  BY DEF Init
<1>2. AreRequests(requests) /\ IsWorld(world)
  BY <1>1, FlowAssumption
<1>3. IsFiniteSet(DOMAIN records)
  BY <1>1, <1>2 DEF IsWorld
<1> QED
  BY <1>1, <1>2, <1>3 DEF FlowTypes
-----------------------------------------------------------------------------
(* Resolution.                                                             *)

Prepared == {"query", "snapshot", "pack", "plan", "export", "validate", "execute"}

(* From prepare_requests_for_run on, no request has a proxy left.          *)
ResolvedInv == ExpandsAll(world) /\ pc \in Prepared =>
                  \A i \in DOMAIN requests : Fixed(world, known, requests[i])

LEMMA NotPrepared ==
    ASSUME pc' \notin Prepared
    PROVE  ResolvedInv'
BY DEF ResolvedInv

LEMMA KeptResolved ==
    ASSUME ResolvedInv, UNCHANGED <<world, records, requests>>, pc' \in Prepared => pc \in Prepared,
           plugins' = plugins \/ \E S : plugins' = AfterLoading(world, known, S)
    PROVE  ResolvedInv'
<1> SUFFICES ASSUME ExpandsAll(world), pc' \in Prepared, NEW i \in DOMAIN requests
             PROVE  Fixed(world, known', requests[i])
  BY DEF ResolvedInv
<1>1. Fixed(world, known, requests[i])
  BY DEF ResolvedInv
<1>2. SameLoading(world, known, known')
  <2>1. CASE plugins' = plugins
    <3>1. known' = known
      BY <2>1 DEF known
    <3> QED
      BY <3>1 DEF SameLoading
  <2>2. ASSUME NEW S, plugins' = AfterLoading(world, known, S)
        PROVE  SameLoading(world, known, known')
    <3>1. known'.records = known.records /\ known'.plugins = AfterLoading(world, known, S)
      BY <2>2 DEF known
    <3> QED
      BY <3>1, LoadingKeeps
  <2> QED
    BY <2>1, <2>2
<1> QED
  BY <1>1, <1>2, FixedAlike

LEMMA NewlyResolved ==
    ASSUME FlowTypes, ResolveRequests
    PROVE  ResolvedInv'
<1>1. IsWorld(world)
  BY FlowAssumption DEF FlowTypes
<1>2. CASE ~Resolvable(world, known, requests)
  <2>1. pc' = "done"
    BY <1>2 DEF ResolveRequests, Return
  <2> QED
    BY <2>1, NotPrepared DEF Prepared
<1>3. CASE Resolvable(world, known, requests)
  <2> SUFFICES ASSUME ExpandsAll(world'), NEW i \in DOMAIN requests'
               PROVE  Fixed(world', known', requests'[i])
    BY DEF ResolvedInv
  <2>1. world' = world /\ records' = records /\ requests' = resolveRequests(world, known, requests)
    BY <1>3 DEF ResolveRequests, asked
  <2>2. i \in DOMAIN requests /\ requests'[i] = resolveRequest(world, known, requests[i]).request
    BY <2>1 DEF resolveRequests
  <2>3. Accepted(world, known, requests[i]) /\ IsRequest(requests[i])
    BY <1>3, <2>2 DEF Resolvable, Accepted, FlowTypes, AreRequests
  <2>4. Fixed(world, known, requests'[i])
    BY <1>1, <2>1, <2>2, <2>3, ResolvedIsFixed
  <2>5. SameLoading(world, known, known')
    <3> DEFINE P == AfterLoading(world, known, AskedFor(world, known, requests))
    <3>1. plugins' \in {plugins, P}
      BY Zenon DEF ResolveRequests
    <3>2. known'.records = known.records /\ known'.plugins = plugins' /\ known.plugins = plugins
      BY <2>1 DEF known
    <3>3. CASE plugins' = plugins
      <4>1. known' = known
        BY <2>1, <3>3 DEF known
      <4> QED
        BY <4>1 DEF SameLoading
    <3>4. CASE plugins' = P
      BY <3>2, <3>4, LoadingKeeps
    <3> QED
      BY <3>1, <3>3, <3>4
  <2> QED
    BY <2>1, <2>4, <2>5, FixedAlike
<1> QED
  BY <1>2, <1>3

LEMMA ResolvedStep ==
    ASSUME FlowTypes, ResolvedInv, [Next]_vars
    PROVE  ResolvedInv'
<1> USE DEF asked, OnlyPrepares
<1>1. CASE UNCHANGED vars
  BY <1>1, KeptResolved DEF vars
<1>2. ASSUME NEW ok \in BOOLEAN, RefreshRegistry(ok) PROVE ResolvedInv'
  BY <1>2, NotPrepared DEF RefreshRegistry, Goto, Prepared
<1>3. ASSUME NEW failed, NextItem(failed), pc \notin Prepared PROVE ResolvedInv'
  BY <1>3, NotPrepared DEF NextItem, Return, Prepared
<1>4. ASSUME NEW ok \in BOOLEAN, RefreshWrapper(ok) \/ PluginInstall(ok) \/ PluginRemove(ok)
      PROVE  ResolvedInv'
  BY <1>3, <1>4 DEF RefreshWrapper, PluginInstall, PluginRemove, Prepared
<1>5. ASSUME NEW code, Return(code) PROVE ResolvedInv'
  BY <1>5, NotPrepared DEF Return, Prepared
<1>6. ASSUME NEW ok \in BOOLEAN, Snapshot(ok) \/ Export(ok) PROVE ResolvedInv'
  BY <1>5, <1>6 DEF Snapshot, Export
<1>7. CASE ExpandAndDiscover
  BY <1>5, <1>7, NotPrepared DEF ExpandAndDiscover, Goto, Prepared
<1>8. CASE Dispatch
  <2>1. pc' \notin Prepared
    BY <1>8 DEF Dispatch, Goto, Flow, Prepared
  <2> QED
    BY <2>1, NotPrepared
<1>9. CASE ListAndValidate
  BY <1>5, <1>9, NotPrepared DEF ListAndValidate, ValidateSystemWide, Goto, Prepared
<1>10. ASSUME NEW failed, UpdateSystems(failed) PROVE ResolvedInv'
  BY <1>5, <1>10 DEF UpdateSystems
<1>11. CASE SkipRequest \/ Download \/ Unpack
  BY <1>11, NotPrepared DEF SkipRequest, Download, Unpack, Preparing, Prepared
<1>12. CASE DownloadFails \/ UnpackThrows
  BY <1>5, <1>12, NotPrepared DEF DownloadFails, UnpackThrows, Prepared
<1>13. CASE ResolveTarget
  BY <1>5, <1>13, NotPrepared DEF ResolveTarget, Preparing, Prepared
<1>14. CASE ResolveRequests
  BY <1>14, NewlyResolved
<1>15. CASE Query
  BY <1>5, <1>15 DEF Query
<1>16. ASSUME NEW spec, PickSearchResult(spec) PROVE ResolvedInv'
  BY <1>16, NotPrepared DEF PickSearchResult, Goto, Prepared
<1>17. ASSUME NEW ok \in BOOLEAN, NEW registered \in BOOLEAN, NEW written \in BOOLEAN,
              Pack(ok, registered, written)
       PROVE  ResolvedInv'
  BY <1>5, <1>17 DEF Pack
<1>18. CASE Plan
  <2>1. pc \in Prepared /\ UNCHANGED <<world, records, requests>>
    BY <1>18 DEF Plan, Prepared
  <2>2. plugins' = plugins \/ \E S : plugins' = AfterLoading(world, known, S)
    BY <1>18 DEF Plan, AfterPlanning
  <2> QED
    BY <2>1, <2>2, KeptResolved
<1>19. CASE Validate
  BY <1>19, KeptResolved DEF Validate, Prepared
<1>20. ASSUME NEW failed, Execute(failed) PROVE ResolvedInv'
  BY <1>5, <1>20 DEF Execute
<1> QED
  BY <1>1, <1>2, <1>4, <1>6, <1>7, <1>8, <1>9, <1>10, <1>11, <1>12, <1>13, <1>14, <1>15,
     <1>16, <1>17, <1>18, <1>19, <1>20 DEF Next

(* The same path in the words of the property.                             *)
LEMMA LeadsAlike ==
    ASSUME NEW verb, NEW s
    PROVE  Leads(verb, s) <=> LeadsIn(world, known, verb, s)
<1>1. Proxies = ProxiesOf(world, known)
  BY DEF Proxies, ProxiesOf
<1>2. \A x : TargetOf(x) = TargetIn(world, x)
  BY DEF TargetOf, TargetIn
<1>3. \A x, t : GoodHop(verb, x, t) <=> Hops(world, known, verb, x, t)
  BY <1>1, <1>2 DEF GoodHop, Hops
<1> QED
  BY <1>1, <1>2, <1>3 DEF Leads, LeadsIn, IsPath

LEMMA ExactlyResolved ==
    ASSUME FlowTypes, ResolvedInv
    PROVE  ResolutionExact
<1> SUFFICES ASSUME world.proxyExpansion
             PROVE  /\ pc = "prepare" /\ at > Len(requests) =>
                          \A i \in DOMAIN requests : requests[i].system # "" =>
                              (resolveRequest(world, known, requests[i]).result = "resolved")
                                  = Leads(requests[i].action, resolvePluginName(world, requests[i].system))
                    /\ pc \in {"query", "snapshot", "pack", "plan", "export", "validate", "execute"} =>
                          /\ systems \cap Proxies = {}
                          /\ resolveRequests(world, known, requests) = requests
  BY Zenon DEF ResolutionExact
<1>1. ExpandsAll(world)
  BY ProxyExpansion
<1>2. IsWorld(world) /\ AreRequests(requests)
  BY FlowAssumption DEF FlowTypes
<1>3. ASSUME NEW i \in DOMAIN requests, requests[i].system # ""
      PROVE  (resolveRequest(world, known, requests[i]).result = "resolved")
                 = Leads(requests[i].action, resolvePluginName(world, requests[i].system))
  <2>1. Expands(world, requests[i])
    BY <1>1, <1>3, Zenon DEF ExpandsAll
  <2>2. IsRequest(requests[i])
    BY <1>2 DEF AreRequests
  <2>3. resolveRequest(world, known, requests[i]).result = "resolved"
           <=> Leads(requests[i].action, resolvePluginName(world, requests[i].system))
    BY <1>2, <2>1, <2>2, ResolutionDecided, LeadsAlike
  <2> QED
    BY <2>3 DEF Leads
<1>4. ASSUME pc \in Prepared
      PROVE  /\ systems \cap Proxies = {}
             /\ resolveRequests(world, known, requests) = requests
  <2>1. \A i \in DOMAIN requests : Fixed(world, known, requests[i])
    BY <1>1, <1>4 DEF ResolvedInv
  <2>2. systems \cap Proxies = {}
    BY <2>1 DEF systems, Proxies, ProxiesOf, Fixed
  <2>3. requests = [i \in DOMAIN requests |-> requests[i]]
    BY <1>2 DEF AreRequests, IsSequence
  <2>4. resolveRequests(world, known, requests) = requests
    BY <2>1, <2>3 DEF resolveRequests, Fixed
  <2> QED
    BY <2>2, <2>4
<1> QED
  BY <1>3, <1>4 DEF Prepared

(* Proxies are followed exactly as far as they lead, whatever they answer: *)
(* resolveRequest accepts a request when, and only when, allowed hops lead *)
(* from its system to one that is no proxy within the depth, and what the  *)
(* planner and the executer resolve again they find unchanged.             *)
THEOREM ProxiesFollowedExactly == Spec => []ResolutionExact
<1>1. Init => FlowTypes /\ ResolvedInv
  BY TypesInit DEF Init, ResolvedInv, Prepared
<1>2. FlowTypes /\ ResolvedInv /\ [Next]_vars => (FlowTypes /\ ResolvedInv)'
  BY TypesStep, ResolvedStep
<1>3. FlowTypes /\ ResolvedInv => ResolutionExact
  BY ExactlyResolved
<1> QED
  BY <1>1, <1>2, <1>3, PTL DEF Spec
-----------------------------------------------------------------------------
(* Validation before change.                                               *)

(* Two requests for one system and with one verb go the same way.          *)
SameWay(c, d) == /\ c.result = d.result /\ c.visited = d.visited
                 /\ c.request.system = d.request.system /\ c.request.action = d.request.action

LEMMA SameStep ==
    ASSUME NEW w, IsWorld(w), NEW kn, NEW c, NEW d, IsLink(c), IsLink(d), SameWay(c, d)
    PROVE  SameWay(Followed(w, kn, c), Followed(w, kn, d))
<1>1. CASE c.result # "more"
  BY <1>1 DEF SameWay, Followed
<1>2. CASE c.result = "more"
  <2>1. d.result = "more"
    BY <1>2 DEF SameWay
  <2>2. EndsAt(w, kn, c) <=> EndsAt(w, kn, d)
    BY DEF SameWay, EndsAt
  <2>3. HopsAt(w, kn, c) <=> HopsAt(w, kn, d)
    BY DEF SameWay, HopsAt
  <2>4. CASE EndsAt(w, kn, c)
    BY <1>2, <2>1, <2>2, <2>4, FollowEnds, EndedLink DEF SameWay
  <2>5. CASE HopsAt(w, kn, c)
    <3> DEFINE e == Followed(w, kn, c)
               f == Followed(w, kn, d)
    <3>1. /\ c.visited = d.visited /\ c.request.system = d.request.system
          /\ c.request.action = d.request.action
      BY DEF SameWay
    <3>2. /\ e.result = "more" /\ e.visited = Append(c.visited, c.request.system)
          /\ e.request.system = TargetIn(w, c.request.system)
          /\ e.request.action = c.request.action
      BY <1>2, <2>5, FollowHops
    <3>3. HopsAt(w, kn, d)
      BY <2>3, <2>5
    <3>4. /\ f.result = "more" /\ f.visited = Append(d.visited, d.request.system)
          /\ f.request.system = TargetIn(w, d.request.system)
          /\ f.request.action = d.request.action
      BY <2>1, <3>3, FollowHops
    <3> HIDE DEF e, f
    <3>5. SameWay(e, f)
      BY <3>1, <3>2, <3>4 DEF SameWay
    <3> QED
      BY <3>5 DEF e, f
  <2>6. CASE ~EndsAt(w, kn, c) /\ ~HopsAt(w, kn, c)
    BY <1>2, <2>1, <2>2, <2>3, <2>6, FollowFails, EndedLink DEF SameWay
  <2> QED
    BY <2>4, <2>5, <2>6
<1> QED
  BY <1>1, <1>2

LEMMA SameRoute ==
    ASSUME NEW w, IsWorld(w), NEW kn, NEW q, NEW p, IsRequest(q), IsRequest(p),
           q.action = p.action, q.system = p.system
    PROVE  /\ resolveRequest(w, kn, q).result = resolveRequest(w, kn, p).result
           /\ resolveRequest(w, kn, q).request.system = resolveRequest(w, kn, p).request.system
<1>1. Expands(w, q) <=> Expands(w, p)
  BY DEF Expands
<1>2. CASE ~Expands(w, q)
  BY <1>1, <1>2, NotExpandedRequest
<1>3. CASE Expands(w, q)
  <2>1. PICK f : /\ f[0] = Unresolved(w, q) /\ ChainOver(w, kn, f)
                 /\ resolveRequest(w, kn, q) = f[Bound]
    BY <1>3, ChainOf
  <2>2. PICK g : /\ g[0] = Unresolved(w, p) /\ ChainOver(w, kn, g)
                 /\ resolveRequest(w, kn, p) = g[Bound]
    BY <1>1, <1>3, ChainOf
  <2>3. \A k \in 0 .. Bound : IsLink(f[k]) /\ IsLink(g[k])
    BY <2>1, <2>2, ChainFacts DEF ChainInv
  <2> DEFINE S == {k \in 0 .. Bound : SameWay(f[k], g[k])}
  <2>4. 0 \in S
    <3>1. SameWay(f[0], g[0])
      BY <2>1, <2>2, FirstLink DEF SameWay
    <3> QED
      BY <3>1, BoundType
  <2>5. ASSUME NEW k \in 1 .. Bound, k - 1 \in S PROVE k \in S
    <3>1. k - 1 \in 0 .. Bound /\ k \in 0 .. Bound
      BY BoundType
    <3>2. SameWay(f[k - 1], g[k - 1])
      BY <2>5
    <3>3. SameWay(Followed(w, kn, f[k - 1]), Followed(w, kn, g[k - 1]))
      BY <2>3, <3>1, <3>2, SameStep
    <3>4. SameWay(f[k], g[k])
      BY <2>1, <2>2, <3>3 DEF ChainOver
    <3> QED
      BY <3>1, <3>4
  <2>6. S = 0 .. Bound
    <3> S \in SUBSET (0 .. Bound)
      OBVIOUS
    <3> HIDE DEF S
    <3> QED
      BY <2>4, <2>5, FirstFailure, BoundType
  <2>7. SameWay(f[Bound], g[Bound])
    BY <2>6, BoundType
  <2> QED
    BY <2>1, <2>2, <2>7 DEF SameWay
<1> QED
  BY <1>2, <1>3

LEMMA ListAlike ==
    ASSUME NEW w, NEW kn, NEW kn2, SameLoading(w, kn, kn2), NEW q
    PROVE  list(w, kn, q) = list(w, kn2, q)
<1>1. resolveRequest(w, kn, q) = resolveRequest(w, kn2, q)
  BY ResolvesAlike
<1>2. \A s : loadPlugin(w, kn, s) <=> loadPlugin(w, kn2, s)
  BY DEF SameLoading
<1> QED
  BY <1>1, <1>2 DEF list, Answering

(* The listing for the update of a whole system.                           *)
LEMMA ListedSystem ==
    ASSUME NEW w, IsWorld(w), NEW kn, NEW q, IsRequest(q), q.action = "UPDATE", q.packages = <<>>
    PROVE  /\ list(w, kn, q) = list(w, kn, WholeSystem(q.system))
           /\ IsFiniteSet(list(w, kn, q))
<1> DEFINE p == WholeSystem(q.system)
           c == resolveRequest(w, kn, q)
           d == resolveRequest(w, kn, p)
           s == resolvePluginName(w, c.request.system)
<1>1. IsRequest(p) /\ p.action = "UPDATE" /\ p.system = q.system /\ p.packages = <<>>
  BY RequestFields, EmptySequence DEF WholeSystem
<1> HIDE DEF p
<1>2. c.result = d.result /\ c.request.system = d.request.system
  BY <1>1, SameRoute
<1>3. c.request.packages = <<>> /\ d.request.packages = <<>>
  <2>1. c.request = Request(q.action, c.request.system, q.packages, q.target, q.flags)
    BY ResolvedRequest
  <2>2. d.request = Request(p.action, d.request.system, p.packages, p.target, p.flags)
    BY <1>1, ResolvedRequest
  <2> HIDE DEF c, d
  <2> QED
    BY <1>1, <2>1, <2>2, RequestFields
<1> HIDE DEF c, d
<1>4. /\ list(w, kn, q) = IF Answering(w, kn, c) THEN w.installed[s] ELSE {}
      /\ list(w, kn, p) = IF Answering(w, kn, d) THEN w.installed[s] ELSE {}
  BY <1>2, <1>3 DEF list, apply_requested_package_subset, c, d
<1>5. Answering(w, kn, c) <=> Answering(w, kn, d)
  BY <1>2 DEF Answering
<1>6. Answering(w, kn, c) => s \in w.loads
  BY DEF Answering, loadPlugin
<1>7. IsFiniteSet(list(w, kn, q))
  BY <1>4, <1>6, FS_EmptySet DEF IsWorld
<1> QED
  BY <1>4, <1>5, <1>7 DEF p

(* Updates are planned as they are.                                        *)
LEMMA PlannedUpdates ==
    ASSUME NEW w, NEW kn, NEW qs, DOMAIN qs # {}, \A i \in DOMAIN qs : qs[i].action = "UPDATE"
    PROVE  plan(w, kn, qs) = UNION {addRequestToGraph(w, qs[i]) : i \in DOMAIN qs}
<1>1. plan(w, kn, qs) = buildDag(w, kn, filterRequestedPackages(w, kn, qs))
  BY DEF plan, All
<1>2. \A q \in Range(qs) : q.action = "UPDATE"
  BY DEF Range
<1>3. filterRequestedPackages(w, kn, qs) = Range(qs)
  BY <1>2 DEF filterRequestedPackages, StillMissing
<1>4. buildDag(w, kn, Range(qs)) = UNION {addRequestToGraph(w, q) : q \in Range(qs)}
  BY <1>2 DEF buildDag, IncludeDependencies
<1>5. UNION {addRequestToGraph(w, q) : q \in Range(qs)}
         = UNION {addRequestToGraph(w, qs[i]) : i \in DOMAIN qs}
  BY DEF Range
<1> QED
  BY <1>1, <1>3, <1>4, <1>5

(* What a system lists as installed is what an update of it validates.     *)
LEMMA ListedIsPlanned ==
    ASSUME NEW w, IsWorld(w), NEW kn, NEW q, IsRequest(q),
           request_targets_system_wide_package_update(q),
           NEW new, new = WithListed(w, kn, q),
           NEW resolved, resolved = resolveRequest(w, kn, new).request,
           NEW whole, whole = WholeSystem(q.system)
    PROVE  /\ resolved.action = "UPDATE"
           /\ new.packages = <<>> => addRequestToGraph(w, resolved) = {}
           /\ \A info \in list(w, kn, whole) : info.name # "" =>
                 Item(resolvePluginName(w, resolveRequest(w, kn, whole).request.system),
                      info, NoTarget)
                    \in addRequestToGraph(w, resolved)
<1> DEFINE S == {info \in list(w, kn, q) : info.name # ""}
           p == SetToSeq(S)
           t == resolved.system
<1>1. q.action = "UPDATE" /\ q.packages = <<>> /\ q.target = NoTarget
  BY DEF request_targets_system_wide_package_update, SystemOnly, UsesLocalTarget
<1>2. list(w, kn, q) = list(w, kn, whole) /\ IsFiniteSet(S)
  BY <1>1, ListedSystem, FS_Subset
<1>3. IsSequence(p)
  BY <1>2, ListedSet
<1>4. Range(p) = S
  BY <1>2, ListedSet
<1>5. new = Request("UPDATE", q.system, p, NoTarget, q.flags)
  BY <1>1, PackagesChanged DEF WithListed, package_specifiers_from_infos
<1> HIDE DEF p, S
<1>6. IsRequest(new) /\ new.action = "UPDATE" /\ new.system = q.system
  BY <1>3, <1>5, RequestFields
<1>7. new.packages = p /\ new.target = NoTarget /\ new.flags = q.flags
  BY <1>5, RequestFields
<1>8. resolved = Request("UPDATE", t, p, NoTarget, q.flags)
  BY <1>6, <1>7, ResolvedRequest
<1>9. IsRequest(whole) /\ whole.action = "UPDATE" /\ whole.system = q.system
  BY RequestFields, EmptySequence DEF WholeSystem
<1>10. t = resolveRequest(w, kn, whole).request.system
  BY <1>6, <1>9, SameRoute
<1>11. resolved.action = "UPDATE" /\ resolved.packages = p /\ resolved.target = NoTarget
  BY <1>8, RequestFields
<1>12. p = <<>> => addRequestToGraph(w, resolved) = {}
  BY <1>11 DEF addRequestToGraph, UsesLocalTarget
<1>13. ASSUME NEW info \in S
       PROVE  Item(resolvePluginName(w, t), info, NoTarget) \in addRequestToGraph(w, resolved)
  <2>1. PICK k \in DOMAIN p : p[k] = info
    BY <1>4 DEF Range
  <2>2. p # <<>>
    <3>1. DOMAIN <<>> = {}
      OBVIOUS
    <3> QED
      BY <2>1, <3>1
  <2>3. addRequestToGraph(w, resolved)
           = {Item(resolvePluginName(w, t), p[i], NoTarget) : i \in DOMAIN p}
    BY <1>11, <2>2 DEF addRequestToGraph
  <2> QED
    BY <2>1, <2>3
<1>14. \A info \in list(w, kn, whole) : info.name # "" => info \in S
  BY <1>2 DEF S
<1> QED
  BY <1>7, <1>10, <1>11, <1>12, <1>13, <1>14

LEMMA WidelyCleared ==
    ASSUME NEW w, IsWorld(w), NEW kn, NEW qs, AreRequests(qs),
           All(qs, request_targets_system_wide_package_update)
    PROVE  LET expanded == expand_system_wide_update_requests(w, kn, qs)
               packages == plan(w, kn, resolveRequests(w, kn, expanded))
           IN  /\ (\A i \in DOMAIN expanded : expanded[i].packages = <<>>) => packages = {}
               /\ \A i \in DOMAIN qs : \A info \in list(w, kn, WholeSystem(qs[i].system)) :
                     info.name # "" =>
                        Item(resolvePluginName(w,
                                resolveRequest(w, kn, WholeSystem(qs[i].system)).request.system),
                             info, NoTarget) \in packages
<1> DEFINE expanded == expand_system_wide_update_requests(w, kn, qs)
           resolved == resolveRequests(w, kn, expanded)
           packages == plan(w, kn, resolved)
           whole(i) == WholeSystem(qs[i].system)
<1>1. DOMAIN expanded = DOMAIN qs /\ \A i \in DOMAIN qs : expanded[i] = WithListed(w, kn, qs[i])
  BY DEF expand_system_wide_update_requests
<1> HIDE DEF expanded
<1>2. /\ DOMAIN resolved = DOMAIN qs
      /\ \A i \in DOMAIN qs : resolved[i] = resolveRequest(w, kn, expanded[i]).request
  BY <1>1 DEF resolveRequests
<1> HIDE DEF resolved
<1>3. DOMAIN qs # {}
  <2>1. qs # <<>> /\ qs = [i \in 1 .. Len(qs) |-> qs[i]] /\ DOMAIN qs = 1 .. Len(qs)
    BY SequenceIsSeq DEF All, AreRequests, IsSequence
  <2> QED
    BY <2>1
<1>4. ASSUME NEW i \in DOMAIN qs
      PROVE  /\ resolved[i].action = "UPDATE"
             /\ expanded[i].packages = <<>> => addRequestToGraph(w, resolved[i]) = {}
             /\ \A info \in list(w, kn, whole(i)) : info.name # "" =>
                   Item(resolvePluginName(w, resolveRequest(w, kn, whole(i)).request.system),
                        info, NoTarget)
                      \in addRequestToGraph(w, resolved[i])
  <2>1. IsRequest(qs[i]) /\ request_targets_system_wide_package_update(qs[i])
    BY DEF AreRequests, All
  <2> DEFINE q == qs[i]
             new == expanded[i]
             after == resolved[i]
             all == whole(i)
  <2>2. /\ new = WithListed(w, kn, q) /\ after = resolveRequest(w, kn, new).request
        /\ all = WholeSystem(q.system)
        /\ IsRequest(q) /\ request_targets_system_wide_package_update(q) /\ IsWorld(w)
    BY <1>1, <1>2, <2>1
  <2> HIDE DEF q, new, after, all
  <2>3. /\ after.action = "UPDATE"
        /\ new.packages = <<>> => addRequestToGraph(w, after) = {}
        /\ \A info \in list(w, kn, all) : info.name # "" =>
              Item(resolvePluginName(w, resolveRequest(w, kn, all).request.system), info, NoTarget)
                 \in addRequestToGraph(w, after)
    BY ONLY <2>2, ListedIsPlanned
  <2> QED
    BY <2>3 DEF new, after, all
<1>5. \A i \in DOMAIN resolved : resolved[i].action = "UPDATE"
  BY <1>2, <1>4
<1>6. packages = UNION {addRequestToGraph(w, resolved[i]) : i \in DOMAIN resolved}
  BY <1>2, <1>3, <1>5, PlannedUpdates
<1> HIDE DEF packages, whole
<1>7. ASSUME \A i \in DOMAIN expanded : expanded[i].packages = <<>> PROVE packages = {}
  <2>1. \A i \in DOMAIN resolved : addRequestToGraph(w, resolved[i]) = {}
    BY <1>1, <1>2, <1>4, <1>7
  <2> QED
    BY <1>6, <2>1
<1>8. ASSUME NEW i \in DOMAIN qs, NEW info \in list(w, kn, whole(i)), info.name # ""
      PROVE  Item(resolvePluginName(w, resolveRequest(w, kn, whole(i)).request.system), info, NoTarget)
                \in packages
  BY <1>2, <1>4, <1>6, <1>8
<1> QED
  BY <1>7, <1>8 DEF expanded, resolved, packages, whole

(* The requests of a system-wide update are nothing else.                  *)
WideInv == pc \in {"system-wide", "update-systems"} =>
              All(requests, request_targets_system_wide_package_update)

(* Before updateSystems everything listed has been validated, before the   *)
(* executer the graph has been.                                            *)
ListedIn(s, S) == \A info \in list(world, known, WholeSystem(s)) :
                     info.name # "" => Item(UpdatedSystem(s), info, NoTarget) \in S

ClearedInv ==
    /\ pc = "update-systems" => Validated(cleared) /\ \A s \in systems : ListedIn(s, cleared)
    /\ pc = "execute" => cleared = graph /\ Validated(graph)

(* Nothing is changed before the last step.                                *)
ChangedInv ==
    /\ {"executed", "updated"} \subseteq DOMAIN did
    /\ pc # "done" => did.executed = {} /\ did.updated = {}

ValidationInv == WideInv /\ ClearedInv /\ ChangedInv /\ ValidatedBeforeChanged

LEMMA StillNothing ==
    ASSUME {"executed", "updated"} \subseteq DOMAIN did', did'.executed = {}, did'.updated = {},
           pc' \notin {"system-wide", "update-systems", "execute"}
    PROVE  ValidationInv'
BY DEF ValidationInv, WideInv, ClearedInv, ChangedInv, ValidatedBeforeChanged

LEMMA DidKept ==
    ASSUME ChangedInv, pc # "done",
           NEW field \in {"refreshed", "removed", "exported", "skipped", "artifact", "picked"},
           NEW x, did' = [did EXCEPT ![field] = x]
    PROVE  {"executed", "updated"} \subseteq DOMAIN did' /\ did'.executed = {} /\ did'.updated = {}
BY DEF ChangedInv

LEMMA SystemWideCleared ==
    ASSUME FlowTypes, WideInv, ListAndValidate, pc' = "update-systems"
    PROVE  Validated(cleared)' /\ \A s \in systems' : ListedIn(s, cleared)'
<1> DEFINE expanded == expand_system_wide_update_requests(world, known, requests)
           packages == plan(world, known, resolveRequests(world, known, expanded))
<1>1. IsWorld(world) /\ AreRequests(requests)
  BY FlowAssumption DEF FlowTypes
<1>2. All(requests, request_targets_system_wide_package_update)
  BY DEF WideInv, ListAndValidate
<1>3. /\ cleared' = packages
      /\ (\A i \in DOMAIN expanded : expanded[i].packages = <<>>) \/ Validated(packages)
  BY DEF ListAndValidate, ValidateSystemWide, Return
<1>4. UNCHANGED <<world, records, requests>>
      /\ plugins' = AfterLoading(world, known, AskedFor(world, known, requests))
  BY DEF ListAndValidate, asked
<1>5. /\ (\A i \in DOMAIN expanded : expanded[i].packages = <<>>) => packages = {}
      /\ \A i \in DOMAIN requests :
            \A info \in list(world, known, WholeSystem(requests[i].system)) : info.name # "" =>
               Item(resolvePluginName(world,
                       resolveRequest(world, known, WholeSystem(requests[i].system)).request.system),
                    info, NoTarget) \in packages
  BY <1>1, <1>2, WidelyCleared
<1> HIDE DEF expanded, packages
<1>6. Validated(cleared)'
  BY <1>3, <1>4, <1>5 DEF Validated
<1>7. SameLoading(world, known, known')
  <2>1. known'.records = known.records /\ known'.plugins = plugins'
    BY <1>4 DEF known
  <2> QED
    BY <1>4, <2>1, LoadingKeeps
<1>8. ASSUME NEW s \in systems PROVE ListedIn(s, cleared)'
  <2> DEFINE all == WholeSystem(s)
  <2>1. \A info \in list(world, known, all) : info.name # "" =>
           Item(resolvePluginName(world, resolveRequest(world, known, all).request.system),
                info, NoTarget) \in packages
    BY <1>5 DEF systems
  <2>2. /\ list(world, known, all) = list(world, known', all)
        /\ resolveRequest(world, known, all) = resolveRequest(world, known', all)
    BY <1>7, ListAlike, ResolvesAlike
  <2> QED
    BY <1>3, <1>4, <2>1, <2>2 DEF ListedIn, UpdatedSystem
<1>9. systems' = systems
  BY <1>4 DEF systems
<1> QED
  BY <1>6, <1>8, <1>9

LEMMA SystemsUpdated ==
    ASSUME ValidationInv, NEW failed, UpdateSystems(failed)
    PROVE  ValidationInv'
<1>1. /\ pc = "update-systems" /\ pc' = "done" /\ cleared' = cleared
      /\ UNCHANGED <<world, records, plugins, requests>>
      /\ did' = [did EXCEPT !.updated = systems \ failed]
  BY DEF UpdateSystems, Return, asked
<1>2. /\ {"executed", "updated"} \subseteq DOMAIN did' /\ did'.executed = {}
      /\ did'.updated = systems \ failed
  BY <1>1 DEF ValidationInv, ChangedInv
<1>3. Validated(cleared) /\ \A s \in systems : ListedIn(s, cleared)
  BY <1>1 DEF ValidationInv, ClearedInv
<1>4. \A s : ListedIn(s, cleared) => ListedIn(s, cleared)'
  BY <1>1 DEF ListedIn, known, UpdatedSystem
<1>5. (cleared \cap world.vulnerable = {})'
  BY <1>1, <1>3 DEF Validated
<1>6. ValidatedBeforeChanged'
  <2>1. \A s \in did'.updated : ListedIn(s, cleared)'
    BY <1>2, <1>3, <1>4
  <2> QED
    BY <1>2, <1>5, <2>1 DEF ValidatedBeforeChanged, ListedIn
<1> QED
  BY <1>1, <1>2, <1>6 DEF ValidationInv, WideInv, ClearedInv, ChangedInv

LEMMA GraphExecuted ==
    ASSUME ValidationInv, NEW failed, Execute(failed)
    PROVE  ValidationInv'
<1> DEFINE Content(item) == IF item.source = NoTarget THEN "" ELSE files[item.source].content
<1>1. /\ pc = "execute" /\ pc' = "done" /\ cleared' = cleared /\ world' = world
      /\ did' = [did EXCEPT !.executed = {<<item, Content(item)>> : item \in graph \ failed}]
  BY DEF Execute, Return, asked
<1> HIDE DEF Content
<1>2. /\ {"executed", "updated"} \subseteq DOMAIN did' /\ did'.updated = {}
      /\ did'.executed = {<<item, Content(item)>> : item \in graph \ failed}
  BY <1>1 DEF ValidationInv, ChangedInv
<1>3. cleared = graph /\ Validated(graph)
  BY <1>1 DEF ValidationInv, ClearedInv
<1>4. {x[1] : x \in did'.executed} \subseteq cleared'
  BY <1>1, <1>2, <1>3
<1>5. (cleared \cap world.vulnerable = {})'
  BY <1>1, <1>3 DEF Validated
<1>6. ValidatedBeforeChanged'
  BY <1>2, <1>4, <1>5 DEF ValidatedBeforeChanged
<1> QED
  BY <1>1, <1>2, <1>6 DEF ValidationInv, WideInv, ClearedInv, ChangedInv

LEMMA ValidationStep ==
    ASSUME FlowTypes, ValidationInv, [Next]_vars
    PROVE  ValidationInv'
<1> USE DEF asked, OnlyPrepares
<1> DEFINE Late == {"system-wide", "update-systems", "execute"}
<1>1. CASE UNCHANGED vars
  <2>1. known' = known /\ systems' = systems
    BY <1>1 DEF vars, known, systems
  <2>2. \A s : UpdatedSystem(s)' = UpdatedSystem(s)
    BY <1>1, <2>1 DEF vars, UpdatedSystem
  <2>3. \A s : ListedIn(s, cleared)' <=> ListedIn(s, cleared)
    BY <1>1, <2>1, <2>2 DEF vars, ListedIn
  <2>4. ValidatedBeforeChanged'
    BY <1>1, <2>3 DEF vars, ValidationInv, ValidatedBeforeChanged, ListedIn
  <2>5. WideInv' /\ ChangedInv'
    BY <1>1 DEF vars, ValidationInv, WideInv, ChangedInv
  <2>6. ClearedInv'
    BY <1>1, <2>1, <2>3 DEF vars, ValidationInv, ClearedInv, Validated
  <2> QED
    BY <2>4, <2>5, <2>6 DEF ValidationInv
<1>2. ASSUME did' = did, pc # "done", pc' \notin Late PROVE ValidationInv'
  BY <1>2, StillNothing DEF ValidationInv, ChangedInv
<1>3. ASSUME NEW field \in {"refreshed", "removed", "exported", "skipped", "artifact", "picked"},
             NEW x, did' = [did EXCEPT ![field] = x], pc # "done", pc' \notin Late
      PROVE  ValidationInv'
  BY <1>3, StillNothing, DidKept DEF ValidationInv
<1>4. ASSUME NEW ok \in BOOLEAN, RefreshRegistry(ok) PROVE ValidationInv'
  BY <1>2, <1>4 DEF RefreshRegistry, Goto
<1>5. ASSUME NEW failed, NextItem(failed), pc \notin Late PROVE pc' \notin Late
  BY <1>5 DEF NextItem, Return
<1>6. ASSUME NEW ok \in BOOLEAN, RefreshWrapper(ok) PROVE ValidationInv'
  <2>1. pc = "refresh" /\ pc' \notin Late
    BY <1>5, <1>6 DEF RefreshWrapper
  <2>2. did' = did \/ \E x : did' = [did EXCEPT !["refreshed"] = x]
    BY <1>6 DEF RefreshWrapper
  <2> QED
    BY <1>2, <1>3, <2>1, <2>2
<1>7. ASSUME NEW ok \in BOOLEAN, PluginInstall(ok) PROVE ValidationInv'
  BY <1>2, <1>5, <1>7 DEF PluginInstall
<1>8. ASSUME NEW ok \in BOOLEAN, PluginRemove(ok) PROVE ValidationInv'
  <2>1. pc = "plugin-remove" /\ pc' \notin Late
    BY <1>5, <1>8 DEF PluginRemove
  <2>2. did' = did \/ \E x : did' = [did EXCEPT !["removed"] = x]
    BY <1>8 DEF PluginRemove
  <2> QED
    BY <1>2, <1>3, <2>1, <2>2
<1>9. ASSUME NEW ok \in BOOLEAN, Snapshot(ok) PROVE ValidationInv'
  BY <1>2, <1>9 DEF Snapshot, Return
<1>10. ASSUME NEW ok \in BOOLEAN, Export(ok) PROVE ValidationInv'
  <2>1. did' = did \/ \E x : did' = [did EXCEPT !["exported"] = x]
    BY <1>10 DEF Export
  <2> QED
    BY <1>2, <1>3, <1>10, <2>1 DEF Export, Return
<1>11. CASE ExpandAndDiscover
  BY <1>2, <1>11 DEF ExpandAndDiscover, Goto, Return
<1>12. CASE Dispatch
  <2>1. /\ pc' \in {"system-wide", "refresh", "plugin-install", "plugin-remove", "prepare"}
        /\ pc' = "system-wide" => All(requests', request_targets_system_wide_package_update)
    BY <1>12 DEF Dispatch, Goto, Flow
  <2>2. WideInv' /\ ClearedInv'
    BY <2>1 DEF WideInv, ClearedInv
  <2>3. pc = "rewrite" /\ did' = did
    BY <1>12 DEF Dispatch
  <2> QED
    BY <2>2, <2>3 DEF ValidationInv, ChangedInv, ValidatedBeforeChanged
<1>13. CASE ListAndValidate
  <2>1. pc = "system-wide" /\ did' = did /\ requests' = requests
    BY <1>13 DEF ListAndValidate
  <2>2. pc' \in {"update-systems", "done"}
    BY <1>13 DEF ListAndValidate, ValidateSystemWide, Goto, Return
  <2>3. CASE pc' = "done"
    BY <1>2, <2>1, <2>3
  <2>4. CASE pc' = "update-systems"
    <3>1. WideInv'
      BY <2>1 DEF ValidationInv, WideInv
    <3>2. ClearedInv'
      BY <1>13, <2>4, SystemWideCleared DEF ValidationInv, ClearedInv
    <3>3. ChangedInv' /\ ValidatedBeforeChanged'
      BY <2>1 DEF ValidationInv, ChangedInv, ValidatedBeforeChanged
    <3> QED
      BY <3>1, <3>2, <3>3 DEF ValidationInv
  <2> QED
    BY <2>2, <2>3, <2>4
<1>14. ASSUME NEW failed, UpdateSystems(failed) PROVE ValidationInv'
  BY <1>14, SystemsUpdated
<1>15. CASE SkipRequest \/ Download \/ Unpack
  BY <1>2, <1>15 DEF SkipRequest, Download, Unpack, Preparing
<1>16. CASE DownloadFails \/ UnpackThrows \/ ResolveTarget
  BY <1>2, <1>16 DEF DownloadFails, UnpackThrows, ResolveTarget, Preparing, Return
<1>17. CASE ResolveRequests
  BY <1>2, <1>17 DEF ResolveRequests, Goto, Workflow, Return
<1>18. CASE Query
  <2>1. \E x : did' = [did EXCEPT !["exported"] = x]
    BY <1>18 DEF Query
  <2> QED
    BY <1>3, <1>18, <2>1 DEF Query, Return
<1>19. ASSUME NEW spec, PickSearchResult(spec) PROVE ValidationInv'
  <2>1. \E x : did' = [did EXCEPT !["picked"] = x]
    BY <1>19 DEF PickSearchResult
  <2> QED
    BY <1>3, <1>19, <2>1 DEF PickSearchResult, Goto
<1>20. ASSUME NEW ok \in BOOLEAN, NEW registered \in BOOLEAN, NEW written \in BOOLEAN,
              Pack(ok, registered, written)
       PROVE  ValidationInv'
  <2>1. \E x : did' = [did EXCEPT !["artifact"] = x]
    BY <1>20 DEF Pack
  <2> QED
    BY <1>3, <1>20, <2>1 DEF Pack, Return
<1>21. CASE Plan
  <2>1. did' = did \/ \E x : did' = [did EXCEPT !["skipped"] = x]
    BY <1>21 DEF Plan, PlanWith
  <2>2. pc = "plan" /\ pc' \notin Late
    BY <1>21 DEF Plan, PlanWith, Goto, Return
  <2> QED
    BY <1>2, <1>3, <2>1, <2>2
<1>22. CASE Validate
  <2>1. pc = "validate" /\ did' = did /\ graph' = graph /\ world' = world
    BY <1>22 DEF Validate
  <2>2. \/ pc' = "done"
        \/ pc' = "execute" /\ cleared' = graph /\ Validated(graph)
    BY <1>22 DEF Validate, ValidateGraph, Goto, Return
  <2>3. CASE pc' = "done"
    BY <1>2, <2>1, <2>3
  <2>4. CASE pc' = "execute" /\ cleared' = graph /\ Validated(graph)
    BY <2>1, <2>4
       DEF ValidationInv, WideInv, ClearedInv, ChangedInv, ValidatedBeforeChanged, Validated
  <2> QED
    BY <2>2, <2>3, <2>4
<1>23. ASSUME NEW failed, Execute(failed) PROVE ValidationInv'
  BY <1>23, GraphExecuted
<1> QED
  BY <1>1, <1>4, <1>6, <1>7, <1>8, <1>9, <1>10, <1>11, <1>12, <1>13, <1>14, <1>15,
     <1>16, <1>17, <1>18, <1>19, <1>20, <1>21, <1>22, <1>23 DEF Next

(* Nothing is executed that the validator has not passed, and no system is *)
(* updated whose installed packages it has not seen, whatever aliases and  *)
(* proxies stand between the request and the system: what                  *)
(* run_system_wide_update lists and validates is what updateSystems        *)
(* updates, and the graph that runs is the graph that was validated.       *)
THEOREM ValidatedBeforeExecuted == Spec => []ValidatedBeforeChanged
<1>1. Init => FlowTypes /\ ValidationInv
  <2> SUFFICES ASSUME Init PROVE ValidationInv
    BY TypesInit
  <2>1. pc = "start" /\ did = NothingDone
    BY DEF Init
  <2>2. {"executed", "updated"} \subseteq DOMAIN did /\ did.executed = {} /\ did.updated = {}
    BY <2>1 DEF NothingDone
  <2> QED
    BY <2>1, <2>2 DEF ValidationInv, WideInv, ClearedInv, ChangedInv, ValidatedBeforeChanged
<1>2. FlowTypes /\ ValidationInv /\ [Next]_vars => (FlowTypes /\ ValidationInv)'
  BY TypesStep, ValidationStep
<1>3. ValidationInv => ValidatedBeforeChanged
  BY DEF ValidationInv
<1> QED
  BY <1>1, <1>2, <1>3, PTL DEF Spec
=============================================================================
