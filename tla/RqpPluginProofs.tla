--------------------------- MODULE RqpPluginProofs ---------------------------
(***************************************************************************)
(* Proofs about the native rqp plugin and its state store (module          *)
(* RqpPlugin) for every repository index, every set of packages and every  *)
(* number of calls and faults.                                             *)
(***************************************************************************)
EXTENDS RqpPlugin, FiniteSetTheorems, NaturalsInduction, WellFoundedInduction, TLAPS

-----------------------------------------------------------------------------
(* Sequences of paths.                                                     *)

LEMMA AppendRange ==
    ASSUME NEW P, NEW s \in Seq(P), NEW x \in P
    PROVE  Append(s, x) \in Seq(P) /\ Range(Append(s, x)) = Range(s) \cup {x}
<1>1. /\ Append(s, x) \in Seq(P) /\ DOMAIN Append(s, x) = 1..(Len(s) + 1)
      /\ \A i \in 1..Len(s) : Append(s, x)[i] = s[i]
      /\ Append(s, x)[Len(s) + 1] = x
      /\ Len(s) \in Nat /\ DOMAIN s = 1..Len(s)
  <2>1. Append(s, x) \in Seq(P) /\ Len(Append(s, x)) = Len(s) + 1 /\ Len(s) \in Nat
    OBVIOUS
  <2>2. DOMAIN Append(s, x) = 1..(Len(s) + 1) /\ DOMAIN s = 1..Len(s)
    BY <2>1
  <2>3. \A i \in 1..Len(s) : Append(s, x)[i] = s[i]
    OBVIOUS
  <2>4. Append(s, x)[Len(s) + 1] = x
    OBVIOUS
  <2> QED
    BY <2>1, <2>2, <2>3, <2>4
<1>2. \A i \in 1..(Len(s) + 1) : i \in 1..Len(s) \/ i = Len(s) + 1
  BY <1>1
<1>3. 1..Len(s) \subseteq 1..(Len(s) + 1) /\ Len(s) + 1 \in 1..(Len(s) + 1)
  BY <1>1
<1>4. ASSUME NEW y \in Range(Append(s, x)) PROVE y \in Range(s) \cup {x}
  BY <1>1, <1>2, <1>4 DEF Range
<1>5. ASSUME NEW y \in Range(s) \cup {x} PROVE y \in Range(Append(s, x))
  BY <1>1, <1>3, <1>5 DEF Range
<1> QED
  BY <1>1, <1>4, <1>5

LEMMA TailRange ==
    ASSUME NEW P, NEW s \in Seq(P), s # <<>>
    PROVE  /\ Head(s) \in P /\ Tail(s) \in Seq(P)
           /\ Range(s) = {Head(s)} \cup Range(Tail(s))
<1>1. /\ Tail(s) \in Seq(P) /\ DOMAIN Tail(s) = 1..(Len(s) - 1)
      /\ \A i \in 1..(Len(s) - 1) : Tail(s)[i] = s[i + 1]
      /\ Head(s) = s[1] /\ Len(s) \in Nat \ {0} /\ DOMAIN s = 1..Len(s)
  OBVIOUS
<1>2. \A i \in 1..Len(s) : i = 1 \/ (i - 1 \in 1..(Len(s) - 1) /\ (i - 1) + 1 = i)
  BY <1>1
<1>3. \A i \in 1..(Len(s) - 1) : i + 1 \in 1..Len(s)
  BY <1>1
<1>4. 1 \in 1..Len(s) /\ s[1] \in P
  BY <1>1
<1>5. ASSUME NEW y \in Range(s) PROVE y \in {Head(s)} \cup Range(Tail(s))
  <2>1. PICK i \in 1..Len(s) : y = s[i]
    BY <1>1, <1>5 DEF Range
  <2>2. CASE i = 1
    BY <1>1, <2>1, <2>2
  <2>3. CASE i - 1 \in 1..(Len(s) - 1) /\ (i - 1) + 1 = i
    <3>1. Tail(s)[i - 1] = y
      BY <1>1, <2>1, <2>3
    <3> QED
      BY <1>1, <2>3, <3>1 DEF Range
  <2> QED
    BY <1>2, <2>2, <2>3
<1>6. ASSUME NEW y \in {Head(s)} \cup Range(Tail(s)) PROVE y \in Range(s)
  BY <1>1, <1>3, <1>4, <1>6 DEF Range
<1> QED
  BY <1>1, <1>4, <1>5, <1>6

LEMMA ReverseRange ==
    ASSUME NEW P, NEW s \in Seq(P)
    PROVE  /\ Reverse(s) \in Seq(P) /\ Range(Reverse(s)) = Range(s)
           /\ Reverse(s) = <<>> => s = <<>>
<1> DEFINE n == Len(s)
<1>1. n \in Nat /\ DOMAIN s = 1..n /\ \A i \in 1..n : s[i] \in P
  OBVIOUS
<1>2. Reverse(s) = [i \in 1..n |-> s[(n - i) + 1]]
  BY DEF Reverse
<1>3. \A i \in 1..n : (n - i) + 1 \in 1..n /\ (n - ((n - i) + 1)) + 1 = i
  BY <1>1
<1> HIDE DEF n
<1>4. DOMAIN Reverse(s) = 1..n /\ \A i \in 1..n : Reverse(s)[i] = s[(n - i) + 1]
  BY <1>2
<1>5. Reverse(s) \in Seq(P) /\ Len(Reverse(s)) = n
  <2>1. Reverse(s) \in [1..n -> P]
    BY <1>1, <1>2, <1>3
  <2> QED
    BY <1>1, <1>4, <2>1
<1>6. Range(Reverse(s)) \subseteq Range(s)
  BY <1>1, <1>3, <1>4 DEF Range
<1>7. ASSUME NEW y \in Range(s) PROVE y \in Range(Reverse(s))
  <2>1. PICK i \in 1..n : y = s[i]
    BY <1>1, <1>7 DEF Range
  <2>2. Reverse(s)[(n - i) + 1] = s[i]
    BY <1>3, <1>4
  <2> QED
    BY <1>3, <1>4, <2>1, <2>2 DEF Range
<1>8. Reverse(s) = <<>> => s = <<>>
  BY <1>1, <1>5 DEF n
<1> QED
  BY <1>5, <1>6, <1>7, <1>8

LEMMA EmptyRange == Range(<<>>) = {} /\ <<>> \in Seq(Paths)
BY DEF Range

-----------------------------------------------------------------------------
(* Choosing among packages: there is a highest and a lowest one.  The      *)
(* induction is over the number of packages, in the form that a nonempty   *)
(* set of natural numbers has a least element.                             *)

LEMMA LeastNumber ==
    ASSUME NEW T \in SUBSET Nat, T # {}
    PROVE  \E n \in T : \A m \in T : n <= m
<1> DEFINE less == {ss \in Nat \X Nat : ss[1] < ss[2]}
<1>1. IsWellFoundedOn(less, Nat)
  BY NatLessThanWellFounded DEF OpToRel
<1>2. \A x, y \in T : <<y, x>> \in less <=> y < x
  OBVIOUS
<1> HIDE DEF less
<1>3. PICK x \in T : \A y \in T : ~(<<y, x>> \in less)
  BY <1>1, WFMin
<1>4. \A y \in T : ~(y < x)
  BY <1>2, <1>3
<1>5. \A y \in T : x <= y
  BY <1>4
<1> QED
  BY <1>5

LEMMA LowestThere ==
    ASSUME NEW S \in SUBSET Ids, S # {}
    PROVE  Lowest(S) \in S
<1> DEFINE versions == {id.version : id \in S}
<1>1. versions \in SUBSET Nat /\ versions # {}
  BY RqpAssumption
<1>2. PICK v \in versions : \A w \in versions : v <= w
  BY <1>1, LeastNumber
<1>3. PICK id \in S : id.version = v
  BY <1>2
<1>4. \A other \in S : other.version >= id.version
  BY <1>1, <1>2, <1>3
<1> QED
  BY <1>3, <1>4 DEF Lowest

LEMMA HighestThere ==
    ASSUME NEW S \in SUBSET Ids, S # {}
    PROVE  Highest(S) \in S
<1> DEFINE Top(X) == \E id \in X : \A other \in X : other.version <= id.version
           Bad(n) == \E X \in SUBSET Ids : X # {} /\ Cardinality(X) = n /\ ~Top(X)
           T == {n \in Nat : Bad(n)}
<1>1. \A X \in SUBSET Ids : IsFiniteSet(X) /\ Cardinality(X) \in Nat
  BY RqpAssumption, FS_Subset, FS_CardinalityType
<1>2. T = {}
  <2> SUFFICES ASSUME T # {} PROVE FALSE
    OBVIOUS
  <2>1. PICK n \in T : \A m \in T : n <= m
    BY LeastNumber
  <2>2. PICK X \in SUBSET Ids : X # {} /\ Cardinality(X) = n /\ ~Top(X)
    BY <2>1
  <2>3. PICK x \in X : TRUE
    BY <2>2
  <2> DEFINE Y == X \ {x}
  <2>4. Y \in SUBSET Ids /\ Cardinality(Y) = n - 1 /\ n \in Nat
    BY <1>1, <2>1, <2>2, FS_RemoveElement
  <2>5. Cardinality(Y) \in Nat /\ ~(n <= n - 1)
    BY <1>1, <2>4
  <2>6. ~Bad(n - 1)
    BY <2>1, <2>4, <2>5
  <2>7. CASE Y = {}
    <3>1. \A other \in X : other.version <= x.version
      BY <2>3, <2>7, RqpAssumption
    <3> QED
      BY <2>2, <2>3, <3>1
  <2>8. CASE Y # {}
    <3>1. Top(Y)
      BY <2>4, <2>6, <2>8
    <3>2. PICK y \in Y : \A other \in Y : other.version <= y.version
      BY <3>1
    <3>3. x.version \in Nat /\ y.version \in Nat /\ \A other \in X : other.version \in Nat
      BY <2>2, <2>3, <3>2, RqpAssumption
    <3>4. CASE x.version <= y.version
      BY <2>2, <3>2, <3>4
    <3>5. CASE ~(x.version <= y.version)
      <4>1. \A other \in X : other.version <= x.version
        BY <3>2, <3>3, <3>5
      <4> QED
        BY <2>2, <4>1
    <3> QED
      BY <3>4, <3>5
  <2> QED
    BY <2>7, <2>8
<1>3. Top(S)
  BY <1>1, <1>2
<1> QED
  BY <1>3 DEF Highest

-----------------------------------------------------------------------------
(* The repository.                                                         *)

(* What Resolve finds is an entry of the index, under the name and, when   *)
(* one is asked for, with the version of the request.                      *)
Answered(entry, request) ==
    /\ Catalogue[entry].name = request.name
    /\ request.version = 0 \/ Catalogue[entry].version = request.version

LEMMA ResolveFinds ==
    ASSUME published \in {{}, Entries}, NEW request
    PROVE  /\ Resolve(request) \in Entries \cup {None}
           /\ Resolve(request) # None => Answered(Resolve(request), request)
<1> DEFINE S == {Catalogue[e] : e \in published}
           listed == SetToSeq(S)
           doc == [schemaVersion |-> 1, packages |-> listed]
           index == parse_index_impl(doc, "main")
           indexes == <<index>>
           normal == [i \in DOMAIN listed |->
                        [listed[i] EXCEPT !.architecture = rq_normalize_architecture(@),
                                          !.systems = rq_normalize_systems(@)]]
<1>1. S \subseteq PackageRecords /\ \A r \in S : r.entry \in Entries /\ r = Catalogue[r.entry]
  BY RqpAssumption
<1>2. IsFiniteSet(S) /\ Cardinality(S) \in Nat /\ ExistsBijection(1..Cardinality(S), S)
  <2>1. IsFiniteSet(published)
    BY RqpAssumption, FS_EmptySet
  <2> DEFINE f == [e \in published |-> Catalogue[e]]
  <2>2. f \in Surjection(published, S)
    BY DEF Surjection
  <2>3. IsFiniteSet(S)
    BY <2>1, <2>2, FS_Surjection DEF ExistsSurjection
  <2> QED
    BY <2>3, FS_CardinalityType
<1>3. listed \in [1..Cardinality(S) -> S]
  <2>1. \E f \in [1..Cardinality(S) -> S] : IsInjective(f)
    BY <1>2 DEF ExistsBijection, Bijection, Injection, IsInjective
  <2> QED
    BY <2>1 DEF SetToSeq
<1> HIDE DEF S
<1>4. \A i \in DOMAIN listed : /\ listed[i] \in PackageRecords /\ listed[i].entry \in Entries
                               /\ listed[i] = Catalogue[listed[i].entry]
  BY <1>1, <1>3
<1> HIDE DEF listed
<1>5. index = [source |-> "main", packages |-> normal]
  <2>1. \A i \in DOMAIN doc.packages :
           doc.packages[i].complete /\ doc.packages[i].packageSha256 # "malformed"
    BY <1>4 DEF PackageRecords
  <2> QED
    BY <2>1 DEF parse_index_impl
<1>6. \A i \in DOMAIN normal : /\ normal[i].entry \in Entries
                               /\ normal[i].name = Catalogue[normal[i].entry].name
                               /\ normal[i].version = Catalogue[normal[i].entry].version
  <2> SUFFICES ASSUME NEW i \in DOMAIN listed
               PROVE  /\ normal[i].entry \in Entries
                      /\ normal[i].name = Catalogue[normal[i].entry].name
                      /\ normal[i].version = Catalogue[normal[i].entry].version
    OBVIOUS
  <2> DEFINE r == listed[i]
             architecture == rq_normalize_architecture(r.architecture)
             systems == rq_normalize_systems(r.systems)
  <2>1. normal[i] = [r EXCEPT !.architecture = architecture, !.systems = systems]
    OBVIOUS
  <2>2. r \in PackageRecords /\ r.entry \in Entries /\ r = Catalogue[r.entry]
    BY <1>4
  <2> HIDE DEF r, architecture, systems
  <2>3. /\ [r EXCEPT !.architecture = architecture, !.systems = systems].entry = r.entry
        /\ [r EXCEPT !.architecture = architecture, !.systems = systems].name = r.name
        /\ [r EXCEPT !.architecture = architecture, !.systems = systems].version = r.version
    BY <2>2 DEF PackageRecords
  <2> QED
    BY <2>1, <2>2, <2>3
<1> HIDE DEF normal, index
<1> DEFINE seqs == [i \in DOMAIN indexes |-> indexes[i].packages]
           flatten == CHOOSE g : g = [i \in 1..Len(seqs) |->
                         IF i = 1 THEN seqs[i] ELSE g[i-1] \o seqs[i]]
<1>7. Len(seqs) = 1 /\ seqs[1] = normal /\ seqs \in Seq({normal})
  <2>1. DOMAIN indexes = 1..1 /\ indexes[1] = index
    OBVIOUS
  <2>2. seqs = [i \in 1..1 |-> normal]
    BY <1>5, <2>1
  <2> QED
    BY <2>2
<1>8. FlattenSeq(seqs) = normal
  <2>1. \E g : g = [i \in 1..Len(seqs) |-> IF i = 1 THEN seqs[i] ELSE g[i-1] \o seqs[i]]
    <3> DEFINE h == [i \in 1..1 |-> normal]
    <3>1. \A i \in 1..1 : i = 1
      OBVIOUS
    <3>2. h = [i \in 1..Len(seqs) |-> IF i = 1 THEN seqs[i] ELSE h[i-1] \o seqs[i]]
      BY <1>7, <3>1
    <3> QED
      BY <3>2
  <2>2. flatten = [i \in 1..Len(seqs) |-> IF i = 1 THEN seqs[i] ELSE flatten[i-1] \o seqs[i]]
    BY <2>1
  <2>3. FlattenSeq(seqs) = flatten[Len(seqs)]
    BY <1>7 DEF FlattenSeq
  <2> QED
    BY <1>7, <2>2, <2>3
<1>9. loadRepositoryIndexes = indexes
  BY DEF loadRepositoryIndexes, index, listed, S
<1> HIDE DEF indexes
<1> DEFINE entries == FlattenSeq([i \in DOMAIN indexes |-> indexes[i].packages])
           found == resolve_package_impl(indexes, request.name, request.version, Host, Aliases)
<1> DEFINE Asked(record) == /\ record.name = request.name
                            /\ request.version = 0 \/ record.version = request.version
<1>10. found = None \/ \E i \in DOMAIN normal : found = normal[i] /\ Asked(normal[i])
  <2>1. entries = normal
    BY <1>8
  <2>2. found = None \/ \E i \in DOMAIN entries : found = entries[i] /\ Asked(entries[i])
    <3> HIDE DEF entries
    <3> QED
      BY DEF resolve_package_impl, entries
  <2> QED
    BY <2>1, <2>2
<1>11. Resolve(request) = IF request.exact \/ found = None THEN None ELSE found.entry
  BY <1>9 DEF Resolve
<1> HIDE DEF found
<1> QED
  BY <1>6, <1>10, <1>11 DEF Answered

-----------------------------------------------------------------------------
(* Steps that change nothing but what the call is about to do.             *)

RqpInv == StoreInv /\ ArtifactsOwned

LEMMA IdleCall == Idle \in CallRecords /\ Idle.pc = "idle"
<1>1. NoSource \in SourceRecords
  BY DEF NoSource, SourceRecords, Names
<1>2. <<>> \in Seq(Asks) /\ <<>> \in Seq(Paths) /\ 0 \in 0..7 /\ {} \in SUBSET Ids
  OBVIOUS
<1>3. None \in Asks \cup {None} /\ None \in Entries \cup {None} /\ None \in Ids \cup {None}
  OBVIOUS
<1> HIDE DEF NoSource
<1>4. Idle.pc = "idle"
  BY DEF Idle
<1>5. Idle \in CallRecords
  BY <1>1, <1>2, <1>3, Zenon DEF Idle, CallRecords
<1> QED
  BY <1>4, <1>5

LEMMA FaultCounted ==
    ASSUME TypeOK, Fault
    PROVE  faults' \in 0..MaxFaults /\ faults' # 0
<1>1. faults \in 0..MaxFaults /\ MaxFaults \in Nat
  BY RqpAssumption DEF TypeOK
<1> QED
  BY <1>1 DEF Fault

Quiet ==
    /\ UNCHANGED <<dir, disk, damaged>>
    /\ published' \in {{}, Entries} /\ calls' \in 0..MaxCalls /\ faults' \in 0..MaxFaults
    /\ call' \in CallRecords /\ call'.pc \in {"idle", "loop", "fetch", "removehook"}
    /\ call'.pc = "fetch" => call'.entry \in Entries
    /\ call'.pc = "removehook" => /\ call'.id \in listInstalled
                                  /\ call'.op = "update" => call'.entry \in Entries
                                  /\ call.pc = "loop"
    /\ faults' = 0 => faults = 0 /\ call.pc \notin {"hook", "persist", "state"}

LEMMA QuietInv ==
    ASSUME RqpInv, Quiet
    PROVE  RqpInv'
<1>1. TypeOK' /\ CallKnows' /\ PersistTracked' /\ SourceLast'
  BY DEF RqpInv, StoreInv, Quiet, TypeOK, CallKnows, PersistTracked, SourceLast, listInstalled
<1>2. ManifestsHold'
  BY DEF RqpInv, StoreInv, Quiet, ManifestsHold, loadInstalled
<1>3. ASSUME faults' = 0 PROVE ArtifactsOwned'
  <2>1. ArtifactsOwned /\ faults = 0 /\ call.pc \notin {"hook", "persist", "state"}
    BY <1>3 DEF RqpInv, Quiet
  <2>2. \A id \in Ids : (Complete(id) <=> Complete(id)') /\ (Gone(id) <=> Gone(id)')
                        /\ (Answers(id) <=> Complete(id)) /\ (Answers(id)' <=> Complete(id)')
    BY <2>1 DEF Quiet, Complete, Gone, Answers
  <2>3. \A id \in Ids : Complete(id) \/ Gone(id)
    BY <2>1 DEF ArtifactsOwned
  <2>4. call'.pc = "removehook" => Complete(call.id)'
    <3> SUFFICES ASSUME call'.pc = "removehook" PROVE Complete(call.id)'
      OBVIOUS
    <3>1. PICK id \in Ids : id = call'.id /\ loadInstalled(id)
      BY DEF Quiet, listInstalled
    <3>2. ~Gone(id)
      BY <3>1 DEF loadInstalled, Gone, FileNames
    <3>3. Complete(id)'
      BY <2>2, <2>3, <3>2
    <3> QED
      BY <3>1, <3>3 DEF Complete
  <2>5. \A path \in disk' \ Directories :
           \E id \in Ids : path \in Range(HookFiles[id]) /\ Answers(id)'
    BY <2>1, <2>2 DEF ArtifactsOwned, Quiet
  <2> QED
    BY <2>2, <2>3, <2>4, <2>5 DEF ArtifactsOwned, Quiet
<1> QED
  BY <1>1, <1>2, <1>3 DEF RqpInv, StoreInv, ArtifactsOwned

LEMMA CallUpdates ==
    ASSUME TypeOK, NEW ok \in BOOLEAN
    PROVE  /\ NextRequest(ok) => call' \in CallRecords /\ call'.pc = "loop"
           /\ Throw => call' \in CallRecords /\ call'.pc = "loop"
<1>1. call \in CallRecords
  BY DEF TypeOK
<1>2. NextRequest(ok) => call' \in CallRecords /\ call'.pc = "loop"
  BY <1>1 DEF NextRequest, CallRecords
<1>3. Throw => call' \in CallRecords /\ call'.pc = "loop"
  <2> DEFINE none == <<>>
  <2>1. none \in Seq(Asks)
    OBVIOUS
  <2> DEFINE next == [call EXCEPT !.pc = "loop", !.queue = none, !.ok = FALSE]
  <2>2. Throw => call' = next
    BY DEF Throw
  <2> HIDE DEF none
  <2>3. next.pc = "loop"
    BY <1>1 DEF CallRecords
  <2>4. next \in CallRecords
    BY <1>1, <2>1 DEF CallRecords
  <2> QED
    BY <2>2, <2>3, <2>4
<1> QED
  BY <1>2, <1>3

(* The next request is taken from the queue.                               *)
LEMMA Dequeued ==
    ASSUME NEW c \in CallRecords, c.queue # <<>>
    PROVE  LET next == [c EXCEPT !.queue = Tail(@), !.request = Head(c.queue)]
           IN  /\ Head(c.queue) \in Asks /\ next \in CallRecords
               /\ next.pc = c.pc /\ next.op = c.op
<1> DEFINE request == Head(c.queue)
           rest == Tail(c.queue)
<1>1. request \in Asks /\ rest \in Seq(Asks)
  BY DEF CallRecords
<1> HIDE DEF request, rest
<1>2. [c EXCEPT !.queue = rest, !.request = request] \in CallRecords
  BY <1>1 DEF CallRecords
<1>3. /\ [c EXCEPT !.queue = rest, !.request = request].pc = c.pc
      /\ [c EXCEPT !.queue = rest, !.request = request].op = c.op
  BY DEF CallRecords
<1> QED
  BY <1>1, <1>2, <1>3 DEF request, rest

LEMMA StartedInstall ==
    ASSUME TypeOK, NEW request \in Asks, NEW entry \in Entries, NEW c \in CallRecords,
           StartInstall(request, entry, c)
    PROVE  /\ call' \in CallRecords /\ call'.pc \in {"loop", "fetch"}
           /\ call'.pc = "fetch" => call'.entry \in Entries
<1> DEFINE source == [kind |-> "repository", name |-> Catalogue[entry].name,
                      version |-> Catalogue[entry].version, requestName |-> request.name]
<1>1. source \in SourceRecords
  <2>1. Catalogue[entry] \in PackageRecords
    BY RqpAssumption
  <2>2. Catalogue[entry].name \in Names /\ Catalogue[entry].version \in Nat
        /\ request.name \in Names
    BY <2>1 DEF PackageRecords, Asks
  <2> QED
    BY <2>2 DEF SourceRecords
<1>2. CASE listInstalledThrows
  BY <1>2, CallUpdates DEF StartInstall
<1>3. CASE ~listInstalledThrows /\ findInstalled(request) # {}
  <2>1. call' = [c EXCEPT !.pc = "loop"]
    BY <1>3 DEF StartInstall
  <2> QED
    BY <2>1 DEF CallRecords
<1>4. CASE ~listInstalledThrows /\ findInstalled(request) = {}
  <2>1. call' = [c EXCEPT !.pc = "fetch", !.entry = entry, !.source = source]
    BY <1>4 DEF StartInstall
  <2> HIDE DEF source
  <2> QED
    BY <1>1, <2>1 DEF CallRecords
<1> QED
  BY <1>2, <1>3, <1>4

LEMMA QuietSteps ==
    ASSUME RqpInv,
           \/ Publish \/ IndexFails \/ Return \/ FetchFails \/ HookFails \/ Crash
           \/ \E op \in {"install", "remove", "update"}, r \in Requests : Begin(op, r)
           \/ \E e \in Entries : installLocal(e)
    PROVE  Quiet
<1>1. /\ TypeOK /\ published \in {{}, Entries} /\ calls \in 0..MaxCalls /\ faults \in 0..MaxFaults
      /\ call \in CallRecords /\ MaxCalls \in Nat
  BY RqpAssumption DEF RqpInv, StoreInv, TypeOK
<1>2. CASE Publish
  BY <1>1, <1>2 DEF Publish, Quiet
<1>3. CASE Return
  BY <1>1, <1>3, IdleCall DEF Return, Quiet
<1>4. CASE Crash
  <2>1. faults' \in 0..MaxFaults /\ faults' # 0
    BY <1>1, <1>4, FaultCounted DEF Crash
  <2> QED
    BY <1>1, <1>4, <2>1, IdleCall DEF Crash, Quiet
<1>5. CASE IndexFails \/ FetchFails \/ HookFails
  <2>1. faults' \in 0..MaxFaults /\ faults' # 0
    BY <1>1, <1>5, FaultCounted DEF IndexFails, FetchFails, HookFails
  <2>2. call' \in CallRecords /\ call'.pc = "loop"
    BY <1>1, <1>5, CallUpdates DEF IndexFails, FetchFails, HookFails
  <2> QED
    BY <1>1, <1>5, <2>1, <2>2 DEF IndexFails, FetchFails, HookFails, Quiet
<1>6. ASSUME NEW op \in {"install", "remove", "update"}, NEW r \in Requests, Begin(op, r)
      PROVE  Quiet
  <2>1. Readable \in SUBSET Ids /\ r \in Seq(Asks)
    BY RqpAssumption DEF Readable, listInstalled
  <2> DEFINE before == Readable
  <2>2. call' = [Idle EXCEPT !.pc = "loop", !.op = op, !.queue = r, !.asked = r, !.before = before]
    BY <1>6 DEF Begin
  <2> HIDE DEF before
  <2>3. call' \in CallRecords /\ call'.pc = "loop"
    <3>1. before \in SUBSET Ids
      BY <2>1 DEF before
    <3> QED
      BY <2>1, <2>2, <3>1, IdleCall DEF CallRecords
  <2>4. calls' \in 0..MaxCalls /\ UNCHANGED <<published, dir, disk, faults, damaged>>
        /\ call.pc = "idle"
    <3>1. calls < MaxCalls /\ calls' = calls + 1
      BY <1>6 DEF Begin
    <3>2. calls' \in 0..MaxCalls
      BY <1>1, <3>1
    <3> QED
      BY <1>6, <3>2 DEF Begin
  <2> QED
    BY <1>1, <2>3, <2>4 DEF Quiet
<1>7. ASSUME NEW e \in Entries, installLocal(e)
      PROVE  Quiet
  <2> DEFINE before == Readable
             source == [NoSource EXCEPT !.kind = "local-file", !.name = LocalPath]
  <2>1. before \in SUBSET Ids
    BY DEF Readable, listInstalled
  <2>2. source \in SourceRecords
    BY DEF NoSource, SourceRecords, Names
  <2>3. call' = [Idle EXCEPT !.pc = "fetch", !.op = "local", !.entry = e, !.before = before,
                             !.source = source]
    BY <1>7 DEF installLocal
  <2> HIDE DEF before, source
  <2>4. call' \in CallRecords /\ call'.pc = "fetch" /\ call'.entry = e
    BY <2>1, <2>2, <2>3, IdleCall DEF CallRecords
  <2>5. calls' \in 0..MaxCalls /\ UNCHANGED <<published, dir, disk, faults, damaged>>
        /\ call.pc = "idle"
    <3>1. calls < MaxCalls /\ calls' = calls + 1
      BY <1>7 DEF installLocal
    <3>2. calls' \in 0..MaxCalls
      BY <1>1, <3>1
    <3> QED
      BY <1>7, <3>2 DEF installLocal
  <2> QED
    BY <1>1, <2>4, <2>5 DEF Quiet
<1> QED
  BY <1>2, <1>3, <1>4, <1>5, <1>6, <1>7

LEMMA RequestSteps ==
    ASSUME RqpInv, install \/ remove \/ update
    PROVE  Quiet
<1> DEFINE request == Head(call.queue)
           matches == findInstalled(request)
           c == [call EXCEPT !.queue = Tail(@), !.request = Head(call.queue)]
<1>1. /\ TypeOK /\ published \in {{}, Entries} /\ calls \in 0..MaxCalls /\ faults \in 0..MaxFaults
      /\ call \in CallRecords
  BY DEF RqpInv, StoreInv, TypeOK
<1>2. /\ call.pc = "loop" /\ call.queue # <<>>
      /\ UNCHANGED <<published, dir, disk, calls, faults, damaged>>
  BY DEF install, remove, update
<1>3. request \in Asks /\ c \in CallRecords /\ c.pc = "loop" /\ c.op = call.op
  BY <1>1, <1>2, Dequeued
<1>4. matches \in SUBSET listInstalled /\ matches \in SUBSET Ids
  BY DEF findInstalled, listInstalled
<1>5. CASE install
  <2> DEFINE entry == Resolve(request)
  <2>1. entry \in Entries \cup {None}
    BY <1>1, ResolveFinds
  <2>2. call.op = "install" /\ (IF entry = None THEN call' = [c EXCEPT !.ok = FALSE]
                                ELSE StartInstall(request, entry, c))
    BY <1>5 DEF install
  <2> HIDE DEF entry, request, c
  <2>3. CASE entry = None
    <3>1. call' \in CallRecords /\ call'.pc = "loop"
      BY <1>3, <2>2, <2>3, ZenonT(60) DEF CallRecords
    <3> QED
      BY <1>1, <1>2, <3>1 DEF Quiet
  <2>4. CASE entry # None
    <3>1. /\ call' \in CallRecords /\ call'.pc \in {"loop", "fetch"}
          /\ call'.pc = "fetch" => call'.entry \in Entries
      BY <1>1, <1>3, <2>1, <2>2, <2>4, StartedInstall
    <3> QED
      BY <1>1, <1>2, <3>1 DEF Quiet
  <2> QED
    BY <2>3, <2>4
<1>6. CASE remove
  <2> DEFINE top == Highest(matches)
  <2>1. \/ Throw
        \/ call' = [c EXCEPT !.ok = FALSE]
        \/ matches # {} /\ call' = [c EXCEPT !.pc = "removehook", !.id = top]
    BY <1>6 DEF remove
  <2>2. call.op = "remove"
    BY <1>6 DEF remove
  <2>3. matches # {} => top \in matches
    BY <1>4, HighestThere
  <2> HIDE DEF request, c, matches, top
  <2>4. CASE Throw
    BY <1>1, <1>2, <2>4, CallUpdates DEF Quiet
  <2>5. CASE call' = [c EXCEPT !.ok = FALSE]
    <3>1. call' \in CallRecords /\ call'.pc = "loop"
      BY <1>3, <2>5 DEF CallRecords
    <3> QED
      BY <1>1, <1>2, <3>1 DEF Quiet
  <2>6. CASE matches # {} /\ call' = [c EXCEPT !.pc = "removehook", !.id = top]
    <3>1. top \in listInstalled /\ top \in Ids
      BY <1>4, <2>3, <2>6
    <3>2. call' \in CallRecords /\ call'.pc = "removehook" /\ call'.id = top /\ call'.op = "remove"
      BY <1>3, <2>2, <2>6, <3>1 DEF CallRecords
    <3> QED
      BY <1>1, <1>2, <3>1, <3>2 DEF Quiet
  <2> QED
    BY <2>1, <2>4, <2>5, <2>6
<1>7. CASE update
  <2> DEFINE low == Lowest(matches)
             candidate == Resolve([name |-> low.name, version |-> 0, exact |-> FALSE])
  <2>1. \/ Throw
        \/ call' = c
        \/ call' = [c EXCEPT !.ok = FALSE]
        \/ /\ matches # {} /\ candidate # None
           /\ call' = [c EXCEPT !.pc = "removehook", !.id = low, !.entry = candidate]
    BY <1>7 DEF update
  <2>2. candidate \in Entries \cup {None}
    BY <1>1, ResolveFinds
  <2>3. matches # {} => low \in matches
    BY <1>4, LowestThere
  <2> HIDE DEF request, c, matches, low, candidate
  <2>4. CASE Throw
    BY <1>1, <1>2, <2>4, CallUpdates DEF Quiet
  <2>5. CASE call' = c \/ call' = [c EXCEPT !.ok = FALSE]
    <3>1. call' \in CallRecords /\ call'.pc = "loop"
      BY <1>3, <2>5 DEF CallRecords
    <3> QED
      BY <1>1, <1>2, <3>1 DEF Quiet
  <2>6. CASE /\ matches # {} /\ candidate # None
             /\ call' = [c EXCEPT !.pc = "removehook", !.id = low, !.entry = candidate]
    <3>1. low \in listInstalled /\ low \in Ids /\ candidate \in Entries
      BY <1>4, <2>2, <2>3, <2>6
    <3>2. call' \in CallRecords /\ call'.pc = "removehook" /\ call'.id = low
          /\ call'.entry = candidate
      BY <1>3, <2>6, <3>1 DEF CallRecords
    <3> QED
      BY <1>1, <1>2, <3>1, <3>2 DEF Quiet
  <2> QED
    BY <2>1, <2>4, <2>5, <2>6
<1> QED
  BY <1>5, <1>6, <1>7

-----------------------------------------------------------------------------
(* Installing.                                                             *)

LEMMA SameDirs ==
    ASSUME dir' = dir
    PROVE  /\ \A id \in Ids : /\ Complete(id)' <=> Complete(id)
                              /\ Gone(id)' <=> Gone(id)
                              /\ loadInstalled(id)' <=> loadInstalled(id)
                              /\ parseManifestJson(id)' = parseManifestJson(id)
           /\ SourceLast => SourceLast'
BY DEF Complete, Gone, loadInstalled, parseManifestJson, SourceLast

LEMMA FetchStep ==
    ASSUME RqpInv, Fetch
    PROVE  RqpInv'
<1> DEFINE layout == Layout[call.entry]
           id == IdentityOf(layout)
           files == HookFiles[id]
           none == <<>>
<1>1. /\ TypeOK /\ call \in CallRecords /\ call.pc = "fetch" /\ call.entry \in Entries
      /\ UNCHANGED <<published, dir, disk, calls, faults, damaged>>
  BY DEF RqpInv, StoreInv, TypeOK, CallKnows, Fetch
<1>2. CASE layout = None
  <2>1. NextRequest(FALSE)
    BY <1>2 DEF Fetch
  <2>2. call' \in CallRecords /\ call'.pc = "loop"
    BY <1>1, <2>1, CallUpdates
  <2>3. Quiet
    BY <1>1, <2>2 DEF Quiet, TypeOK
  <2> QED
    BY <2>3, QuietInv
<1>3. CASE layout # None
  <2>1. call' = [call EXCEPT !.pc = "hook", !.id = id, !.todo = files, !.pending = none]
    BY <1>3 DEF Fetch
  <2>2. id \in Ids
    BY <1>1, <1>3, RqpAssumption
  <2>3. files \in Seq(Paths) /\ none \in Seq(Paths) /\ Range(none) = {}
    BY <2>2, RqpAssumption, EmptyRange
  <2> HIDE DEF layout, id, none
  <2>4. /\ call' \in CallRecords /\ call'.pc = "hook" /\ call'.id = id
        /\ call'.todo = files /\ call'.pending = none
    <3> HIDE DEF files
    <3> QED
      BY <1>1, <2>1, <2>2, <2>3 DEF CallRecords
  <2>5. TypeOK' /\ CallKnows' /\ PersistTracked' /\ SourceLast'
    BY <1>1, <2>2, <2>4, SameDirs DEF RqpInv, StoreInv, TypeOK, CallKnows, PersistTracked
  <2>6. ManifestsHold'
    BY <1>1, <2>3, <2>4, SameDirs DEF RqpInv, StoreInv, ManifestsHold
  <2>7. ASSUME faults' = 0 PROVE ArtifactsOwned'
    <3>1. ArtifactsOwned /\ faults = 0
      BY <1>1, <2>7 DEF RqpInv
    <3>2. Range(call'.pending) \cup Range(call'.todo) = Range(HookFiles[call'.id])
      BY <2>3, <2>4
    <3>3. \A i \in Ids : Complete(i)' \/ Gone(i)'
      BY <1>1, <3>1, SameDirs DEF ArtifactsOwned
    <3>4. \A i \in Ids : Answers(i) => Answers(i)'
      BY <1>1, <2>4, SameDirs DEF Answers
    <3>5. \A path \in disk' \ Directories :
             \E i \in Ids : path \in Range(HookFiles[i]) /\ Answers(i)'
      BY <1>1, <3>1, <3>4 DEF ArtifactsOwned
    <3> QED
      BY <2>4, <3>2, <3>3, <3>5 DEF ArtifactsOwned
  <2> QED
    BY <2>5, <2>6, <2>7 DEF RqpInv, StoreInv, ArtifactsOwned
<1> QED
  BY <1>2, <1>3

LEMMA HookStep ==
    ASSUME RqpInv, runHook
    PROVE  RqpInv'
<1>1. /\ TypeOK /\ call \in CallRecords /\ call.pc = "hook" /\ call.id \in Ids
      /\ UNCHANGED <<published, dir, calls, faults, damaged>>
      /\ disk \in SUBSET Paths /\ Range(call.pending) \subseteq disk
  BY DEF RqpInv, StoreInv, TypeOK, CallKnows, ManifestsHold, runHook
<1>2. /\ call' \in CallRecords /\ call'.pc \in {"hook", "persist"} /\ call'.id = call.id
      /\ call'.pc = "persist" => call'.step = 1 /\ call'.todo = <<>>
      /\ disk' \in SUBSET Paths /\ disk \subseteq disk'
      /\ Range(call'.pending) \subseteq disk'
      /\ Range(call'.pending) \cup Range(call'.todo) = Range(call.pending) \cup Range(call.todo)
      /\ disk' \ disk \subseteq Range(call.todo)
  <2>1. CASE call.todo = <<>>
    <3> DEFINE first == 1
    <3>1. call' = [call EXCEPT !.pc = "persist", !.step = first] /\ disk' = disk
      BY <2>1 DEF runHook
    <3>2. first \in 0..7
      OBVIOUS
    <3> HIDE DEF first
    <3>3. call' \in CallRecords
      BY <1>1, <3>1, <3>2 DEF CallRecords
    <3>4. /\ call'.pc = "persist" /\ call'.id = call.id /\ call'.step = first
          /\ call'.todo = call.todo /\ call'.pending = call.pending
      BY <1>1, <3>1 DEF CallRecords
    <3> QED
      BY <1>1, <2>1, <3>1, <3>3, <3>4 DEF first
  <2>2. CASE call.todo # <<>>
    <3> DEFINE path == Head(call.todo)
               rest == Tail(call.todo)
               more == Append(call.pending, path)
    <3>1. call' = [call EXCEPT !.todo = rest, !.pending = more] /\ disk' = disk \cup {path}
      BY <2>2 DEF runHook
    <3>2. call.todo \in Seq(Paths) /\ call.pending \in Seq(Paths)
      BY <1>1 DEF CallRecords
    <3>3. /\ path \in Paths /\ rest \in Seq(Paths)
          /\ Range(call.todo) = {path} \cup Range(rest)
      BY <2>2, <3>2, TailRange
    <3>4. more \in Seq(Paths) /\ Range(more) = Range(call.pending) \cup {path}
      BY <3>2, <3>3, AppendRange
    <3> HIDE DEF path, rest, more
    <3>5. /\ call' \in CallRecords /\ call'.pc = "hook" /\ call'.id = call.id
          /\ call'.todo = rest /\ call'.pending = more
      BY <1>1, <3>1, <3>3, <3>4 DEF CallRecords
    <3> QED
      BY <1>1, <3>1, <3>3, <3>4, <3>5
  <2> QED
    BY <2>1, <2>2
<1>3. TypeOK' /\ CallKnows' /\ PersistTracked' /\ SourceLast'
  BY <1>1, <1>2, SameDirs DEF RqpInv, StoreInv, TypeOK, CallKnows, PersistTracked
<1>4. ManifestsHold'
  <2>1. ASSUME NEW i \in Ids \ damaged', dir'[i].files["manifest"] = "full"
        PROVE  /\ Range(dir'[i].manifest) \subseteq disk'
               /\ dir'[i].manifest # <<>> => loadInstalled(i)'
    BY <1>1, <1>2, <2>1, SameDirs DEF RqpInv, StoreInv, ManifestsHold
  <2> QED
    BY <1>2, <2>1 DEF ManifestsHold
<1>5. ASSUME faults' = 0 PROVE ArtifactsOwned'
  <2>1. ArtifactsOwned /\ faults = 0
    BY <1>1, <1>5 DEF RqpInv
  <2>2. Range(call'.pending) \cup Range(call'.todo) = Range(HookFiles[call'.id])
        /\ Range(call.todo) \subseteq Range(HookFiles[call'.id])
    BY <1>1, <1>2, <2>1 DEF ArtifactsOwned
  <2>3. \A i \in Ids : Complete(i)' \/ Gone(i)'
    BY <1>1, <2>1, SameDirs DEF ArtifactsOwned
  <2>4. \A i \in Ids : Answers(i) => Answers(i)'
    BY <1>1, <1>2, SameDirs DEF Answers
  <2>5. Answers(call.id)'
    BY <1>2 DEF Answers
  <2>6. ASSUME NEW path \in disk' \ Directories
        PROVE  \E i \in Ids : path \in Range(HookFiles[i]) /\ Answers(i)'
    <3>1. CASE path \in disk
      BY <2>1, <2>4, <3>1 DEF ArtifactsOwned
    <3>2. CASE path \notin disk
      <4>1. path \in Range(HookFiles[call.id]) /\ call'.id = call.id
        BY <1>2, <2>2, <3>2
      <4>2. Answers(call.id)' => \E i \in Ids : i = call.id /\ Answers(i)'
        BY <1>1, <1>2 DEF Answers
      <4> QED
        BY <2>5, <4>1, <4>2
    <3> QED
      BY <3>1, <3>2
  <2> QED
    BY <1>2, <2>2, <2>3, <2>6 DEF ArtifactsOwned
<1> QED
  BY <1>3, <1>4, <1>5 DEF RqpInv, StoreInv, ArtifactsOwned

(* The steps of persistInstalledState, as a table.                         *)
LEMMA PersistTable ==
    /\ Len(PersistOrder) = 7
    /\ PersistOrder[1].file = "metadata" /\ PersistOrder[1].to = "empty"
    /\ PersistOrder[2].file = "lua" /\ PersistOrder[2].to = "full"
    /\ PersistOrder[3].file = "source" /\ PersistOrder[3].to = "empty"
    /\ PersistOrder[4].file = "manifest" /\ PersistOrder[4].to = "empty"
    /\ PersistOrder[5].file = "manifest" /\ PersistOrder[5].to = "full"
    /\ PersistOrder[6].file = "source" /\ PersistOrder[6].to = "full"
    /\ PersistOrder[7].file = "metadata" /\ PersistOrder[7].to = "full"
BY DEF PersistOrder

(* What one of them does to the directory.                                 *)
Stored(id, file, to) ==
    /\ dir' \in [Ids -> StateDirs]
    /\ \A other \in Ids \ {id} : dir'[other] = dir[other]
    /\ \A f \in FileNames : dir'[id].files[f] = IF f = file THEN to ELSE dir[id].files[f]
    /\ dir'[id].manifest = IF file = "manifest" /\ to = "full" THEN call.pending
                           ELSE dir[id].manifest
    /\ dir'[id].source = IF file = "source" /\ to = "full" THEN call.source ELSE dir[id].source

LEMMA PersistDir ==
    ASSUME TypeOK, persistInstalledState, call.id \in Ids, call.step \in 1..7
    PROVE  LET step == PersistOrder[call.step] IN Stored(call.id, step.file, step.to)
<1> DEFINE step == PersistOrder[call.step]
           file == step.file
           to == step.to
           id == call.id
           old == dir[id]
           files == [old.files EXCEPT ![file] = to]
           source == IF file = "source" /\ to = "full" THEN call.source ELSE old.source
           manifest == IF file = "manifest" /\ to = "full" THEN call.pending ELSE old.manifest
           new == [old EXCEPT !.files = files, !.source = source, !.manifest = manifest]
<1>1. /\ dir \in [Ids -> StateDirs] /\ old \in StateDirs
      /\ call.source \in SourceRecords /\ call.pending \in Seq(Paths)
  BY DEF TypeOK, CallRecords
<1>2. file \in FileNames /\ to \in {"none", "empty", "full"}
  <2>1. call.step \in {1, 2, 3, 4, 5, 6, 7}
    OBVIOUS
  <2> QED
    BY <2>1, PersistTable DEF FileNames
<1>3. dir' = [dir EXCEPT ![id] = new]
  BY <1>1 DEF persistInstalledState, StateDirs
<1> HIDE DEF step, file, to, id, old
<1>4. /\ files \in [FileNames -> {"none", "empty", "full"}]
      /\ \A f \in FileNames : files[f] = IF f = file THEN to ELSE old.files[f]
  BY <1>1, <1>2 DEF StateDirs
<1>5. source \in SourceRecords /\ manifest \in Seq(Paths)
  BY <1>1 DEF StateDirs
<1>6. /\ manifest = IF file = "manifest" /\ to = "full" THEN call.pending ELSE old.manifest
      /\ source = IF file = "source" /\ to = "full" THEN call.source ELSE old.source
  OBVIOUS
<1> HIDE DEF files, source, manifest
<1>7. new \in StateDirs /\ new.files = files /\ new.manifest = manifest /\ new.source = source
  BY <1>1, <1>4, <1>5 DEF StateDirs
<1> HIDE DEF new
<1>8. id \in Ids
  BY DEF id
<1>9. /\ dir' \in [Ids -> StateDirs] /\ dir'[id] = new
      /\ \A other \in Ids \ {id} : dir'[other] = dir[other]
  BY <1>1, <1>3, <1>7, <1>8
<1>10. Stored(id, file, to)
  BY <1>4, <1>6, <1>7, <1>9 DEF Stored, old
<1> QED
  BY <1>10 DEF id, file, to, step

LEMMA PersistStep ==
    ASSUME RqpInv, persistInstalledState
    PROVE  RqpInv'
<1> DEFINE id == call.id
           s == call.step
           F == dir[id].files
           G == dir'[id].files
<1>1. /\ TypeOK /\ call \in CallRecords /\ call.pc = "persist" /\ id \in Ids /\ s \in 1..7
      /\ UNCHANGED <<published, disk, calls, faults>>
      /\ damaged' = IF s = 7 THEN damaged \ {id} ELSE damaged
      /\ dir \in [Ids -> StateDirs]
  <2>1. s \in 1..7
    BY DEF RqpInv, StoreInv, TypeOK, CallKnows, CallRecords, persistInstalledState
  <2> QED
    BY <2>1, PersistTable DEF RqpInv, StoreInv, TypeOK, CallKnows, persistInstalledState
<1>2. Stored(id, PersistOrder[s].file, PersistOrder[s].to)
  BY <1>1, PersistDir
<1>3. /\ s \in 2..7 => F["metadata"] = "empty"
      /\ s \in 3..7 => F["lua"] = "full"
      /\ s \in 4..6 => F["source"] = "empty"
      /\ s = 5 => F["manifest"] = "empty"
      /\ s \in 6..7 => F["manifest"] = "full" /\ dir[id].manifest = call.pending
      /\ s = 7 => F["source"] = "full"
  BY <1>1 DEF RqpInv, StoreInv, PersistTracked
<1>4. /\ F["source"] = "full" => F["manifest"] # "empty"
      /\ Range(call.pending) \subseteq disk
      /\ id \notin damaged /\ F["manifest"] = "full" =>
            /\ Range(dir[id].manifest) \subseteq disk
            /\ dir[id].manifest # <<>> => \A f \in FileNames : F[f] # "none"
  BY <1>1 DEF RqpInv, StoreInv, SourceLast, ManifestsHold, loadInstalled
<1>5. IF s = 7 THEN call' \in CallRecords /\ call'.pc = "loop"
      ELSE /\ call' \in CallRecords /\ call'.pc = "persist" /\ call'.id = id
           /\ call'.step = s + 1 /\ call'.pending = call.pending /\ call'.todo = call.todo
  <2>1. CASE s = 7
    <3>1. NextRequest(TRUE)
      BY <2>1, PersistTable DEF persistInstalledState
    <3> QED
      BY <1>1, <2>1, <3>1, CallUpdates
  <2>2. CASE s # 7
    <3> DEFINE next == s + 1
    <3>1. call' = [call EXCEPT !.step = next]
      BY <2>2, PersistTable DEF persistInstalledState
    <3>2. next \in 0..7
      BY <1>1, <2>2
    <3> HIDE DEF next
    <3>3. call' \in CallRecords
      BY <1>1, <3>1, <3>2 DEF CallRecords
    <3>4. /\ call'.pc = "persist" /\ call'.id = id /\ call'.step = next
          /\ call'.pending = call.pending /\ call'.todo = call.todo
      BY <1>1, <3>1 DEF CallRecords
    <3> QED
      BY <2>2, <3>3, <3>4 DEF next
  <2> QED
    BY <2>1, <2>2
<1>6. FileNames = {"metadata", "lua", "source", "manifest"}
  BY DEF FileNames
<1>7. \A other \in Ids \ {id} : dir'[other] = dir[other]
  BY <1>2 DEF Stored
<1>8. /\ G["metadata"] = IF s = 1 THEN "empty" ELSE IF s = 7 THEN "full" ELSE F["metadata"]
      /\ G["lua"] = IF s = 2 THEN "full" ELSE F["lua"]
      /\ G["source"] = IF s = 3 THEN "empty" ELSE IF s = 6 THEN "full" ELSE F["source"]
      /\ G["manifest"] = IF s = 4 THEN "empty" ELSE IF s = 5 THEN "full" ELSE F["manifest"]
      /\ dir'[id].manifest = IF s = 5 THEN call.pending ELSE dir[id].manifest
  <2>1. s \in {1, 2, 3, 4, 5, 6, 7}
    BY <1>1
  <2> QED
    BY <1>2, <1>6, <2>1, PersistTable DEF Stored
<1>9. dir' \in [Ids -> StateDirs]
  BY <1>2 DEF Stored
<1> HIDE DEF s, F, G, id
<1>10. TypeOK'
  BY <1>1, <1>5, <1>9 DEF TypeOK
<1>11. CallKnows'
  BY <1>1, <1>5 DEF CallKnows
<1>12. PersistTracked'
  <2> SUFFICES ASSUME call'.pc = "persist" PROVE PersistTracked'
    BY DEF PersistTracked
  <2>1. s \in 1..6 /\ call'.id = id /\ call'.step = s + 1 /\ call'.pending = call.pending
    BY <1>1, <1>5
  <2>2. /\ s + 1 \in 2..7 => G["metadata"] = "empty"
        /\ s + 1 \in 3..7 => G["lua"] = "full"
        /\ s + 1 \in 4..6 => G["source"] = "empty"
        /\ s + 1 = 5 => G["manifest"] = "empty"
        /\ s + 1 \in 6..7 => G["manifest"] = "full" /\ dir'[id].manifest = call.pending
        /\ s + 1 = 7 => G["source"] = "full"
    BY <1>3, <1>8, <2>1
  <2> QED
    BY <2>1, <2>2 DEF PersistTracked, G
<1>13. G["source"] = "full" => G["manifest"] # "empty"
  BY <1>1, <1>3, <1>4, <1>8
<1>14. SourceLast'
  BY <1>7, <1>13 DEF RqpInv, StoreInv, SourceLast, G
<1>15. id \notin damaged' /\ G["manifest"] = "full" =>
           /\ Range(dir'[id].manifest) \subseteq disk
           /\ dir'[id].manifest # <<>> => \A f \in FileNames : G[f] # "none"
  <2>1. CASE s \in 1..4
    BY <1>1, <1>4, <1>6, <1>8, <2>1
  <2>2. CASE s \in 5..7
    BY <1>3, <1>4, <1>6, <1>8, <2>2
  <2> QED
    BY <1>1, <2>1, <2>2
<1>16. ManifestsHold'
  <2>1. ASSUME NEW i \in Ids \ damaged', dir'[i].files["manifest"] = "full"
        PROVE  /\ Range(dir'[i].manifest) \subseteq disk'
               /\ dir'[i].manifest # <<>> => loadInstalled(i)'
    <3>1. CASE i = id
      BY <1>1, <1>15, <2>1, <3>1 DEF G, loadInstalled
    <3>2. CASE i # id
      <4>1. dir'[i] = dir[i] /\ i \notin damaged
        BY <1>1, <1>7, <2>1, <3>2
      <4> QED
        BY <1>1, <2>1, <4>1 DEF RqpInv, StoreInv, ManifestsHold, loadInstalled
    <3> QED
      BY <3>1, <3>2
  <2> QED
    BY <1>1, <1>4, <1>5, <2>1 DEF ManifestsHold
<1>17. ASSUME faults' = 0 PROVE ArtifactsOwned'
  <2>1. ArtifactsOwned /\ faults = 0
    BY <1>1, <1>17 DEF RqpInv
  <2>2. Range(call.pending) \cup Range(call.todo) = Range(HookFiles[id]) /\ call.todo = <<>>
    BY <1>1, <2>1 DEF ArtifactsOwned, id
  <2>3. \A i \in Ids \ {id} : /\ Complete(i)' <=> Complete(i)
                              /\ Gone(i)' <=> Gone(i)
    BY <1>7 DEF Complete, Gone
  <2>4. ASSUME NEW i \in Ids, i = id, s = 7 PROVE Complete(i)'
    <3>1. \A f \in FileNames : G[f] = "full"
      BY <1>3, <1>6, <1>8, <2>4
    <3>2. dir'[id].manifest = call.pending
      BY <1>3, <1>8, <2>4
    <3>3. Range(call.todo) = {}
      BY <2>2, EmptyRange
    <3>4. Range(dir'[id].manifest) = Range(HookFiles[id])
      BY <2>2, <3>2, <3>3
    <3> QED
      BY <2>4, <3>1, <3>4 DEF Complete, G
  <2>5. ASSUME NEW i \in Ids
        PROVE  Complete(i)' \/ Gone(i)' \/ (call'.pc = "persist" /\ i = call'.id)
    <3>1. CASE i = id
      BY <1>5, <2>4, <3>1
    <3>2. CASE i # id
      BY <1>1, <2>1, <2>3, <3>2 DEF ArtifactsOwned, id
    <3> QED
      BY <3>1, <3>2
  <2>6. ASSUME NEW i \in Ids, Answers(i) PROVE Answers(i)'
    <3>1. CASE i = id
      BY <1>5, <2>4, <3>1 DEF Answers
    <3>2. CASE i # id
      BY <1>1, <1>5, <2>3, <2>6, <3>2 DEF Answers, id
    <3> QED
      BY <3>1, <3>2
  <2>7. \A path \in disk' \ Directories :
           \E i \in Ids : path \in Range(HookFiles[i]) /\ Answers(i)'
    BY <1>1, <2>1, <2>6 DEF ArtifactsOwned
  <2> QED
    BY <1>5, <2>2, <2>5, <2>7 DEF ArtifactsOwned
<1> QED
  BY <1>10, <1>11, <1>12, <1>14, <1>16, <1>17 DEF RqpInv, StoreInv, ArtifactsOwned

LEMMA PersistFailsStep ==
    ASSUME RqpInv, PersistFails
    PROVE  RqpInv'
<1> DEFINE id == call.id
           old == dir[id]
           full == "full"
           files == [old.files EXCEPT !["metadata"] = full]
           new == [old EXCEPT !.files = files]
<1>1. /\ TypeOK /\ call \in CallRecords /\ id \in Ids
      /\ UNCHANGED <<published, disk, calls, damaged>>
      /\ dir \in [Ids -> StateDirs] /\ old \in StateDirs
  BY DEF RqpInv, StoreInv, TypeOK, CallKnows, PersistFails
<1>2. faults' \in 0..MaxFaults /\ faults' # 0
  BY <1>1, FaultCounted DEF PersistFails
<1>3. call' \in CallRecords /\ call'.pc = "loop"
  BY <1>1, CallUpdates DEF PersistFails
<1>4. dir' = [dir EXCEPT ![id] = new]
  BY <1>1 DEF PersistFails, StateDirs
<1>5. full \in {"none", "empty", "full"} /\ "metadata" \in FileNames /\ full # "none"
  BY DEF FileNames
<1> HIDE DEF full, id, old
<1>6. /\ files \in [FileNames -> {"none", "empty", "full"}]
      /\ \A f \in FileNames : files[f] = IF f = "metadata" THEN full ELSE old.files[f]
  BY <1>1, <1>5 DEF StateDirs
<1> HIDE DEF files
<1>7. new \in StateDirs /\ new.files = files /\ new.manifest = old.manifest
  BY <1>1, <1>6 DEF StateDirs
<1> HIDE DEF new
<1>8. /\ dir' \in [Ids -> StateDirs] /\ dir'[id] = new
      /\ \A other \in Ids \ {id} : dir'[other] = dir[other]
  BY <1>1, <1>4, <1>7
<1>9. ASSUME NEW i \in Ids
      PROVE  /\ dir'[i].manifest = dir[i].manifest
             /\ dir'[i].files["source"] = dir[i].files["source"]
             /\ dir'[i].files["manifest"] = dir[i].files["manifest"]
             /\ loadInstalled(i) => loadInstalled(i)'
  <2>1. CASE i = id
    BY <1>5, <1>6, <1>7, <1>8, <2>1 DEF loadInstalled, FileNames, old
  <2>2. CASE i # id
    BY <1>8, <2>2 DEF loadInstalled
  <2> QED
    BY <2>1, <2>2
<1>10. TypeOK' /\ CallKnows' /\ PersistTracked'
  BY <1>1, <1>2, <1>3, <1>8 DEF TypeOK, CallKnows, PersistTracked
<1>11. SourceLast'
  BY <1>9 DEF RqpInv, StoreInv, SourceLast
<1>12. ManifestsHold'
  BY <1>1, <1>3, <1>9 DEF RqpInv, StoreInv, ManifestsHold
<1> QED
  BY <1>2, <1>10, <1>11, <1>12 DEF RqpInv, StoreInv, ArtifactsOwned

-----------------------------------------------------------------------------
(* Removing.                                                               *)

LEMMA RemoveHookStep ==
    ASSUME RqpInv, runInstalledHook
    PROVE  RqpInv'
<1> DEFINE id == call.id
           manifest == parseManifestJson(id)
           todo == Reverse(manifest)
<1>1. /\ TypeOK /\ call \in CallRecords /\ call.pc = "removehook" /\ id \in Ids
      /\ UNCHANGED <<published, dir, disk, calls, faults, damaged>>
      /\ dir \in [Ids -> StateDirs]
  BY DEF RqpInv, StoreInv, TypeOK, CallKnows, runInstalledHook
<1>2. CASE ~InstalledHookThere(id)
  <2>1. NextRequest(FALSE)
    BY <1>2 DEF runInstalledHook
  <2>2. call' \in CallRecords /\ call'.pc = "loop"
    BY <1>1, <2>1, CallUpdates
  <2>3. Quiet
    BY <1>1, <2>2 DEF Quiet, TypeOK
  <2> QED
    BY <2>3, QuietInv
<1>3. CASE InstalledHookThere(id)
  <2>1. call' = [call EXCEPT !.pc = "artifacts", !.todo = todo]
    BY <1>3 DEF runInstalledHook
  <2>2. manifest \in Seq(Paths)
    BY <1>1, EmptyRange DEF parseManifestJson, StateDirs
  <2> HIDE DEF manifest
  <2>3. todo \in Seq(Paths) /\ Range(todo) = Range(manifest) /\ (todo = <<>> => manifest = <<>>)
    BY <2>2, ReverseRange
  <2> HIDE DEF id, todo
  <2>4. /\ call' \in CallRecords /\ call'.pc = "artifacts" /\ call'.id = id
        /\ call'.todo = todo /\ call'.op = call.op /\ call'.entry = call.entry
    BY <1>1, <2>1, <2>3 DEF CallRecords, id
  <2>5. TypeOK' /\ CallKnows' /\ PersistTracked' /\ SourceLast'
    BY <1>1, <2>4, SameDirs DEF RqpInv, StoreInv, TypeOK, CallKnows, PersistTracked
  <2>6. ManifestsHold'
    <3>1. ASSUME NEW i \in Ids, i = id, todo = <<>> PROVE parseManifestJson(i)' = <<>>
      BY <1>1, <2>3, <3>1, SameDirs DEF manifest
    <3>2. todo = <<>> => parseManifestJson(call.id)' = <<>>
      BY <1>1, <2>4, <3>1 DEF parseManifestJson
    <3> QED
      BY <1>1, <2>4, <3>2, SameDirs DEF RqpInv, StoreInv, ManifestsHold
  <2>7. ASSUME faults' = 0 PROVE ArtifactsOwned'
    <3>1. ArtifactsOwned /\ faults = 0 /\ Complete(id)
      BY <1>1, <2>7 DEF RqpInv, ArtifactsOwned, id
    <3>2. Range(todo) = Range(HookFiles[id])
      BY <2>3, <3>1 DEF Complete, manifest, parseManifestJson, FileNames
    <3>3. \A i \in Ids : Complete(i)' \/ Gone(i)'
      BY <1>1, <3>1, SameDirs DEF ArtifactsOwned
    <3>4. \A i \in Ids : Answers(i) => Answers(i)'
      BY <1>1, <2>4, SameDirs DEF Answers
    <3>5. \A path \in disk' \ Directories :
             \E i \in Ids : path \in Range(HookFiles[i]) /\ Answers(i)'
      BY <1>1, <3>1, <3>4 DEF ArtifactsOwned
    <3>6. \A i \in Ids : i = id => Complete(i)'
      BY <1>1, <3>1, SameDirs
    <3>7. Complete(call.id)'
      BY <1>1, <2>4, <3>6 DEF Complete
    <3> QED
      BY <2>4, <3>2, <3>3, <3>5, <3>7 DEF ArtifactsOwned
  <2> QED
    BY <2>5, <2>6, <2>7 DEF RqpInv, StoreInv, ArtifactsOwned
<1> QED
  BY <1>2, <1>3

LEMMA RemoveArtifactsStep ==
    ASSUME RqpInv, removeManifestArtifacts
    PROVE  RqpInv'
<1> DEFINE id == call.id
           todo == call.todo
           path == Head(todo)
           rest == Tail(todo)
<1>1. /\ TypeOK /\ call \in CallRecords /\ call.pc = "artifacts" /\ id \in Ids
      /\ UNCHANGED <<published, dir, calls, faults>> /\ todo \in Seq(Paths)
      /\ disk \in SUBSET Paths /\ damaged \in SUBSET Ids
  BY DEF RqpInv, StoreInv, TypeOK, CallKnows, CallRecords, removeManifestArtifacts
<1>2. CASE todo = <<>>
  <2>1. call' = [call EXCEPT !.pc = "state"] /\ UNCHANGED <<disk, damaged>>
    BY <1>2 DEF removeManifestArtifacts
  <2>2. /\ call' \in CallRecords /\ call'.pc = "state" /\ call'.id = id
        /\ call'.op = call.op /\ call'.entry = call.entry
    BY <1>1, <2>1 DEF CallRecords
  <2>3. TypeOK' /\ CallKnows' /\ PersistTracked' /\ SourceLast'
    BY <1>1, <2>1, <2>2, SameDirs DEF RqpInv, StoreInv, TypeOK, CallKnows, PersistTracked
  <2>4. id \in damaged \/ parseManifestJson(id) = <<>>
    BY <1>1, <1>2 DEF RqpInv, StoreInv, ManifestsHold
  <2>5. call'.id \in damaged' \/ parseManifestJson(call.id)' = <<>>
    BY <1>1, <2>1, <2>2, <2>4 DEF parseManifestJson
  <2>6. ManifestsHold'
    BY <1>1, <2>1, <2>2, <2>5, SameDirs DEF RqpInv, StoreInv, ManifestsHold
  <2>7. ASSUME faults' = 0 PROVE ArtifactsOwned'
    <3>1. ArtifactsOwned /\ faults = 0 /\ Range(todo) = {}
      BY <1>1, <1>2, <2>7, EmptyRange DEF RqpInv
    <3>2. \A i \in Ids : Complete(i)' \/ Gone(i)'
      BY <1>1, <3>1, SameDirs DEF ArtifactsOwned
    <3>3. \A i \in Ids \ {id} : Answers(i) => Answers(i)'
      BY <1>1, <2>2, SameDirs DEF Answers
    <3>4. ASSUME NEW p \in disk' \ Directories
          PROVE  \E i \in Ids : p \in Range(HookFiles[i]) /\ Answers(i)'
      <4>1. \E i \in Ids \ {id} : p \in Range(HookFiles[i]) /\ Answers(i)
        <5>1. p \in disk \ Directories
          BY <2>1
        <5>2. CASE p \in Range(HookFiles[id])
          BY <1>1, <3>1, <5>1, <5>2 DEF ArtifactsOwned
        <5>3. CASE p \notin Range(HookFiles[id])
          BY <3>1, <5>1, <5>3 DEF ArtifactsOwned
        <5> QED
          BY <5>2, <5>3
      <4> QED
        BY <3>3, <4>1
    <3> QED
      BY <2>2, <3>2, <3>4 DEF ArtifactsOwned
  <2> QED
    BY <2>3, <2>6, <2>7 DEF RqpInv, StoreInv, ArtifactsOwned
<1>3. CASE todo # <<>> /\ listInstalledThrows
  <2>1. Throw /\ UNCHANGED <<disk, damaged>>
    BY <1>3 DEF removeManifestArtifacts
  <2>2. call' \in CallRecords /\ call'.pc = "loop"
    BY <1>1, <2>1, CallUpdates
  <2>3. Quiet
    BY <1>1, <2>1, <2>2 DEF Quiet, TypeOK
  <2> QED
    BY <2>3, QuietInv
<1>4. CASE todo # <<>> /\ ~listInstalledThrows
  <2>1. /\ disk' = RemovedFromDisk(path)
        /\ call' = [call EXCEPT !.todo = rest]
        /\ damaged' = damaged \cup {id}
    BY <1>4 DEF removeManifestArtifacts
  <2>2. path \in Paths /\ rest \in Seq(Paths) /\ Range(todo) = {path} \cup Range(rest)
    BY <1>1, <1>4, TailRange
  <2>3. /\ disk' \subseteq disk /\ disk \ disk' \subseteq {path}
        /\ disk' # disk => ~pathStillNeededElsewhere(path, id)
        /\ path \in disk' \ Directories => pathStillNeededElsewhere(path, id)
    BY <2>1 DEF RemovedFromDisk
  <2> HIDE DEF path, rest, id
  <2>4. /\ call' \in CallRecords /\ call'.pc = "artifacts" /\ call'.id = id
        /\ call'.todo = rest /\ call'.op = call.op /\ call'.entry = call.entry
    BY <1>1, <2>1, <2>2 DEF CallRecords, id
  <2>5. TypeOK' /\ CallKnows' /\ PersistTracked' /\ SourceLast'
    BY <1>1, <2>1, <2>3, <2>4, SameDirs DEF RqpInv, StoreInv, TypeOK, CallKnows, PersistTracked
  <2>6. ASSUME NEW i \in Ids \ damaged', dir'[i].files["manifest"] = "full"
        PROVE  /\ Range(dir'[i].manifest) \subseteq disk'
               /\ dir'[i].manifest # <<>> => loadInstalled(i)'
    <3>1. i # id /\ i \notin damaged /\ dir[i].files["manifest"] = "full" /\ dir'[i] = dir[i]
      BY <1>1, <2>1, <2>6
    <3>2. Range(dir[i].manifest) \subseteq disk /\ (dir[i].manifest # <<>> => loadInstalled(i))
      BY <3>1 DEF RqpInv, StoreInv, ManifestsHold
    <3>3. CASE dir[i].manifest = <<>>
      BY <3>1, <3>3, EmptyRange
    <3>4. CASE dir[i].manifest # <<>>
      <4>1. i \in listInstalled \ {id} /\ parseManifestJson(i) = dir[i].manifest
        BY <3>1, <3>2, <3>4 DEF listInstalled, parseManifestJson
      <4>2. disk' # disk => path \notin Range(dir[i].manifest)
        BY <2>3, <4>1 DEF pathStillNeededElsewhere
      <4>3. Range(dir[i].manifest) \subseteq disk'
        BY <2>3, <3>2, <4>2
      <4> QED
        BY <1>1, <3>1, <3>2, <3>4, <4>3, SameDirs
    <3> QED
      BY <3>3, <3>4
  <2>7. ManifestsHold'
    BY <2>1, <2>4, <2>6 DEF ManifestsHold
  <2>8. ASSUME faults' = 0 PROVE ArtifactsOwned'
    <3>1. ArtifactsOwned /\ faults = 0 /\ Complete(id)
      BY <1>1, <2>8 DEF RqpInv, ArtifactsOwned, id
    <3>2. \A i \in Ids : Complete(i) \/ Gone(i)
      BY <1>1, <3>1 DEF ArtifactsOwned
    <3>3. \A i \in Ids : /\ Complete(i)' <=> Complete(i)
                         /\ Gone(i)' <=> Gone(i)
                         /\ Answers(i)' <=> Complete(i)
                         /\ Answers(i) <=> Complete(i)
      BY <1>1, <2>4, SameDirs DEF Answers
    <3>4. Complete(call.id)'
      BY <1>1, <2>4, <3>1 DEF Complete
    <3>5. \A p \in disk' \ Directories :
             \E i \in Ids : p \in Range(HookFiles[i]) /\ Answers(i)'
      BY <2>3, <3>1, <3>3 DEF ArtifactsOwned
    <3>6. ASSUME NEW p \in Range(HookFiles[id]) \ Range(rest), p \in disk' \ Directories
          PROVE  \E i \in Ids \ {id} : p \in Range(HookFiles[i]) /\ Answers(i)'
      <4>1. CASE p \notin Range(todo)
        <5>1. p \in disk \ Directories
          BY <2>3, <3>6
        <5>2. \E i \in Ids \ {id} : p \in Range(HookFiles[i]) /\ Answers(i)
          BY <1>1, <3>1, <3>6, <4>1, <5>1 DEF ArtifactsOwned, id
        <5> QED
          BY <3>3, <5>2
      <4>2. CASE p \in Range(todo)
        <5>1. p = path
          BY <2>2, <3>6, <4>2
        <5>2. PICK i \in listInstalled \ {id} : p \in Range(parseManifestJson(i))
          BY <2>3, <3>6, <5>1 DEF pathStillNeededElsewhere
        <5>3. i \in Ids /\ i # id /\ ~Gone(i)
          BY <5>2 DEF listInstalled, loadInstalled, Gone, FileNames
        <5>4. Complete(i)
          BY <3>2, <5>3
        <5>5. p \in Range(HookFiles[i])
          BY <5>2, <5>4 DEF Complete, parseManifestJson, FileNames
        <5> QED
          BY <3>3, <5>3, <5>4, <5>5
      <4> QED
        BY <4>1, <4>2
    <3>7. call'.pc = "artifacts" =>
              \A p \in Range(HookFiles[call'.id]) \ Range(call'.todo) :
                  p \in disk' \ Directories =>
                      \E i \in Ids \ {call'.id} : p \in Range(HookFiles[i]) /\ Answers(i)'
      BY <2>4, <3>6
    <3> QED
      BY <2>4, <3>2, <3>3, <3>4, <3>5, <3>7 DEF ArtifactsOwned
  <2> QED
    BY <2>5, <2>7, <2>8 DEF RqpInv, StoreInv, ArtifactsOwned
<1> QED
  BY <1>2, <1>3, <1>4

LEMMA NoDirectory == NoDir \in StateDirs /\ \A f \in FileNames : NoDir.files[f] = "none"
<1> DEFINE files == [f \in FileNames |-> "none"]
           none == <<>>
<1>1. files \in [FileNames -> {"none", "empty", "full"}] /\ \A f \in FileNames : files[f] = "none"
  OBVIOUS
<1>2. NoSource \in SourceRecords /\ none \in Seq(Paths)
  BY DEF NoSource, SourceRecords, Names
<1>3. NoDir = [files |-> files, source |-> NoSource, manifest |-> none]
  BY DEF NoDir
<1> HIDE DEF files, none, NoSource
<1> QED
  BY <1>1, <1>2, <1>3 DEF StateDirs

LEMMA RemoveStateStep ==
    ASSUME RqpInv, removeInstalledState
    PROVE  RqpInv'
<1> DEFINE id == call.id
           left == {f \in FileNames : dir[id].files[f] # "none"}
           again == [name |-> call.id.name, version |-> call.id.version, exact |-> FALSE]
<1>1. /\ TypeOK /\ call \in CallRecords /\ call.pc = "state" /\ id \in Ids
      /\ UNCHANGED <<published, disk, calls, faults>>
      /\ dir \in [Ids -> StateDirs] /\ dir[id] \in StateDirs /\ damaged \in SUBSET Ids
      /\ id \in damaged \/ parseManifestJson(id) = <<>>
  BY DEF RqpInv, StoreInv, TypeOK, CallKnows, ManifestsHold, removeInstalledState
<1>2. ASSUME NEW f \in left, dir' = [dir EXCEPT ![id].files[f] = "none"],
             UNCHANGED <<call, damaged>>
      PROVE  RqpInv'
  <2> DEFINE none == "none"
             old == dir[id]
             files == [old.files EXCEPT ![f] = none]
             new == [old EXCEPT !.files = files]
  <2>1. dir' = [dir EXCEPT ![id] = new]
    BY <1>1, <1>2 DEF StateDirs
  <2>2. f \in FileNames /\ none \in {"none", "empty", "full"}
    OBVIOUS
  <2> HIDE DEF none, id, old
  <2>3. /\ files \in [FileNames -> {"none", "empty", "full"}]
        /\ \A g \in FileNames : files[g] = IF g = f THEN none ELSE old.files[g]
    BY <1>1, <2>2 DEF StateDirs, old
  <2> HIDE DEF files
  <2>4. new \in StateDirs /\ new.files = files /\ new.manifest = old.manifest
    BY <1>1, <2>3 DEF StateDirs, old
  <2> HIDE DEF new
  <2>5. /\ dir' \in [Ids -> StateDirs] /\ dir'[id] = new
        /\ \A other \in Ids \ {id} : dir'[other] = dir[other]
    BY <1>1, <2>1, <2>4
  <2>6. /\ dir'[id].files["manifest"] \in {"none", dir[id].files["manifest"]}
        /\ dir'[id].files["source"] \in {"none", dir[id].files["source"]}
        /\ dir'[id].manifest = dir[id].manifest
    BY <2>3, <2>4, <2>5 DEF FileNames, old, none
  <2>7. TypeOK' /\ CallKnows' /\ PersistTracked'
    BY <1>1, <1>2, <2>5 DEF RqpInv, StoreInv, TypeOK, CallKnows, PersistTracked
  <2>8. SourceLast'
    BY <2>5, <2>6 DEF RqpInv, StoreInv, SourceLast
  <2>9. id \in damaged' \/ parseManifestJson(call.id)' = <<>>
    BY <1>1, <1>2, <2>6 DEF parseManifestJson, id
  <2>10. ASSUME NEW i \in Ids \ damaged', dir'[i].files["manifest"] = "full"
         PROVE  /\ Range(dir'[i].manifest) \subseteq disk'
                /\ dir'[i].manifest # <<>> => loadInstalled(i)'
    <3>1. CASE i = id
      <4>1. dir'[i].manifest = <<>>
        BY <1>1, <1>2, <2>6, <2>10, <3>1 DEF parseManifestJson
      <4> QED
        BY <4>1, EmptyRange
    <3>2. CASE i # id
      BY <1>1, <1>2, <2>5, <2>10, <3>2 DEF RqpInv, StoreInv, ManifestsHold, loadInstalled
    <3> QED
      BY <3>1, <3>2
  <2>11. ManifestsHold'
    BY <1>1, <1>2, <2>9, <2>10 DEF ManifestsHold, id
  <2>12. ASSUME faults' = 0 PROVE ArtifactsOwned'
    <3>1. ArtifactsOwned /\ faults = 0
      BY <1>1, <2>12 DEF RqpInv
    <3>2. \A i \in Ids \ {id} : /\ Complete(i)' <=> Complete(i)
                                /\ Gone(i)' <=> Gone(i)
      BY <2>5 DEF Complete, Gone
    <3>3. \A i \in Ids : Complete(i)' \/ Gone(i)' \/ i = id
      BY <1>1, <3>1, <3>2 DEF ArtifactsOwned, id
    <3>4. \A i \in Ids : Answers(i) => Answers(i)'
      BY <1>1, <1>2, <3>2 DEF Answers, id
    <3>5. \A p \in disk' \ Directories :
             \E i \in Ids : p \in Range(HookFiles[i]) /\ Answers(i)'
      BY <1>1, <3>1, <3>4 DEF ArtifactsOwned
    <3> QED
      BY <1>1, <1>2, <3>3, <3>5 DEF ArtifactsOwned, id
  <2> QED
    BY <2>7, <2>8, <2>11, <2>12 DEF RqpInv, StoreInv, ArtifactsOwned
<1>3. ASSUME dir' = [dir EXCEPT ![id] = NoDir], damaged' = damaged \ {id},
             IF call.op = "update" THEN StartInstall(again, call.entry, call)
             ELSE NextRequest(TRUE)
      PROVE  RqpInv'
  <2>1. /\ call' \in CallRecords /\ call'.pc \in {"loop", "fetch"}
        /\ call'.pc = "fetch" => call'.entry \in Entries
    <3>1. CASE call.op = "update"
      <4>1. again \in Asks
        BY <1>1, RqpAssumption DEF Asks, Names
      <4>2. call.entry \in Entries
        BY <1>1, <3>1 DEF RqpInv, StoreInv, CallKnows
      <4> HIDE DEF again
      <4> QED
        BY <1>1, <1>3, <3>1, <4>1, <4>2, StartedInstall
    <3>2. CASE call.op # "update"
      BY <1>1, <1>3, <3>2, CallUpdates
    <3> QED
      BY <3>1, <3>2
  <2>2. NoDir \in StateDirs /\ \A f \in FileNames : NoDir.files[f] = "none"
    BY NoDirectory
  <2> HIDE DEF id
  <2>3. /\ dir' \in [Ids -> StateDirs] /\ dir'[id] = NoDir
        /\ \A other \in Ids \ {id} : dir'[other] = dir[other]
    BY <1>1, <1>3, <2>2
  <2>4. TypeOK' /\ CallKnows' /\ PersistTracked'
    BY <1>1, <1>3, <2>1, <2>3 DEF TypeOK, CallKnows, PersistTracked
  <2>5. SourceLast'
    BY <2>2, <2>3 DEF RqpInv, StoreInv, SourceLast, FileNames
  <2>6. ASSUME NEW i \in Ids \ damaged', dir'[i].files["manifest"] = "full"
        PROVE  /\ Range(dir'[i].manifest) \subseteq disk'
               /\ dir'[i].manifest # <<>> => loadInstalled(i)'
    <3>1. i # id
      BY <2>2, <2>3, <2>6 DEF FileNames
    <3> QED
      BY <1>1, <1>3, <2>3, <2>6, <3>1 DEF RqpInv, StoreInv, ManifestsHold, loadInstalled
  <2>7. ManifestsHold'
    BY <2>1, <2>6 DEF ManifestsHold
  <2>8. ASSUME faults' = 0 PROVE ArtifactsOwned'
    <3>1. ArtifactsOwned /\ faults = 0
      BY <1>1, <2>8 DEF RqpInv
    <3>2. \A i \in Ids \ {id} : /\ Complete(i)' <=> Complete(i)
                                /\ Gone(i)' <=> Gone(i)
      BY <2>3 DEF Complete, Gone
    <3>3. \A i \in Ids : i = id => Gone(i)'
      BY <2>2, <2>3 DEF Gone
    <3>4. \A i \in Ids : Complete(i)' \/ Gone(i)'
      BY <1>1, <3>1, <3>2, <3>3 DEF ArtifactsOwned, id
    <3>5. \A i \in Ids : Answers(i) => Answers(i)'
      BY <1>1, <2>1, <3>2 DEF Answers, id
    <3>6. \A p \in disk' \ Directories :
             \E i \in Ids : p \in Range(HookFiles[i]) /\ Answers(i)'
      BY <1>1, <3>1, <3>5 DEF ArtifactsOwned
    <3> QED
      BY <2>1, <3>4, <3>6 DEF ArtifactsOwned
  <2> QED
    BY <2>4, <2>5, <2>7, <2>8 DEF RqpInv, StoreInv, ArtifactsOwned
<1>4. \/ \E f \in left : dir' = [dir EXCEPT ![id].files[f] = "none"] /\ UNCHANGED <<call, damaged>>
      \/ /\ dir' = [dir EXCEPT ![id] = NoDir] /\ damaged' = damaged \ {id}
         /\ IF call.op = "update" THEN StartInstall(again, call.entry, call)
            ELSE NextRequest(TRUE)
  BY DEF removeInstalledState
<1> QED
  BY <1>2, <1>3, <1>4

-----------------------------------------------------------------------------
(* Names and versions.                                                     *)

(* The source records that StartInstall and installLocal prepare.          *)
RepositorySource(e) ==
    [kind |-> "repository", name |-> Catalogue[e].name, version |-> Catalogue[e].version,
     requestName |-> Catalogue[e].name]
LocalSource == [NoSource EXCEPT !.kind = "local-file", !.name = LocalPath]

(* Where a package may say that it came from.                              *)
SourceOf(source, id) ==
    \/ source \in {NoSource, LocalSource}
    \/ \E e \in Entries : /\ Layout[e] # None /\ IdentityOf(Layout[e]) = id
                          /\ source = RepositorySource(e)

Installing == call.pc \in {"fetch", "hook", "persist"}
Removing == call.pc \in {"removehook", "artifacts", "state"}

(* A package's source record names an index entry of that very package,    *)
(* and so does the one that is about to be stored.                         *)
SourcesTrue ==
    /\ \A id \in Ids : SourceOf(dir[id].source, id)
    /\ Installing => /\ call.entry \in Entries
                     /\ call.source \in {LocalSource, RepositorySource(call.entry)}
                     /\ call.op # "local" => call.source = RepositorySource(call.entry)
    /\ call.pc \in {"hook", "persist"} =>
          Layout[call.entry] # None /\ call.id = IdentityOf(Layout[call.entry])
    /\ call.pc = "persist" /\ call.step = 7 => dir[call.id].source = call.source

(* What an update removes has its successor chosen.                        *)
UpdateTarget ==
    /\ Removing => call.op \in {"remove", "update"}
    /\ call.op = "update" /\ (Removing \/ call.pc = "fetch") =>
          /\ call.id \in Ids /\ call.entry \in Entries
          /\ Catalogue[call.entry].name = call.id.name
          /\ Catalogue[call.entry].version > call.id.version

NotOlder(new, old) == new.name = old.name /\ new.version >= old.version

(* Every package the update found is there, in this or a later version, or *)
(* the call holds its identity or its successor's.                         *)
PackagesKept ==
    call.op = "update" /\ call.ok =>
        \A old \in call.before :
            \/ \E new \in Readable : NotOlder(new, old)
            \/ call.pc \in {"state", "fetch", "hook", "persist"} /\ NotOlder(call.id, old)

(* An installation is that of the entry the current request resolved to.   *)
InstallTarget ==
    call.op = "install" /\ Installing =>
        call.request \in Asks /\ Answered(call.entry, call.request)

(* The package is found under the request's name also when its source      *)
(* record has been replaced by that of the current installation.           *)
StaysFound(id, request) ==
    Installing /\ Layout[call.entry] # None /\ id = IdentityOf(Layout[call.entry]) =>
        request.name \in {id.name, call.source.name}

Confirmed(request) ==
    /\ request.name \notin {"", LocalPath}
    /\ \/ \E id \in findInstalled(request) : StaysFound(id, request)
       \/ Installing /\ request = call.request

(* Every request of an installation is still to come, installed, or being  *)
(* installed.                                                              *)
RequestsConfirmed ==
    call.op = "install" /\ call.ok =>
        \A ask \in Range(call.asked) : ask \in Range(call.queue) \/ Confirmed(ask)

NamesInv == SourcesTrue /\ UpdateTarget /\ PackagesKept /\ InstallTarget /\ RequestsConfirmed

LEMMA SameFound ==
    ASSUME dir' = dir
    PROVE  /\ listInstalled' = listInstalled /\ Readable' = Readable
           /\ \A request : findInstalled(request)' = findInstalled(request)
BY DEF listInstalled, loadInstalled, Readable, findInstalled, installed_name_matches,
       installed_version_matches

(* A step that changes one directory changes what is known of one package. *)
LEMMA OthersFound ==
    ASSUME NEW id, \A other \in Ids \ {id} : dir'[other] = dir[other]
    PROVE  \A other \in Ids \ {id} :
               /\ other \in Readable' <=> other \in Readable
               /\ \A request : other \in findInstalled(request)' <=> other \in findInstalled(request)
BY DEF listInstalled, loadInstalled, Readable, findInstalled, installed_name_matches,
       installed_version_matches

LEMMA FailedRequest ==
    ASSUME TypeOK, NextRequest(FALSE) \/ Throw
    PROVE  call'.pc = "loop" /\ ~call'.ok
<1>1. call \in CallRecords
  BY DEF TypeOK
<1>2. CASE NextRequest(FALSE)
  BY <1>1, <1>2, Zenon DEF NextRequest, CallRecords
<1>3. CASE Throw
  BY <1>1, <1>3, Zenon DEF Throw, CallRecords
<1> QED
  BY <1>2, <1>3

LEMMA DoneRequest ==
    ASSUME TypeOK, NextRequest(TRUE)
    PROVE  /\ call'.pc = "loop" /\ call'.ok = call.ok /\ call'.op = call.op
           /\ call'.queue = call.queue /\ call'.asked = call.asked /\ call'.before = call.before
<1>1. call \in CallRecords /\ call.ok \in BOOLEAN
  BY DEF TypeOK, CallRecords
<1> QED
  BY <1>1, Zenon DEF NextRequest, CallRecords

(* Steps after which there is nothing to say of the call.                  *)
LEMMA SilentStep ==
    ASSUME NamesInv, dir' = dir, ~Installing',
           \/ call'.op \notin {"install", "update"} /\ (Removing' => call'.op = "remove")
           \/ ~call'.ok /\ ~Removing'
    PROVE  NamesInv'
<1>1. SourcesTrue'
  BY DEF NamesInv, SourcesTrue, Installing
<1>2. UpdateTarget' /\ PackagesKept' /\ InstallTarget' /\ RequestsConfirmed'
  BY DEF UpdateTarget, PackagesKept, InstallTarget, RequestsConfirmed, Installing, Removing
<1> QED
  BY <1>1, <1>2 DEF NamesInv

LEMMA SameCallNames ==
    ASSUME NamesInv, UNCHANGED <<dir, call>>
    PROVE  NamesInv'
<1>1. Readable' = Readable /\ \A request : findInstalled(request)' = findInstalled(request)
  BY SameFound
<1>2. (Installing' <=> Installing) /\ (Removing' <=> Removing)
  BY DEF Installing, Removing
<1>3. SourcesTrue' /\ UpdateTarget' /\ PackagesKept' /\ InstallTarget'
  BY <1>1, <1>2 DEF NamesInv, SourcesTrue, UpdateTarget, PackagesKept, InstallTarget
<1>4. \A request : Confirmed(request)' <=> Confirmed(request)
  BY <1>1, <1>2 DEF Confirmed, StaysFound
<1>5. RequestsConfirmed'
  BY <1>4 DEF NamesInv, RequestsConfirmed
<1> QED
  BY <1>3, <1>5 DEF NamesInv

LEMMA NamesOutside ==
    ASSUME RqpInv, NamesInv,
           \/ Publish \/ IndexFails \/ Return \/ FetchFails \/ HookFails \/ Crash
           \/ \E op \in {"install", "remove", "update"}, r \in Requests : Begin(op, r)
           \/ \E e \in Entries : installLocal(e)
    PROVE  NamesInv'
<1>1. TypeOK /\ Idle \in CallRecords /\ Idle.pc = "idle" /\ Idle.op = "none"
  BY IdleCall DEF RqpInv, StoreInv, Idle
<1>2. CASE Publish
  BY <1>2, SameCallNames DEF Publish
<1>3. CASE IndexFails \/ FetchFails \/ HookFails
  <2>1. dir' = dir /\ (NextRequest(FALSE) \/ Throw)
    BY <1>3 DEF IndexFails, FetchFails, HookFails
  <2>2. call'.pc = "loop" /\ ~call'.ok
    BY <1>1, <2>1, FailedRequest
  <2> QED
    BY <2>1, <2>2, SilentStep DEF Installing, Removing
<1>4. CASE Return \/ Crash
  <2>1. dir' = dir /\ call' = Idle
    BY <1>4 DEF Return, Crash
  <2> QED
    BY <1>1, <2>1, SilentStep DEF Installing, Removing
<1>5. ASSUME NEW op \in {"install", "remove", "update"}, NEW r \in Requests, Begin(op, r)
      PROVE  NamesInv'
  <2> DEFINE before == Readable
  <2>1. /\ call' = [Idle EXCEPT !.pc = "loop", !.op = op, !.queue = r, !.asked = r,
                                !.before = before]
        /\ dir' = dir
    BY <1>5 DEF Begin
  <2> HIDE DEF before
  <2>2. call'.pc = "loop" /\ call'.queue = r /\ call'.asked = r /\ call'.before = before
    BY <1>1, <2>1 DEF CallRecords
  <2>3. SourcesTrue' /\ UpdateTarget' /\ InstallTarget'
    BY <2>1, <2>2 DEF NamesInv, SourcesTrue, UpdateTarget, InstallTarget, Installing, Removing
  <2>4. PackagesKept'
    <3> SUFFICES ASSUME NEW old \in call'.before PROVE \E new \in Readable' : NotOlder(new, old)
      BY DEF PackagesKept
    <3>1. old \in Readable' /\ old \in Ids
      BY <2>1, <2>2, SameFound DEF before, Readable, listInstalled
    <3>2. NotOlder(old, old)
      BY <3>1, RqpAssumption DEF NotOlder
    <3> QED
      BY <3>1, <3>2
  <2>5. RequestsConfirmed'
    BY <2>2 DEF RequestsConfirmed
  <2> QED
    BY <2>3, <2>4, <2>5 DEF NamesInv
<1>6. ASSUME NEW e \in Entries, installLocal(e)
      PROVE  NamesInv'
  <2> DEFINE before == Readable
             source == [NoSource EXCEPT !.kind = "local-file", !.name = LocalPath]
  <2>1. /\ call' = [Idle EXCEPT !.pc = "fetch", !.op = "local", !.entry = e, !.before = before,
                                !.source = source]
        /\ dir' = dir
    BY <1>6 DEF installLocal
  <2>2. source = LocalSource
    BY DEF LocalSource
  <2> HIDE DEF before, source
  <2>3. call'.pc = "fetch" /\ call'.op = "local" /\ call'.entry = e /\ call'.source = LocalSource
    BY <1>1, <2>1, <2>2 DEF CallRecords
  <2>4. SourcesTrue'
    BY <2>1, <2>3 DEF NamesInv, SourcesTrue, Installing
  <2>5. UpdateTarget' /\ PackagesKept' /\ InstallTarget' /\ RequestsConfirmed'
    BY <2>3 DEF UpdateTarget, PackagesKept, InstallTarget, RequestsConfirmed, Removing
  <2> QED
    BY <2>4, <2>5 DEF NamesInv
<1> QED
  BY <1>2, <1>3, <1>4, <1>5, <1>6

(* What the names in a source record can be.                               *)
LEMMA SourceNames ==
    ASSUME NEW id, SourceOf(dir[id].source, id), NEW name, name \notin {"", LocalPath},
           dir[id].source.requestName = name \/ dir[id].source.name = name
    PROVE  \E e \in Entries : /\ Layout[e] # None /\ IdentityOf(Layout[e]) = id
                              /\ dir[id].source = RepositorySource(e) /\ Catalogue[e].name = name
<1>1. NoSource.name = "" /\ NoSource.requestName = ""
      /\ LocalSource.name = LocalPath /\ LocalSource.requestName = ""
  BY DEF NoSource, LocalSource
<1>2. PICK e \in Entries : /\ Layout[e] # None /\ IdentityOf(Layout[e]) = id
                           /\ dir[id].source = RepositorySource(e)
  BY <1>1 DEF SourceOf
<1>3. RepositorySource(e).requestName = Catalogue[e].name
      /\ RepositorySource(e).name = Catalogue[e].name
  BY DEF RepositorySource
<1> QED
  BY <1>2, <1>3

(* An installation that starts replaces the source record of a package     *)
(* another request was answered with only where that request still finds   *)
(* it: had the package its own name from the new entry, it would have been *)
(* found and nothing installed.                                            *)
LEMMA FoundAgain ==
    ASSUME IndexHonest, \A id \in Ids : SourceOf(dir[id].source, id),
           NEW request, NEW entry \in Entries, Answered(entry, request),
           findInstalled(request) = {}, Layout[entry] # None,
           NEW ask, ask.name \notin {"", LocalPath},
           NEW w \in findInstalled(ask), w = IdentityOf(Layout[entry])
    PROVE  ask.name \in {w.name, Catalogue[entry].name}
<1>1. w \in Ids /\ w \in listInstalled /\ installed_name_matches(w, ask.name)
  BY DEF findInstalled, listInstalled
<1>2. SUFFICES ASSUME ask.name # w.name, ask.name # Catalogue[entry].name
               PROVE  FALSE
  OBVIOUS
<1>3. PICK e \in Entries : /\ Layout[e] # None /\ IdentityOf(Layout[e]) = w
                           /\ Catalogue[e].name = ask.name
  <2> DEFINE name == ask.name
  <2>1. SourceOf(dir[w].source, w) /\ name \notin {"", LocalPath}
    BY <1>1
  <2>2. dir[w].source.requestName = name \/ dir[w].source.name = name
    BY <1>1, <1>2 DEF installed_name_matches
  <2> HIDE DEF name
  <2>3. \E e \in Entries : /\ Layout[e] # None /\ IdentityOf(Layout[e]) = w
                            /\ Catalogue[e].name = name
    BY ONLY <2>1, <2>2, SourceNames
  <2> QED
    BY <2>3 DEF name
<1>4. w.name = Catalogue[entry].name /\ w.version = Catalogue[entry].version
  <2> DEFINE own == Catalogue[entry].name
  <2>1. IdentityOf(Layout[entry]).version = Catalogue[entry].version
    BY DEF IndexHonest
  <2>2. \/ Catalogue[entry].name = Catalogue[e].name
        \/ IdentityOf(Layout[entry]).name \in {Catalogue[entry].name, Catalogue[e].name}
    BY <1>3 DEF IndexHonest
  <2>3. /\ Catalogue[e].name = ask.name /\ IdentityOf(Layout[entry]) = w
        /\ ask.name # w.name /\ ask.name # own
    BY <1>2, <1>3
  <2>4. own = ask.name \/ w.name \in {own, ask.name}
    BY <2>2, <2>3
  <2> QED
    BY <2>1, <2>3, <2>4
<1>5. w \in findInstalled(request)
  BY <1>1, <1>4 DEF findInstalled, installed_name_matches, installed_version_matches, Answered
<1> QED
  BY <1>5

(* What stays of a call.                                                   *)
Continues(c) == /\ call'.op = c.op /\ call'.ok = c.ok /\ call'.queue = c.queue
                /\ call'.request = c.request /\ call'.id = c.id
                /\ call'.asked = c.asked /\ call'.before = c.before

LEMMA StartCases ==
    ASSUME TypeOK, NEW request \in Asks, NEW entry \in Entries, NEW c \in CallRecords,
           Catalogue[entry].name = request.name, StartInstall(request, entry, c)
    PROVE  \/ call'.pc = "loop" /\ ~call'.ok
           \/ /\ ~listInstalledThrows /\ findInstalled(request) # {}
              /\ call'.pc = "loop" /\ Continues(c)
           \/ /\ findInstalled(request) = {}
              /\ call'.pc = "fetch" /\ Continues(c)
              /\ call'.entry = entry /\ call'.source = RepositorySource(entry)
<1> DEFINE source == [kind |-> "repository", name |-> Catalogue[entry].name,
                      version |-> Catalogue[entry].version, requestName |-> request.name]
<1>1. source = RepositorySource(entry)
  BY DEF RepositorySource
<1>2. CASE listInstalledThrows
  BY <1>2, FailedRequest DEF StartInstall
<1>3. CASE ~listInstalledThrows /\ findInstalled(request) # {}
  <2>1. call' = [c EXCEPT !.pc = "loop"]
    BY <1>3 DEF StartInstall
  <2>2. call'.pc = "loop" /\ Continues(c)
    BY <2>1 DEF CallRecords, Continues
  <2> QED
    BY <1>3, <2>2
<1>4. CASE ~listInstalledThrows /\ findInstalled(request) = {}
  <2>1. call' = [c EXCEPT !.pc = "fetch", !.entry = entry, !.source = source]
    BY <1>4 DEF StartInstall
  <2> HIDE DEF source
  <2>2. call'.pc = "fetch" /\ call'.entry = entry /\ call'.source = source /\ Continues(c)
    BY <2>1 DEF CallRecords, Continues
  <2> QED
    BY <1>1, <1>4, <2>2
<1> QED
  BY <1>2, <1>3, <1>4

(* The next request of a call.                                             *)
LEMMA DequeuedFields ==
    ASSUME NEW c \in CallRecords, c.queue # <<>>
    PROVE  LET next == [c EXCEPT !.queue = Tail(@), !.request = Head(c.queue)]
           IN  /\ next.op = c.op /\ next.pc = c.pc /\ next.ok = c.ok
               /\ next.queue = Tail(c.queue) /\ next.request = Head(c.queue)
               /\ next.asked = c.asked /\ next.before = c.before
               /\ Range(c.queue) = {Head(c.queue)} \cup Range(Tail(c.queue))
<1> DEFINE request == Head(c.queue)
           rest == Tail(c.queue)
<1>1. Range(c.queue) = {request} \cup Range(rest)
  <2>1. c.queue \in Seq(Asks)
    BY DEF CallRecords
  <2> QED
    BY <2>1, TailRange
<1> HIDE DEF request, rest
<1>2. LET next == [c EXCEPT !.queue = rest, !.request = request]
      IN  /\ next.op = c.op /\ next.pc = c.pc /\ next.ok = c.ok
          /\ next.queue = rest /\ next.request = request
          /\ next.asked = c.asked /\ next.before = c.before
  BY DEF CallRecords
<1> QED
  BY <1>1, <1>2 DEF request, rest

LEMMA NamesInstall ==
    ASSUME IndexHonest, RqpInv, NamesInv, install
    PROVE  NamesInv'
<1> DEFINE request == Head(call.queue)
           entry == Resolve(request)
           c == [call EXCEPT !.queue = Tail(@), !.request = Head(call.queue)]
<1>1. /\ TypeOK /\ published \in {{}, Entries} /\ call \in CallRecords
      /\ call.pc = "loop" /\ call.op = "install" /\ call.queue # <<>> /\ dir' = dir
  BY DEF RqpInv, StoreInv, TypeOK, install
<1>2. request \in Asks /\ c \in CallRecords
  BY <1>1, Dequeued
<1>3. /\ c.op = "install" /\ c.pc = "loop" /\ c.ok = call.ok /\ c.request = request
      /\ c.asked = call.asked /\ Range(call.queue) = {request} \cup Range(c.queue)
  BY <1>1, DequeuedFields
<1>4. entry \in Entries \cup {None} /\ (entry # None => Answered(entry, request))
  BY <1>1, ResolveFinds
<1>5. IF entry = None THEN call' = [c EXCEPT !.ok = FALSE] ELSE StartInstall(request, entry, c)
  BY DEF install
<1> HIDE DEF entry, request, c
<1>6. CASE entry = None
  <2>1. call'.pc = "loop" /\ ~call'.ok
    BY <1>2, <1>3, <1>5, <1>6, Zenon DEF CallRecords
  <2> QED
    BY <1>1, <2>1, SilentStep DEF Installing, Removing
<1>7. CASE entry # None
  <2>1. entry \in Entries /\ Answered(entry, request) /\ Catalogue[entry].name = request.name
    BY <1>4, <1>7 DEF Answered
  <2>2. request.name \notin {"", LocalPath}
    BY <2>1 DEF IndexHonest
  <2>3. ASSUME call.ok, NEW ask \in Range(call.asked), ask \notin Range(c.queue), ask # request
        PROVE  ask.name \notin {"", LocalPath} /\ findInstalled(ask) # {}
    BY <1>1, <1>3, <2>3 DEF NamesInv, RequestsConfirmed, Confirmed, Installing
  <2>4. CASE call'.pc = "loop" /\ ~call'.ok
    BY <1>1, <2>4, SilentStep DEF Installing, Removing
  <2>5. CASE /\ ~listInstalledThrows /\ findInstalled(request) # {}
             /\ call'.pc = "loop" /\ Continues(c)
    <3>1. SourcesTrue' /\ UpdateTarget' /\ PackagesKept' /\ InstallTarget'
      BY <1>1, <1>3, <2>5 DEF NamesInv, SourcesTrue, UpdateTarget, PackagesKept, InstallTarget,
                              Installing, Removing, Continues
    <3>2. RequestsConfirmed'
      <4> SUFFICES ASSUME call'.ok, NEW ask \in Range(call'.asked), ask \notin Range(call'.queue)
                   PROVE  Confirmed(ask)'
        BY DEF RequestsConfirmed
      <4>1. call.ok /\ ask \in Range(call.asked) /\ ask \notin Range(c.queue)
        BY <1>3, <2>5 DEF Continues
      <4>2. ask.name \notin {"", LocalPath} /\ findInstalled(ask) # {}
        BY <2>2, <2>3, <2>5, <4>1
      <4>3. findInstalled(ask)' # {} /\ ~Installing'
        BY <1>1, <2>5, <4>2, SameFound DEF Installing
      <4> QED
        BY <4>2, <4>3 DEF Confirmed, StaysFound
    <3> QED
      BY <3>1, <3>2 DEF NamesInv
  <2>6. CASE /\ findInstalled(request) = {}
             /\ call'.pc = "fetch" /\ Continues(c)
             /\ call'.entry = entry /\ call'.source = RepositorySource(entry)
    <3>1. /\ call'.op = "install" /\ call'.ok = call.ok /\ call'.asked = call.asked
          /\ call'.queue = c.queue /\ call'.request = request
      BY <1>3, <2>6 DEF Continues
    <3>2. SourcesTrue'
      BY <1>1, <2>1, <2>6 DEF NamesInv, SourcesTrue, Installing
    <3>3. UpdateTarget' /\ PackagesKept' /\ InstallTarget'
      BY <1>2, <2>1, <2>6, <3>1 DEF UpdateTarget, PackagesKept, InstallTarget, Removing
    <3>4. RequestsConfirmed'
      <4> SUFFICES ASSUME call'.ok, NEW ask \in Range(call'.asked), ask \notin Range(call'.queue)
                   PROVE  Confirmed(ask)'
        BY DEF RequestsConfirmed
      <4>1. Installing'
        BY <2>6 DEF Installing
      <4>2. CASE ask = request
        BY <2>2, <3>1, <4>1, <4>2 DEF Confirmed
      <4>3. CASE ask # request
        <5>1. ask.name \notin {"", LocalPath} /\ findInstalled(ask) # {}
          BY <2>3, <3>1, <4>3
        <5>2. PICK w \in findInstalled(ask) : TRUE
          BY <5>1
        <5>3. \A id \in Ids : SourceOf(dir[id].source, id)
          BY DEF NamesInv, SourcesTrue
        <5>4. Layout[entry] # None /\ w = IdentityOf(Layout[entry]) =>
                  ask.name \in {w.name, Catalogue[entry].name}
          BY <2>1, <2>6, <5>1, <5>3, FoundAgain
        <5>5. call'.source.name = Catalogue[entry].name
          BY <2>6 DEF RepositorySource
        <5>6. StaysFound(w, ask)'
          BY <2>6, <5>4, <5>5 DEF StaysFound
        <5>7. w \in findInstalled(ask)'
          BY <1>1, <5>2, SameFound
        <5> QED
          BY <5>1, <5>6, <5>7 DEF Confirmed
      <4> QED
        BY <4>2, <4>3
    <3> QED
      BY <3>2, <3>3, <3>4 DEF NamesInv
  <2> QED
    BY <1>1, <1>2, <1>5, <1>7, <2>1, <2>4, <2>5, <2>6, StartCases
<1> QED
  BY <1>6, <1>7

LEMMA NamesRemove ==
    ASSUME RqpInv, NamesInv, remove
    PROVE  NamesInv'
<1> DEFINE top == Highest(findInstalled(Head(call.queue)))
           c == [call EXCEPT !.queue = Tail(@), !.request = Head(call.queue)]
<1>1. /\ TypeOK /\ call \in CallRecords
      /\ call.pc = "loop" /\ call.op = "remove" /\ call.queue # <<>> /\ dir' = dir
  BY DEF RqpInv, StoreInv, TypeOK, remove
<1>2. c \in CallRecords /\ c.op = "remove" /\ c.pc = "loop"
  BY <1>1, Dequeued
<1>3. \/ Throw
      \/ call' = [c EXCEPT !.ok = FALSE]
      \/ call' = [c EXCEPT !.pc = "removehook", !.id = top]
  BY DEF remove
<1> HIDE DEF c, top
<1>4. CASE Throw
  <2>1. call'.pc = "loop" /\ ~call'.ok
    BY <1>1, <1>4, FailedRequest
  <2> QED
    BY <1>1, <2>1, SilentStep DEF Installing, Removing
<1>5. CASE call' = [c EXCEPT !.ok = FALSE]
  <2>1. call'.pc = "loop" /\ call'.op = "remove"
    BY <1>2, <1>5 DEF CallRecords
  <2> QED
    BY <1>1, <2>1, SilentStep DEF Installing
<1>6. CASE call' = [c EXCEPT !.pc = "removehook", !.id = top]
  <2>1. call'.pc = "removehook" /\ call'.op = "remove"
    BY <1>2, <1>6 DEF CallRecords
  <2> QED
    BY <1>1, <2>1, SilentStep DEF Installing
<1> QED
  BY <1>3, <1>4, <1>5, <1>6

LEMMA NamesUpdate ==
    ASSUME RqpInv, NamesInv, update
    PROVE  NamesInv'
<1> DEFINE matches == findInstalled(Head(call.queue))
           low == Lowest(matches)
           ask == [name |-> low.name, version |-> 0, exact |-> FALSE]
           candidate == Resolve(ask)
           c == [call EXCEPT !.queue = Tail(@), !.request = Head(call.queue)]
<1>1. /\ TypeOK /\ published \in {{}, Entries} /\ call \in CallRecords
      /\ call.pc = "loop" /\ call.op = "update" /\ call.queue # <<>> /\ dir' = dir
  BY DEF RqpInv, StoreInv, TypeOK, update
<1>2. c \in CallRecords
  BY <1>1, Dequeued
<1>3. c.op = "update" /\ c.pc = "loop" /\ c.ok = call.ok /\ c.before = call.before
  BY <1>1, DequeuedFields
<1>4. matches # {} => low \in Ids
  <2>1. matches \in SUBSET Ids
    BY DEF findInstalled, listInstalled
  <2> QED
    BY <2>1, LowestThere
<1>5. candidate \in Entries \cup {None}
      /\ (candidate # None => Catalogue[candidate].name = low.name)
  <2>1. candidate \in Entries \cup {None} /\ (candidate # None => Answered(candidate, ask))
    <3> HIDE DEF ask
    <3> QED
      BY <1>1, ResolveFinds
  <2>2. ask.name = low.name
    OBVIOUS
  <2> HIDE DEF ask, candidate
  <2> QED
    BY <2>1, <2>2 DEF Answered
<1>6. \/ Throw
      \/ call' = c
      \/ call' = [c EXCEPT !.ok = FALSE]
      \/ /\ matches # {} /\ candidate # None /\ Catalogue[candidate].version > low.version
         /\ call' = [c EXCEPT !.pc = "removehook", !.id = low, !.entry = candidate]
  BY DEF update, repositoryCandidateIsNewer
<1> HIDE DEF matches, low, ask, candidate, c
<1>7. CASE Throw
  <2>1. call'.pc = "loop" /\ ~call'.ok
    BY <1>1, <1>7, FailedRequest
  <2> QED
    BY <1>1, <2>1, SilentStep DEF Installing, Removing
<1>8. CASE call' = [c EXCEPT !.ok = FALSE]
  <2>1. call'.pc = "loop" /\ ~call'.ok
    BY <1>2, <1>3, <1>8, Zenon DEF CallRecords
  <2> QED
    BY <1>1, <2>1, SilentStep DEF Installing, Removing
<1>9. ASSUME /\ call'.op = "update" /\ call'.ok = call.ok /\ call'.before = call.before
             /\ call'.pc \in {"loop", "removehook"} /\ UpdateTarget'
      PROVE  NamesInv'
  <2>1. SourcesTrue' /\ InstallTarget' /\ RequestsConfirmed'
    BY <1>1, <1>9 DEF NamesInv, SourcesTrue, InstallTarget, RequestsConfirmed, Installing
  <2>2. PackagesKept'
    BY <1>1, <1>9, SameFound DEF NamesInv, PackagesKept
  <2> QED
    BY <1>9, <2>1, <2>2 DEF NamesInv
<1>10. CASE call' = c
  BY <1>3, <1>9, <1>10 DEF UpdateTarget, Removing
<1>11. CASE /\ matches # {} /\ candidate # None /\ Catalogue[candidate].version > low.version
            /\ call' = [c EXCEPT !.pc = "removehook", !.id = low, !.entry = candidate]
  <2>1. /\ call'.pc = "removehook" /\ call'.id = low /\ call'.entry = candidate
        /\ call'.op = "update" /\ call'.ok = call.ok /\ call'.before = call.before
    BY <1>2, <1>3, <1>11 DEF CallRecords
  <2>2. UpdateTarget'
    BY <1>4, <1>5, <1>11, <2>1 DEF UpdateTarget
  <2> QED
    BY <1>9, <2>1, <2>2
<1> QED
  BY <1>6, <1>7, <1>8, <1>10, <1>11

LEMMA NamesFetch ==
    ASSUME IndexHonest, RqpInv, NamesInv, Fetch
    PROVE  NamesInv'
<1> DEFINE layout == Layout[call.entry]
           id == IdentityOf(layout)
           files == HookFiles[id]
           none == <<>>
<1>1. /\ TypeOK /\ call \in CallRecords /\ call.pc = "fetch" /\ call.entry \in Entries
      /\ dir' = dir
  BY DEF RqpInv, StoreInv, TypeOK, CallKnows, Fetch
<1>2. CASE layout = None
  <2>1. NextRequest(FALSE)
    BY <1>2 DEF Fetch
  <2>2. call'.pc = "loop" /\ ~call'.ok
    BY <1>1, <2>1, FailedRequest
  <2> QED
    BY <1>1, <2>2, SilentStep DEF Installing, Removing
<1>3. CASE layout # None
  <2>1. call' = [call EXCEPT !.pc = "hook", !.id = id, !.todo = files, !.pending = none]
    BY <1>3 DEF Fetch
  <2>2. id \in Ids
    BY <1>1, <1>3, RqpAssumption
  <2>3. /\ id.version = Catalogue[call.entry].version
        /\ (\E other \in Ids : other.name = Catalogue[call.entry].name) =>
              id.name = Catalogue[call.entry].name
    BY <1>1, <1>3 DEF IndexHonest
  <2> HIDE DEF id, files, none
  <2>4. /\ call'.pc = "hook" /\ call'.id = id /\ call'.op = call.op /\ call'.ok = call.ok
        /\ call'.entry = call.entry /\ call'.source = call.source /\ call'.before = call.before
        /\ call'.request = call.request /\ call'.asked = call.asked /\ call'.queue = call.queue
    BY <1>1, <2>1 DEF CallRecords
  <2>5. SourcesTrue'
    BY <1>1, <1>3, <2>4 DEF NamesInv, SourcesTrue, Installing, id
  <2>6. UpdateTarget' /\ InstallTarget'
    BY <1>1, <2>4 DEF NamesInv, UpdateTarget, InstallTarget, Installing, Removing
  <2>7. PackagesKept'
    <3> SUFFICES ASSUME call'.op = "update", call'.ok, NEW old \in call'.before,
                        ~ \E new \in Readable' : NotOlder(new, old)
                 PROVE  NotOlder(id, old)
      BY <2>4 DEF PackagesKept
    <3>1. NotOlder(call.id, old)
      BY <1>1, <2>4, SameFound DEF NamesInv, PackagesKept
    <3>2. /\ call.id \in Ids /\ Catalogue[call.entry].name = call.id.name
          /\ Catalogue[call.entry].version > call.id.version
      BY <1>1, <2>4 DEF NamesInv, UpdateTarget
    <3>3. old \in Ids
      BY <1>1, <2>4 DEF CallRecords
    <3>4. id.version \in Nat /\ call.id.version \in Nat /\ old.version \in Nat
      BY <2>2, <3>2, <3>3, RqpAssumption
    <3>5. id.name = call.id.name /\ id.version > call.id.version
      BY <2>3, <3>2
    <3> QED
      BY <3>1, <3>4, <3>5 DEF NotOlder
  <2>8. RequestsConfirmed'
    <3>1. Installing /\ Installing'
      BY <1>1, <2>4 DEF Installing
    <3>2. \A ask : Confirmed(ask) => Confirmed(ask)'
      BY <1>1, <2>4, <3>1, SameFound DEF Confirmed, StaysFound
    <3> QED
      BY <2>4, <3>2 DEF NamesInv, RequestsConfirmed
  <2> QED
    BY <2>5, <2>6, <2>7, <2>8 DEF NamesInv
<1> QED
  BY <1>2, <1>3

(* Steps inside an installation or a removal that touch no directory.      *)
SameTarget == /\ Continues(call) /\ call'.entry = call.entry /\ call'.source = call.source

LEMMA NamesInside ==
    ASSUME NamesInv, dir' = dir, SameTarget,
           \/ /\ call.pc = "hook" /\ call'.pc \in {"hook", "persist"}
              /\ call'.pc = "persist" => call'.step = 1
           \/ Removing /\ call.pc # "state" /\ Removing'
    PROVE  NamesInv'
<1>1. Readable' = Readable /\ \A request : findInstalled(request)' = findInstalled(request)
  BY SameFound
<1>2. (Installing' <=> Installing) /\ (Removing' <=> Removing)
  BY DEF Installing, Removing
<1>3. /\ call'.op = call.op /\ call'.ok = call.ok /\ call'.queue = call.queue
      /\ call'.request = call.request /\ call'.id = call.id
      /\ call'.asked = call.asked /\ call'.before = call.before
      /\ call'.entry = call.entry /\ call'.source = call.source
  BY DEF SameTarget, Continues
<1>4. SourcesTrue'
  BY <1>2, <1>3 DEF NamesInv, SourcesTrue, Removing
<1>5. UpdateTarget' /\ InstallTarget'
  BY <1>2, <1>3 DEF NamesInv, UpdateTarget, InstallTarget, Removing
<1>6. PackagesKept'
  BY <1>1, <1>3 DEF NamesInv, PackagesKept, Removing
<1>7. \A ask : Confirmed(ask) => Confirmed(ask)'
  BY <1>1, <1>2, <1>3 DEF Confirmed, StaysFound
<1>8. RequestsConfirmed'
  BY <1>3, <1>7 DEF NamesInv, RequestsConfirmed
<1> QED
  BY <1>4, <1>5, <1>6, <1>8 DEF NamesInv

LEMMA NamesHook ==
    ASSUME RqpInv, NamesInv, runHook
    PROVE  NamesInv'
<1>1. call \in CallRecords /\ call.pc = "hook" /\ dir' = dir
  BY DEF RqpInv, StoreInv, TypeOK, runHook
<1>2. CASE call.todo = <<>>
  <2>1. call' = [call EXCEPT !.pc = "persist", !.step = 1]
    BY <1>2 DEF runHook
  <2>2. SameTarget /\ call'.pc = "persist" /\ call'.step = 1
    BY <1>1, <2>1 DEF CallRecords, SameTarget, Continues
  <2> QED
    BY <1>1, <2>2, NamesInside
<1>3. CASE call.todo # <<>>
  <2> DEFINE rest == Tail(call.todo)
             more == Append(call.pending, Head(call.todo))
  <2>1. call' = [call EXCEPT !.todo = rest, !.pending = more]
    BY <1>3 DEF runHook
  <2> HIDE DEF rest, more
  <2>2. SameTarget /\ call'.pc = "hook"
    BY <1>1, <2>1 DEF CallRecords, SameTarget, Continues
  <2> QED
    BY <1>1, <2>2, NamesInside
<1> QED
  BY <1>2, <1>3

LEMMA NamesRemoveHook ==
    ASSUME RqpInv, NamesInv, runInstalledHook
    PROVE  NamesInv'
<1> DEFINE todo == Reverse(parseManifestJson(call.id))
<1>1. TypeOK /\ call \in CallRecords /\ call.pc = "removehook" /\ dir' = dir
  BY DEF RqpInv, StoreInv, TypeOK, runInstalledHook
<1>2. call' = [call EXCEPT !.pc = "artifacts", !.todo = todo] \/ NextRequest(FALSE)
  BY DEF runInstalledHook
<1> HIDE DEF todo
<1>3. CASE call' = [call EXCEPT !.pc = "artifacts", !.todo = todo]
  <2>1. SameTarget /\ call'.pc = "artifacts"
    BY <1>1, <1>3 DEF CallRecords, SameTarget, Continues
  <2> QED
    BY <1>1, <2>1, NamesInside DEF Removing
<1>4. CASE NextRequest(FALSE)
  <2>1. call'.pc = "loop" /\ ~call'.ok
    BY <1>1, <1>4, FailedRequest
  <2> QED
    BY <1>1, <2>1, SilentStep DEF Installing, Removing
<1> QED
  BY <1>2, <1>3, <1>4

LEMMA NamesArtifacts ==
    ASSUME RqpInv, NamesInv, removeManifestArtifacts
    PROVE  NamesInv'
<1> DEFINE rest == Tail(call.todo)
<1>1. TypeOK /\ call \in CallRecords /\ call.pc = "artifacts" /\ dir' = dir
  BY DEF RqpInv, StoreInv, TypeOK, removeManifestArtifacts
<1>2. \/ call' = [call EXCEPT !.pc = "state"]
      \/ Throw
      \/ call' = [call EXCEPT !.todo = rest]
  BY DEF removeManifestArtifacts
<1> HIDE DEF rest
<1>3. CASE call' = [call EXCEPT !.pc = "state"] \/ call' = [call EXCEPT !.todo = rest]
  <2>1. SameTarget /\ call'.pc \in {"state", "artifacts"}
    BY <1>1, <1>3 DEF CallRecords, SameTarget, Continues
  <2> QED
    BY <1>1, <2>1, NamesInside DEF Removing
<1>4. CASE Throw
  <2>1. call'.pc = "loop" /\ ~call'.ok
    BY <1>1, <1>4, FailedRequest
  <2> QED
    BY <1>1, <2>1, SilentStep DEF Installing, Removing
<1> QED
  BY <1>2, <1>3, <1>4

LEMMA NamesPersistFails ==
    ASSUME RqpInv, NamesInv, PersistFails
    PROVE  NamesInv'
<1>1. TypeOK /\ call.id \in Ids /\ dir \in [Ids -> StateDirs]
  BY DEF RqpInv, StoreInv, TypeOK, CallKnows, PersistFails
<1>2. call'.pc = "loop" /\ ~call'.ok
  BY <1>1, FailedRequest DEF PersistFails
<1>3. \A id \in Ids : dir'[id].source = dir[id].source
  BY <1>1 DEF PersistFails, StateDirs
<1>4. SourcesTrue'
  BY <1>2, <1>3 DEF NamesInv, SourcesTrue, Installing
<1>5. UpdateTarget' /\ PackagesKept' /\ InstallTarget' /\ RequestsConfirmed'
  BY <1>2 DEF UpdateTarget, PackagesKept, InstallTarget, RequestsConfirmed, Installing, Removing
<1> QED
  BY <1>4, <1>5 DEF NamesInv

(* The version a source record gives is the package's own.                 *)
LEMMA SourceVersion ==
    ASSUME IndexHonest, NEW id \in Ids, SourceOf(dir[id].source, id),
           dir[id].source.kind = "repository"
    PROVE  dir[id].source.version = id.version
<1>1. NoSource.kind # "repository" /\ LocalSource.kind # "repository"
  BY DEF NoSource, LocalSource
<1>2. PICK e \in Entries : /\ Layout[e] # None /\ IdentityOf(Layout[e]) = id
                           /\ dir[id].source = RepositorySource(e)
  BY <1>1 DEF SourceOf
<1>3. RepositorySource(e).version = Catalogue[e].version
  BY DEF RepositorySource
<1> QED
  BY <1>2, <1>3 DEF IndexHonest

(* A request that finds the package being installed finds it also when     *)
(* its source record has been replaced.                                    *)
LEMMA FoundReplaced ==
    ASSUME IndexHonest, NEW entry \in Entries, NEW id \in Ids,
           Layout[entry] # None, id = IdentityOf(Layout[entry]),
           SourceOf(dir[id].source, id), dir'[id].source = RepositorySource(entry),
           id \in listInstalled', NEW ask, id \in findInstalled(ask),
           ask.name \in {id.name, Catalogue[entry].name}
    PROVE  id \in findInstalled(ask)'
<1>1. RepositorySource(entry).name = Catalogue[entry].name
      /\ RepositorySource(entry).kind = "repository"
  BY DEF RepositorySource
<1>2. installed_name_matches(id, ask.name)'
  BY <1>1 DEF installed_name_matches
<1>3. installed_version_matches(id, ask)
  BY DEF findInstalled
<1>4. dir[id].source.kind = "repository" => dir[id].source.version = id.version
  BY SourceVersion
<1>5. installed_version_matches(id, ask)'
  BY <1>1, <1>3, <1>4 DEF installed_version_matches
<1> QED
  BY <1>2, <1>5 DEF findInstalled

LEMMA NamesPersist ==
    ASSUME IndexHonest, RqpInv, NamesInv, persistInstalledState
    PROVE  NamesInv'
<1> DEFINE id == call.id
           s == call.step
           F == dir[id].files
           G == dir'[id].files
<1>1. TypeOK /\ call \in CallRecords /\ call.pc = "persist" /\ id \in Ids /\ s \in 1..7
  BY DEF RqpInv, StoreInv, TypeOK, CallKnows, CallRecords, persistInstalledState
<1>2. Stored(id, PersistOrder[s].file, PersistOrder[s].to)
  BY <1>1, PersistDir
<1>3. /\ dir' \in [Ids -> StateDirs] /\ \A other \in Ids \ {id} : dir'[other] = dir[other]
      /\ s = 6 => dir'[id].source = call.source
      /\ s # 6 => dir'[id].source = dir[id].source
      /\ \A f \in FileNames : G[f] = "none" => F[f] = "none"
  <2>1. s \in {1, 2, 3, 4, 5, 6, 7}
    BY <1>1
  <2>2. \A f \in FileNames :
            G[f] = IF f = PersistOrder[s].file THEN PersistOrder[s].to ELSE F[f]
    BY <1>2 DEF Stored
  <2> QED
    BY <1>2, <2>1, <2>2, PersistTable DEF Stored
<1>4. s = 7 => /\ dir[id].source = call.source
               /\ \A f \in FileNames : G[f] = "full"
  <2>1. ASSUME s = 7
        PROVE  \A f \in FileNames : G[f] = "full"
    <3>1. F["lua"] = "full" /\ F["source"] = "full" /\ F["manifest"] = "full"
      BY <1>1, <2>1 DEF RqpInv, StoreInv, PersistTracked
    <3>2. \A f \in FileNames : G[f] = IF f = "metadata" THEN "full" ELSE F[f]
      BY <1>2, <2>1, PersistTable DEF Stored
    <3> QED
      BY <3>1, <3>2 DEF FileNames
  <2> QED
    BY <1>1, <2>1 DEF NamesInv, SourcesTrue
<1>5. /\ call.entry \in Entries /\ Layout[call.entry] # None /\ id = IdentityOf(Layout[call.entry])
      /\ call.source \in {LocalSource, RepositorySource(call.entry)}
      /\ call.op # "local" => call.source = RepositorySource(call.entry)
      /\ \A other \in Ids : SourceOf(dir[other].source, other)
  BY <1>1 DEF NamesInv, SourcesTrue, Installing
<1>6. \/ /\ s # 7 /\ call'.pc = "persist" /\ call'.step = s + 1 /\ SameTarget
      \/ /\ s = 7 /\ call'.pc = "loop" /\ call'.ok = call.ok /\ call'.op = call.op
         /\ call'.queue = call.queue /\ call'.asked = call.asked /\ call'.before = call.before
  <2>1. CASE s = 7
    <3>1. NextRequest(TRUE)
      BY <2>1, PersistTable DEF persistInstalledState
    <3> QED
      BY <1>1, <2>1, <3>1, DoneRequest
  <2>2. CASE s # 7
    <3>1. call' = [call EXCEPT !.step = s + 1]
      BY <2>2, PersistTable DEF persistInstalledState
    <3>2. call'.pc = "persist" /\ call'.step = s + 1 /\ SameTarget
      BY <1>1, <3>1 DEF CallRecords, SameTarget, Continues
    <3> QED
      BY <2>2, <3>2
  <2> QED
    BY <2>1, <2>2
<1>7. call'.op = call.op /\ call'.ok = call.ok /\ call'.before = call.before
      /\ call'.asked = call.asked /\ call'.queue = call.queue
  BY <1>6 DEF SameTarget, Continues
<1>8. SourcesTrue'
  <2>1. ASSUME NEW other \in Ids PROVE SourceOf(dir'[other].source, other)
    <3>1. SourceOf(call.source, id)
      BY <1>5 DEF SourceOf
    <3> QED
      BY <1>3, <1>5, <3>1
  <2>2. CASE s # 7 /\ call'.pc = "persist" /\ call'.step = s + 1 /\ SameTarget
    <3>1. call'.entry = call.entry /\ call'.source = call.source /\ call'.op = call.op
          /\ call'.id = id
      BY <2>2 DEF SameTarget, Continues
    <3>2. call'.step = 7 => dir'[call'.id].source = call'.source
      BY <1>1, <1>3, <2>2, <3>1
    <3> QED
      BY <1>5, <2>1, <2>2, <3>1, <3>2 DEF SourcesTrue
  <2>3. CASE call'.pc = "loop"
    BY <2>1, <2>3 DEF SourcesTrue, Installing
  <2> QED
    BY <1>6, <2>2, <2>3
<1>9. UpdateTarget' /\ InstallTarget'
  BY <1>1, <1>6 DEF NamesInv, UpdateTarget, InstallTarget, Installing, Removing, SameTarget,
                    Continues
<1>10. PackagesKept'
  <2> SUFFICES ASSUME call'.op = "update", call'.ok, NEW old \in call'.before
               PROVE  \/ \E new \in Readable' : NotOlder(new, old)
                      \/ call'.pc = "persist" /\ NotOlder(call'.id, old)
    BY DEF PackagesKept
  <2>1. (\E new \in Readable : NotOlder(new, old)) \/ NotOlder(id, old)
    BY <1>7 DEF NamesInv, PackagesKept
  <2>2. CASE \E new \in Readable : NotOlder(new, old) /\ new # id
    <3>1. PICK new \in Readable : NotOlder(new, old) /\ new # id
      BY <2>2
    <3>2. new \in Ids \ {id}
      BY <3>1 DEF Readable, listInstalled
    <3>3. new \in Readable'
      BY <1>3, <3>2, OthersFound
    <3> QED
      BY <3>1, <3>3
  <2>3. CASE NotOlder(id, old)
    <3>1. CASE s # 7 /\ call'.pc = "persist" /\ SameTarget
      BY <2>3, <3>1 DEF SameTarget, Continues
    <3>2. CASE s = 7
      <4>1. id \in Readable'
        BY <1>1, <1>4, <3>2 DEF Readable, listInstalled, loadInstalled, FileNames
      <4> QED
        BY <2>3, <4>1
    <3> QED
      BY <1>6, <3>1, <3>2
  <2> QED
    BY <2>1, <2>2, <2>3
<1>11. RequestsConfirmed'
  <2> SUFFICES ASSUME call.op = "install", call.ok, NEW ask, Confirmed(ask)
               PROVE  Confirmed(ask)'
    BY <1>7 DEF NamesInv, RequestsConfirmed
  <2>1. Installing /\ call.source = RepositorySource(call.entry)
        /\ call.source.name = Catalogue[call.entry].name
    BY <1>1, <1>5 DEF Installing, RepositorySource
  <2>2. CASE \E w \in findInstalled(ask) : StaysFound(w, ask)
    <3>1. PICK w \in findInstalled(ask) : StaysFound(w, ask)
      BY <2>2
    <3>2. w \in Ids
      BY DEF findInstalled, listInstalled
    <3>3. w \in findInstalled(ask)'
      <4>1. CASE w # id
        BY <1>3, <3>1, <3>2, <4>1, OthersFound
      <4>2. CASE w = id
        <5>1. w \in listInstalled'
          BY <1>1, <1>3, <3>1, <4>2 DEF findInstalled, listInstalled, loadInstalled
        <5>2. CASE dir'[id].source = dir[id].source
          BY <3>1, <4>2, <5>1, <5>2 DEF findInstalled, installed_name_matches,
                                       installed_version_matches
        <5>3. CASE dir'[id].source = call.source
          <6>1. ask.name \in {w.name, Catalogue[call.entry].name}
            BY <1>5, <2>1, <3>1, <4>2 DEF StaysFound
          <6> HIDE DEF id
          <6> QED
            BY <1>5, <2>1, <3>1, <3>2, <4>2, <5>1, <5>3, <6>1, FoundReplaced
        <5> QED
          BY <1>3, <5>2, <5>3
      <4> QED
        BY <4>1, <4>2
    <3>4. StaysFound(w, ask)'
      BY <1>6, <2>1, <3>1 DEF StaysFound, Installing, SameTarget
    <3> QED
      BY <3>3, <3>4 DEF Confirmed
  <2>3. CASE ask = call.request
    <3>1. CASE s # 7 /\ call'.pc = "persist" /\ SameTarget
      BY <2>3, <3>1 DEF Confirmed, Installing, SameTarget, Continues
    <3>2. CASE s = 7 /\ call'.pc = "loop"
      <4>1. id \in listInstalled'
        BY <1>1, <1>4, <3>2 DEF listInstalled, loadInstalled, FileNames
      <4>2. Answered(call.entry, ask) /\ id.version = Catalogue[call.entry].version
        BY <1>5, <2>1, <2>3 DEF NamesInv, InstallTarget, IndexHonest
      <4>3. dir'[id].source.name = ask.name
        BY <1>3, <1>4, <2>1, <3>2, <4>2 DEF Answered
      <4>4. id \in findInstalled(ask)'
        BY <4>1, <4>2, <4>3 DEF findInstalled, installed_name_matches,
                                installed_version_matches, Answered
      <4>5. ~Installing'
        BY <3>2 DEF Installing
      <4> QED
        BY <4>4, <4>5 DEF Confirmed, StaysFound
    <3> QED
      BY <1>6, <3>1, <3>2
  <2> QED
    BY <2>2, <2>3 DEF Confirmed
<1> QED
  BY <1>8, <1>9, <1>10, <1>11 DEF NamesInv

LEMMA NamesRemoveState ==
    ASSUME IndexHonest, RqpInv, NamesInv, removeInstalledState
    PROVE  NamesInv'
<1> DEFINE id == call.id
           left == {f \in FileNames : dir[id].files[f] # "none"}
           again == [name |-> id.name, version |-> id.version, exact |-> FALSE]
<1>1. /\ TypeOK /\ call \in CallRecords /\ call.pc = "state" /\ id \in Ids
      /\ dir \in [Ids -> StateDirs] /\ call.op \in {"remove", "update"}
  BY DEF RqpInv, StoreInv, TypeOK, CallKnows, removeInstalledState, NamesInv, UpdateTarget,
         Removing
<1>2. \A other \in Ids : SourceOf(dir[other].source, other)
  BY DEF NamesInv, SourcesTrue
<1>3. ASSUME NEW f \in FileNames, dir' = [dir EXCEPT ![id].files[f] = "none"], call' = call
      PROVE  NamesInv'
  <2>1. /\ \A other \in Ids \ {id} : dir'[other] = dir[other]
        /\ \A other \in Ids : dir'[other].source = dir[other].source
    BY <1>1, <1>3 DEF StateDirs
  <2>2. SourcesTrue' /\ UpdateTarget' /\ InstallTarget' /\ RequestsConfirmed'
    BY <1>1, <1>2, <1>3, <2>1 DEF NamesInv, SourcesTrue, UpdateTarget, InstallTarget,
                                  RequestsConfirmed, Installing, Removing
  <2>3. PackagesKept'
    <3> SUFFICES ASSUME call.op = "update", call.ok, NEW old \in call.before
                 PROVE  (\E new \in Readable' : NotOlder(new, old)) \/ NotOlder(id, old)
      BY <1>1, <1>3 DEF PackagesKept
    <3>1. (\E new \in Readable : NotOlder(new, old)) \/ NotOlder(id, old)
      BY DEF NamesInv, PackagesKept
    <3>2. \A new \in Readable : new = id \/ new \in Readable'
      BY <2>1, OthersFound DEF Readable, listInstalled
    <3> QED
      BY <3>1, <3>2
  <2> QED
    BY <2>2, <2>3 DEF NamesInv
<1>4. ASSUME /\ left = {} /\ dir' = [dir EXCEPT ![id] = NoDir]
             /\ IF call.op = "update" THEN StartInstall(again, call.entry, call)
                ELSE NextRequest(TRUE)
      PROVE  NamesInv'
  <2>1. \A other \in Ids \ {id} : dir'[other] = dir[other]
    BY <1>1, <1>4
  <2>2. \A other \in Ids : SourceOf(dir'[other].source, other)
    <3>1. dir'[id].source = NoSource
      BY <1>1, <1>4 DEF NoDir
    <3> QED
      BY <1>2, <2>1, <3>1 DEF SourceOf
  <2>3. id \notin listInstalled
    BY <1>4 DEF listInstalled, loadInstalled, FileNames
  <2>4. \A new \in Readable : new \in Readable'
    BY <2>1, <2>3, OthersFound DEF Readable, listInstalled
  <2>5. ASSUME call'.pc = "loop", call'.op \notin {"install", "update"} \/ ~call'.ok
        PROVE  NamesInv'
    <3>1. SourcesTrue'
      BY <2>2, <2>5 DEF SourcesTrue, Installing
    <3>2. UpdateTarget' /\ PackagesKept' /\ InstallTarget' /\ RequestsConfirmed'
      BY <2>5 DEF UpdateTarget, PackagesKept, InstallTarget, RequestsConfirmed, Installing,
                  Removing
    <3> QED
      BY <3>1, <3>2 DEF NamesInv
  <2>6. CASE call.op = "remove"
    <3>1. call'.pc = "loop" /\ call'.op = "remove"
      BY <1>1, <1>4, <2>6, DoneRequest
    <3> QED
      BY <2>5, <3>1
  <2>7. CASE call.op = "update"
    <3>1. /\ call.entry \in Entries /\ Catalogue[call.entry].name = id.name
          /\ Catalogue[call.entry].version > id.version
      BY <1>1, <2>7 DEF NamesInv, UpdateTarget, Removing
    <3>2. again \in Asks /\ again.name = id.name /\ again.version = id.version
      BY <1>1, RqpAssumption DEF Asks, Names
    <3>3. StartInstall(again, call.entry, call)
      BY <1>4, <2>7
    <3>4. ASSUME call.ok, NEW old \in call.before
          PROVE  (\E new \in Readable' : NotOlder(new, old)) \/ NotOlder(id, old)
      BY <2>4, <2>7, <3>4 DEF NamesInv, PackagesKept
    <3> HIDE DEF again, id
    <3>5. CASE call'.pc = "loop" /\ ~call'.ok
      BY <2>5, <3>5
    <3>6. CASE /\ ~listInstalledThrows /\ findInstalled(again) # {}
               /\ call'.pc = "loop" /\ Continues(call)
      <4>1. SourcesTrue'
        BY <2>2, <3>6 DEF SourcesTrue, Installing
      <4>2. UpdateTarget' /\ InstallTarget' /\ RequestsConfirmed'
        BY <2>7, <3>6 DEF UpdateTarget, InstallTarget, RequestsConfirmed, Installing, Removing,
                          Continues
      <4>3. PICK w \in findInstalled(again) : TRUE
        BY <3>6
      <4>4. w \in Readable'
        <5>1. w \in Ids /\ w \in listInstalled /\ dir[w] \in StateDirs
          BY <1>1, <4>3 DEF findInstalled, listInstalled
        <5>2. \A f \in {"metadata", "source"} :
                 dir[w].files[f] # "none" /\ dir[w].files[f] # "empty"
          BY <3>6, <5>1 DEF listInstalledThrows, listInstalled, loadInstalled, FileNames
        <5>3. \A f \in {"metadata", "source"} : dir[w].files[f] = "full"
          BY <5>1, <5>2 DEF StateDirs, FileNames
        <5> QED
          BY <2>4, <5>1, <5>3 DEF Readable
      <4>5. w \in Ids /\ w.version \in Nat /\ id.version \in Nat
        BY <1>1, <4>3, RqpAssumption DEF findInstalled, listInstalled
      <4>6. w.name = id.name
        <5>1. SUFFICES ASSUME w.name # id.name PROVE FALSE
          OBVIOUS
        <5> DEFINE name == id.name
        <5>2. dir[w].source.requestName = name \/ dir[w].source.name = name
          BY <3>2, <4>3, <5>1 DEF findInstalled, installed_name_matches
        <5>3. name \notin {"", LocalPath} /\ SourceOf(dir[w].source, w)
          BY <1>1, <1>2, <4>5 DEF IndexHonest
        <5> HIDE DEF name
        <5>4. PICK e \in Entries : /\ Layout[e] # None /\ IdentityOf(Layout[e]) = w
                                   /\ Catalogue[e].name = name
          BY ONLY <5>2, <5>3, SourceNames
        <5>5. w.name = name
          BY <1>1, <5>4 DEF IndexHonest, name
        <5> QED
          BY <5>1, <5>5 DEF name
      <4>7. w.version >= id.version
        <5>1. \/ id.version = 0
              \/ w.version = id.version
              \/ dir[w].source.kind = "repository" /\ dir[w].source.version = id.version
              \/ TextPrefix(id.version, w.version)
          BY <3>2, <4>3 DEF findInstalled, installed_version_matches
        <5>2. CASE dir[w].source.kind = "repository" /\ dir[w].source.version = id.version
          BY <1>2, <4>5, <5>2, SourceVersion
        <5>3. CASE TextPrefix(id.version, w.version)
          BY <1>1, <4>5, <5>3 DEF IndexHonest
        <5> QED
          BY <4>5, <5>1, <5>2, <5>3
      <4>8. PackagesKept'
        <5> SUFFICES ASSUME call.ok, NEW old \in call.before
                     PROVE  \E new \in Readable' : NotOlder(new, old)
          BY <3>6 DEF PackagesKept, Continues
        <5>1. CASE NotOlder(id, old)
          <6>1. old \in Ids /\ old.version \in Nat
            BY <1>1, RqpAssumption DEF CallRecords
          <6>2. NotOlder(w, old)
            BY <4>5, <4>6, <4>7, <5>1, <6>1 DEF NotOlder
          <6> QED
            BY <4>4, <6>2
        <5> QED
          BY <3>4, <5>1
      <4> QED
        BY <4>1, <4>2, <4>8 DEF NamesInv
    <3>7. CASE /\ findInstalled(again) = {}
               /\ call'.pc = "fetch" /\ Continues(call)
               /\ call'.entry = call.entry /\ call'.source = RepositorySource(call.entry)
      <4>1. /\ call'.op = "update" /\ call'.ok = call.ok /\ call'.before = call.before
            /\ call'.id = id
        BY <2>7, <3>7 DEF Continues, id
      <4>2. SourcesTrue'
        BY <2>2, <3>1, <3>7 DEF SourcesTrue, Installing
      <4>3. UpdateTarget' /\ InstallTarget' /\ RequestsConfirmed'
        BY <1>1, <3>1, <3>7, <4>1 DEF UpdateTarget, InstallTarget, RequestsConfirmed, Removing
      <4>4. PackagesKept'
        BY <3>4, <3>7, <4>1 DEF PackagesKept
      <4> QED
        BY <4>2, <4>3, <4>4 DEF NamesInv
    <3> QED
      BY <1>1, <3>1, <3>2, <3>3, <3>5, <3>6, <3>7, StartCases
  <2> QED
    BY <1>1, <2>6, <2>7
<1>5. \/ \E f \in left : dir' = [dir EXCEPT ![id].files[f] = "none"] /\ UNCHANGED <<call, damaged>>
      \/ /\ left = {} /\ dir' = [dir EXCEPT ![id] = NoDir]
         /\ IF call.op = "update" THEN StartInstall(again, call.entry, call)
            ELSE NextRequest(TRUE)
  BY DEF removeInstalledState
<1> QED
  BY <1>3, <1>4, <1>5

LEMMA NamesInit == Init => NamesInv
<1> SUFFICES ASSUME Init PROVE NamesInv
  OBVIOUS
<1>1. call.pc = "idle" /\ call.op = "none"
  BY DEF Init, Idle
<1>2. \A id \in Ids : dir[id].source = NoSource
  BY DEF Init, NoDir
<1>3. SourcesTrue
  BY <1>1, <1>2 DEF SourcesTrue, SourceOf, Installing
<1> QED
  BY <1>1, <1>3 DEF NamesInv, UpdateTarget, PackagesKept, InstallTarget, RequestsConfirmed,
                    Removing

LEMMA NamesStep == IndexHonest /\ RqpInv /\ NamesInv /\ [Next]_vars => NamesInv'
<1> SUFFICES ASSUME IndexHonest, RqpInv, NamesInv, [Next]_vars PROVE NamesInv'
  OBVIOUS
<1>1. CASE \/ Publish \/ IndexFails \/ Return \/ FetchFails \/ HookFails \/ Crash
           \/ \E op \in {"install", "remove", "update"}, r \in Requests : Begin(op, r)
           \/ \E e \in Entries : installLocal(e)
  BY <1>1, NamesOutside
<1>2. CASE install
  BY <1>2, NamesInstall
<1>3. CASE remove
  BY <1>3, NamesRemove
<1>4. CASE update
  BY <1>4, NamesUpdate
<1>5. CASE Fetch
  BY <1>5, NamesFetch
<1>6. CASE runHook
  BY <1>6, NamesHook
<1>7. CASE persistInstalledState
  BY <1>7, NamesPersist
<1>8. CASE PersistFails
  BY <1>8, NamesPersistFails
<1>9. CASE runInstalledHook
  BY <1>9, NamesRemoveHook
<1>10. CASE removeManifestArtifacts
  BY <1>10, NamesArtifacts
<1>11. CASE removeInstalledState
  BY <1>11, NamesRemoveState
<1>12. CASE UNCHANGED vars
  BY <1>12, SameCallNames DEF vars
<1> QED
  BY <1>1, <1>2, <1>3, <1>4, <1>5, <1>6, <1>7, <1>8, <1>9, <1>10, <1>11, <1>12 DEF Next

-----------------------------------------------------------------------------
(* The theorems.                                                           *)

LEMMA RqpInit == Init => RqpInv
<1> SUFFICES ASSUME Init PROVE RqpInv
  OBVIOUS
<1>1. /\ call \in CallRecords /\ call.pc = "idle" /\ disk = {} /\ damaged = {}
      /\ calls = 0 /\ faults = 0 /\ published \in {{}, Entries}
  BY IdleCall DEF Init
<1>2. NoDir \in StateDirs /\ \A f \in FileNames : NoDir.files[f] = "none"
  BY NoDirectory
<1>3. dir \in [Ids -> StateDirs] /\ \A i \in Ids : dir[i] = NoDir
  BY <1>2 DEF Init
<1>4. TypeOK
  BY <1>1, <1>3, RqpAssumption DEF TypeOK
<1>5. CallKnows /\ PersistTracked /\ SourceLast /\ ManifestsHold
  BY <1>1, <1>2, <1>3 DEF CallKnows, PersistTracked, SourceLast, ManifestsHold, FileNames
<1>6. ArtifactsOwned
  BY <1>1, <1>2, <1>3 DEF ArtifactsOwned, Gone
<1> QED
  BY <1>4, <1>5, <1>6 DEF RqpInv, StoreInv

LEMMA RqpStep == RqpInv /\ [Next]_vars => RqpInv'
<1> SUFFICES ASSUME RqpInv, [Next]_vars PROVE RqpInv'
  OBVIOUS
<1>1. CASE \/ Publish \/ IndexFails \/ Return \/ FetchFails \/ HookFails \/ Crash
           \/ \E op \in {"install", "remove", "update"}, r \in Requests : Begin(op, r)
           \/ \E e \in Entries : installLocal(e)
  BY <1>1, QuietSteps, QuietInv
<1>2. CASE install \/ remove \/ update
  BY <1>2, RequestSteps, QuietInv
<1>3. CASE Fetch
  BY <1>3, FetchStep
<1>4. CASE runHook
  BY <1>4, HookStep
<1>5. CASE persistInstalledState
  BY <1>5, PersistStep
<1>6. CASE PersistFails
  BY <1>6, PersistFailsStep
<1>7. CASE runInstalledHook
  BY <1>7, RemoveHookStep
<1>8. CASE removeManifestArtifacts
  BY <1>8, RemoveArtifactsStep
<1>9. CASE removeInstalledState
  BY <1>9, RemoveStateStep
<1>10. CASE UNCHANGED vars
  BY <1>10 DEF vars, RqpInv, StoreInv, TypeOK, CallKnows, PersistTracked, SourceLast,
               ManifestsHold, ArtifactsOwned, Complete, Gone, Answers, loadInstalled,
               parseManifestJson
<1> QED
  BY <1>1, <1>2, <1>3, <1>4, <1>5, <1>6, <1>7, <1>8, <1>9, <1>10 DEF Next

(* The inductive invariant of the state store: a manifest is never open    *)
(* under a readable source record, what a manifest says is on disk unless  *)
(* its own package is being removed, and while nothing failed every file   *)
(* has a package that answers for it.                                      *)
THEOREM RqpInvariant == Spec => []RqpInv
BY RqpInit, RqpStep, PTL DEF Spec

(* Every variable keeps its type, whatever is installed, removed, updated  *)
(* or abandoned.                                                           *)
THEOREM TypeCorrect == Spec => []TypeOK
<1>1. RqpInv => TypeOK
  BY DEF RqpInv, StoreInv
<1> QED
  BY <1>1, RqpInvariant, PTL

(* A package whose metadata.json and source.json can be read has a whole   *)
(* manifest.json, wherever persistInstalledState or a removal was cut off. *)
THEOREM ManifestsReadable == Spec => []ReadableMeansComplete
<1>1. RqpInv => ReadableMeansComplete
  <2> SUFFICES ASSUME RqpInv, NEW i \in Readable PROVE dir[i].files["manifest"] = "full"
    BY DEF ReadableMeansComplete
  <2>1. i \in Ids /\ loadInstalled(i) /\ dir[i].files["source"] = "full" /\ dir[i] \in StateDirs
    BY DEF Readable, listInstalled, RqpInv, StoreInv, TypeOK
  <2>2. dir[i].files["manifest"] # "none" /\ dir[i].files["manifest"] # "empty"
    BY <2>1 DEF RqpInv, StoreInv, SourceLast, loadInstalled, FileNames
  <2> QED
    BY <2>1, <2>2 DEF StateDirs, FileNames
<1> QED
  BY <1>1, RqpInvariant, PTL

(* pathStillNeededElsewhere protects every file a listed package           *)
(* registered, whichever packages share it, unless that package's own      *)
(* removal has begun.                                                      *)
THEOREM SharedFilesStay == Spec => []SharedFilesKept
<1>1. RqpInv => SharedFilesKept
  <2> SUFFICES ASSUME RqpInv, NEW i \in Readable \ damaged
               PROVE  Range(parseManifestJson(i)) \subseteq disk
    BY DEF SharedFilesKept
  <2>1. i \in Ids \ damaged
    BY DEF Readable, listInstalled
  <2> QED
    BY <2>1, EmptyRange DEF RqpInv, StoreInv, ManifestsHold, parseManifestJson
<1> QED
  BY <1>1, RqpInvariant, PTL

(* While nothing failed, every file on disk between two calls is in the    *)
(* manifest of a listed package: installations and removals leak nothing.  *)
THEOREM NoFileLeaks == Spec => []NothingLeaked
<1>1. RqpInv => NothingLeaked
  <2> SUFFICES ASSUME RqpInv, faults = 0, call.pc = "idle", NEW path \in disk \ Directories
               PROVE  \E i \in Readable : path \in Range(parseManifestJson(i))
    BY DEF NothingLeaked
  <2>1. PICK i \in Ids : path \in Range(HookFiles[i]) /\ Answers(i)
    BY DEF RqpInv, ArtifactsOwned
  <2>2. Complete(i)
    BY <2>1 DEF Answers
  <2>3. i \in Readable
    BY <2>2 DEF Complete, Readable, listInstalled, loadInstalled, FileNames
  <2>4. path \in Range(parseManifestJson(i))
    BY <2>1, <2>2 DEF Complete, parseManifestJson, FileNames
  <2> QED
    BY <2>3, <2>4
<1> QED
  BY <1>1, RqpInvariant, PTL

(* What is remembered of where packages came from and of what a call has   *)
(* promised stays true.                                                    *)
THEOREM NamesInvariant ==
    ASSUME IndexHonest
    PROVE  Spec => [](RqpInv /\ NamesInv)
<1>1. Init => RqpInv /\ NamesInv
  BY RqpInit, NamesInit
<1>2. (RqpInv /\ NamesInv) /\ [Next]_vars => (RqpInv /\ NamesInv)'
  BY RqpStep, NamesStep
<1> QED
  BY <1>1, <1>2, PTL DEF Spec

(* An update that reports success lost no package and made none older, for *)
(* every honest repository and every place where hooks, downloads or       *)
(* copies may fail: removeInstalledState comes before the installation,    *)
(* but what is removed is the package the successor was chosen for.        *)
THEOREM UpdateNeverLoses ==
    ASSUME IndexHonest
    PROVE  Spec => []UpdateKeepsNewest
<1>1. NamesInv => UpdateKeepsNewest
  BY DEF NamesInv, PackagesKept, UpdateKeepsNewest, NotOlder
<1> QED
  BY <1>1, NamesInvariant, PTL

LEMMA RowFields ==
    \A name, id, type : Row(name, id, type).name = name /\ Row(name, id, type).packageId = id
BY DEF Row

(* A row of the list is an installed package under one of its names or a   *)
(* plugin, which has a name and is no package.                             *)
LEMMA ListedRows ==
    ASSUME IndexHonest, NEW row \in list
    PROVE  /\ row.name # ""
           /\ \/ /\ row.packageId \in listInstalled
                 /\ row.name \in {row.packageId.name} \cup installed_request_names(row.packageId)
              \/ row.packageId \notin Ids
<1>1. \A p : PluginId(p) \notin Ids
  <2>1. \A p : PluginId(p).version = 0
    BY DEF PluginId
  <2> QED
    BY <2>1 DEF IndexHonest
<1>2. ASSUME NEW id \in listInstalled, row = Row(id.name, id, "package")
      PROVE  row.name # "" /\ row.packageId \in listInstalled /\ row.name = row.packageId.name
  <2>1. row.name = id.name /\ row.packageId = id /\ id \in Ids
    BY <1>2, RowFields DEF listInstalled
  <2> QED
    BY <2>1 DEF IndexHonest
<1>3. ASSUME NEW id \in listInstalled, NEW n \in installed_request_names(id), row = Row(n, id, "alias")
      PROVE  /\ row.name # "" /\ row.packageId \in listInstalled
             /\ row.name \in installed_request_names(row.packageId)
  <2>1. row.name = n /\ row.packageId = id
    BY <1>3, RowFields
  <2>2. n # ""
    BY DEF installed_request_names
  <2> QED
    BY <2>1, <2>2
<1>4. ASSUME NEW p, p # "", NEW type, row = Row(p, PluginId(p), type)
      PROVE  row.name # "" /\ row.packageId \notin Ids
  <2>1. row.name = p /\ row.packageId = PluginId(p)
    BY <1>4, RowFields
  <2> QED
    BY <1>1, <1>4, <2>1
<1>5. \A p \in {"rqp"} \cup Plugins : p # ""
  BY DEF IndexHonest
<1>6. \A r \in Records : r.name # ""
  BY DEF IndexHonest
<1>7. \/ \E id \in listInstalled : row = Row(id.name, id, "package")
      \/ \E id \in listInstalled : \E n \in installed_request_names(id) : row = Row(n, id, "alias")
      \/ \E p \in {"rqp"} \cup Plugins : row = Row(p, PluginId(p), "plugin")
      \/ \E r \in Records : row = Row(r.name, PluginId(r.name), "alias")
  <2> DEFINE plugins == {"rqp"} \cup Plugins
             other(id) == installed_request_names(id) \ {id.name}
             packages == {Row(id.name, id, "package") : id \in listInstalled}
             aliases == UNION {{Row(n, id, "alias") : n \in other(id)} : id \in listInstalled}
             builtin == {Row(p, PluginId(p), "plugin") : p \in plugins}
             named == {Row(r.name, PluginId(r.name), "alias") :
                          r \in {r \in Records : r.alias /\ r.target \in plugins}}
  <2>1. list = packages \cup aliases \cup builtin \cup named
    BY DEF list
  <2>2. row \in aliases =>
            \E id \in listInstalled : \E n \in other(id) : row = Row(n, id, "alias")
    OBVIOUS
  <2>3. row \in packages => \E id \in listInstalled : row = Row(id.name, id, "package")
    OBVIOUS
  <2>4. row \in builtin => \E p \in plugins : row = Row(p, PluginId(p), "plugin")
    OBVIOUS
  <2>5. row \in named => \E r \in Records : row = Row(r.name, PluginId(r.name), "alias")
    OBVIOUS
  <2>6. \A id : other(id) \subseteq installed_request_names(id)
    OBVIOUS
  <2> HIDE DEF packages, aliases, builtin, named, other
  <2> QED
    BY <2>1, <2>2, <2>3, <2>4, <2>5, <2>6
<1> QED
  BY <1>2, <1>3, <1>4, <1>5, <1>6, <1>7

LEMMA SearchNames ==
    ASSUME IndexHonest, TypeOK, NEW row \in search
    PROVE  row.name # ""
<1>1. \/ row \in list
      \/ \E r \in Records : row = Row(r.name, PluginId(r.name), "plugin")
      \/ \E e \in Entries : row = Row(Catalogue[e].name, PluginId(Catalogue[e].name), "package")
  <2>1. published \subseteq Entries
    BY DEF TypeOK
  <2> QED
    BY <2>1, Zenon DEF search
<1>2. CASE row \in list
  BY <1>2, ListedRows
<1>3. CASE \E r \in Records : row = Row(r.name, PluginId(r.name), "plugin")
  <2>1. PICK r \in Records : row = Row(r.name, PluginId(r.name), "plugin")
    BY <1>3
  <2>2. row.name = r.name
    BY <2>1, RowFields
  <2> QED
    BY <2>2 DEF IndexHonest
<1>4. CASE \E e \in Entries : row = Row(Catalogue[e].name, PluginId(Catalogue[e].name), "package")
  <2>1. PICK e \in Entries : row = Row(Catalogue[e].name, PluginId(Catalogue[e].name), "package")
    BY <1>4
  <2>2. row.name = Catalogue[e].name
    BY <2>1, RowFields
  <2> QED
    BY <2>2 DEF IndexHonest
<1> QED
  BY <1>1, <1>2, <1>3, <1>4

(* A successful installation is found under the names and versions it was  *)
(* asked for, though later requests of the call overwrite source records,  *)
(* and what the list calls a package is what commands find it by.          *)
THEOREM NamesAlwaysAgree ==
    ASSUME IndexHonest
    PROVE  Spec => []NamesAgree
<1>1. NamesInv /\ RqpInv => InstallConfirmed
  <2> SUFFICES ASSUME NamesInv, RqpInv, call.pc = "loop", call.queue = <<>>, call.ok,
                      call.op = "install", NEW i \in DOMAIN call.asked
               PROVE  /\ ~getMissingPackages(call.asked[i], "install")
                      /\ resolvePackage(call.asked[i])
                            \in {id.version : id \in findInstalled(call.asked[i])}
    BY DEF InstallConfirmed
  <2> DEFINE ask == call.asked[i]
             matches == findInstalled(ask)
  <2>1. ask \in Range(call.asked) /\ Range(call.queue) = {}
    BY DEF Range
  <2>2. Confirmed(ask) /\ ~Installing
    BY <2>1 DEF NamesInv, RequestsConfirmed, Installing
  <2>3. matches # {} /\ matches \in SUBSET Ids
    BY <2>2 DEF Confirmed, findInstalled, listInstalled
  <2>4. Highest(matches) \in matches
    BY <2>3, HighestThere
  <2>5. resolvePackage(ask) = Highest(matches).version
    BY <2>3 DEF resolvePackage
  <2> QED
    BY <2>3, <2>4, <2>5 DEF getMissingPackages
<1>2. RqpInv => ListedNamesFind
  <2> SUFFICES ASSUME RqpInv, NEW n \in {row.name : row \in search}
               PROVE  LET request == [name |-> n, version |-> 0, exact |-> FALSE]
                          listed == {row.packageId :
                                       row \in {row \in list : row.name = n
                                                              /\ row.packageId \in Ids}}
                      IN  /\ listed = findInstalled(request)
                          /\ listed # {} => info(request) = listed
    BY DEF ListedNamesFind
  <2> DEFINE request == [name |-> n, version |-> 0, exact |-> FALSE]
             listed == {row.packageId : row \in {row \in list : row.name = n
                                                              /\ row.packageId \in Ids}}
             matches == {id \in listInstalled : installed_name_matches(id, n)}
  <2>1. n # ""
    BY SearchNames DEF RqpInv, StoreInv
  <2>2. findInstalled(request) = matches
    BY DEF findInstalled, installed_version_matches
  <2>3. listed \subseteq matches
    <3> SUFFICES ASSUME NEW row \in list, row.name = n, row.packageId \in Ids
                 PROVE  row.packageId \in matches
      OBVIOUS
    <3> QED
      BY ListedRows DEF installed_name_matches, installed_request_names
  <2>4. matches \subseteq listed
    <3> SUFFICES ASSUME NEW id \in matches PROVE id \in listed
      OBVIOUS
    <3>1. id \in listInstalled /\ id \in Ids
      BY DEF listInstalled
    <3>2. n = id.name \/ n \in installed_request_names(id) \ {id.name}
      BY <2>1 DEF installed_name_matches, installed_request_names
    <3>3. \E type : Row(n, id, type) \in list
      <4>1. n = id.name => Row(n, id, "package") \in list
        BY <3>1 DEF list
      <4>2. n \in installed_request_names(id) \ {id.name} => Row(n, id, "alias") \in list
        BY <3>1 DEF list
      <4> QED
        BY <3>2, <4>1, <4>2
    <3> QED
      BY <3>1, <3>3, RowFields
  <2>5. listed # {} => info(request) = listed
    BY <2>2, <2>3, <2>4 DEF info
  <2> QED
    BY <2>2, <2>3, <2>4, <2>5
<1>3. NamesInv /\ RqpInv => NamesAgree
  BY <1>1, <1>2 DEF NamesAgree
<1> QED
  BY <1>3, NamesInvariant, PTL
=============================================================================
