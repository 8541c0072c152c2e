--------------------------- MODULE RegistryProofs ---------------------------
(***************************************************************************)
(* Proofs about the registry (module Registry) for every set of plugins,   *)
(* every history of the upstream repository and every number of faults.    *)
(***************************************************************************)
EXTENDS Registry, NaturalsInduction, WellFoundedInduction, TLAPS

(* What a record says, apart from the payload that was fetched for it.     *)
SameEntry(a, b) ==
    /\ a.source = b.source /\ a.of = b.of /\ a.alias = b.alias /\ a.origin = b.origin
    /\ a.role = b.role /\ a.privilege = b.privilege /\ a.target = b.target /\ a.sha = b.sha

(* The same records with other payloads.                                   *)
SameEntries(old, new) ==
    /\ IsDatabase(new) /\ DOMAIN new = DOMAIN old
    /\ \A n \in DOMAIN old : SameEntry(new[n], old[n])
-----------------------------------------------------------------------------
(* Records and databases.                                                  *)

LEMMA ScriptRecord ==
    ASSUME NEW r, IsRecord(r), NEW x
    PROVE  LET new == [r EXCEPT !.script = x] IN
           /\ IsRecord(new) /\ SameEntry(new, r)
           /\ new.script = x /\ new.bundle = r.bundle
BY DEF IsRecord, SameEntry

LEMMA BundleRecord ==
    ASSUME NEW r, IsRecord(r), NEW x
    PROVE  LET new == [r EXCEPT !.bundle = x] IN
           /\ IsRecord(new) /\ SameEntry(new, r)
           /\ new.script = r.script /\ new.bundle = x
BY DEF IsRecord, SameEntry

LEMMA PayloadRecord ==
    ASSUME NEW r, IsRecord(r), NEW x, NEW y
    PROVE  LET new == [r EXCEPT !.script = x, !.bundle = y] IN
           /\ IsRecord(new) /\ SameEntry(new, r)
           /\ new.script = x /\ new.bundle = y
<1> DEFINE mid == [r EXCEPT !.script = x]
           new == [r EXCEPT !.script = x, !.bundle = y]
<1>1. new = [mid EXCEPT !.bundle = y]
  OBVIOUS
<1>2. IsRecord(mid) /\ SameEntry(mid, r) /\ mid.script = x
  BY ScriptRecord
<1> HIDE DEF mid, new
<1>3. IsRecord(new) /\ SameEntry(new, mid) /\ new.script = mid.script /\ new.bundle = y
  BY <1>1, <1>2, BundleRecord
<1>4. SameEntry(new, r)
  BY <1>2, <1>3 DEF SameEntry
<1> QED
  BY <1>2, <1>3, <1>4 DEF new

LEMMA PayloadRecords ==
    ASSUME NEW r, IsRecord(r)
    PROVE  /\ IsRecord(Unloaded(r)) /\ SameEntry(Unloaded(r), r)
           /\ \A version, source, env :
                 /\ IsRecord(Loaded(r, version, source, env))
                 /\ SameEntry(Loaded(r, version, source, env), r)
                 /\ Loaded(r, version, source, env).script = version
<1>1. IsRecord(Unloaded(r)) /\ SameEntry(Unloaded(r), r)
  BY PayloadRecord DEF Unloaded
<1>2. ASSUME NEW version, NEW source, NEW env
      PROVE  /\ IsRecord(Loaded(r, version, source, env))
             /\ SameEntry(Loaded(r, version, source, env), r)
             /\ Loaded(r, version, source, env).script = version
  <2> DEFINE path == resolve_bundle_path(source, env)
             mid == [r EXCEPT !.script = version]
             new == Loaded(r, version, source, env)
  <2>1. new = [mid EXCEPT !.bundle = path]
    BY DEF Loaded
  <2>2. IsRecord(mid) /\ SameEntry(mid, r) /\ mid.script = version
    BY ScriptRecord
  <2> HIDE DEF path, mid, new
  <2>3. IsRecord(new) /\ SameEntry(new, mid) /\ new.script = mid.script
    BY <2>1, <2>2, BundleRecord
  <2>4. SameEntry(new, r)
    BY <2>2, <2>3 DEF SameEntry
  <2> QED
    BY <2>2, <2>3, <2>4 DEF new
<1> QED
  BY <1>1, <1>2

LEMMA SameEntryTransitive ==
    ASSUME NEW a, NEW b, NEW c, SameEntry(a, b), SameEntry(b, c)
    PROVE  SameEntry(a, c)
BY DEF SameEntry

LEMMA SameEntryReflexive == \A a : SameEntry(a, a)
BY DEF SameEntry

LEMMA EntryRecord ==
    ASSUME NEW source, NEW of, NEW origin, NEW role, NEW privilege, NEW target, NEW sha
    PROVE  LET r == Entry(source, of, origin, role, privilege, target, sha) IN
           /\ IsRecord(r) /\ r.source = source /\ r.of = of /\ r.origin = origin
BY DEF IsRecord, Entry

(* What depends on the entry only is the same for both.                    *)
LEMMA SameTrust ==
    ASSUME NEW a, NEW b, SameEntry(a, b)
    PROVE  /\ registry_record_can_materialize_plugin(a) <=> registry_record_can_materialize_plugin(b)
           /\ registry_record_passes_thin_layer_trust(a) <=> registry_record_passes_thin_layer_trust(b)
BY DEF SameEntry, registry_record_can_materialize_plugin, registry_record_is_package_entry,
       registry_record_passes_thin_layer_trust, registry_record_requires_script_hash, ValidHash

(* refreshed_record_payload changes payloads only; when it succeeds for a  *)
(* plugin, the payload is there and is the expected one.                   *)
LEMMA RefreshedRecord ==
    ASSUME NEW r, IsRecord(r), NEW preferLatestTag, NEW env
    PROVE  LET after == refreshed_record_payload(r, preferLatestTag, env) IN
           /\ IsRecord(after.record) /\ SameEntry(after.record, r)
           /\ after.ok /\ registry_record_can_materialize_plugin(r) =>
                 /\ after.record.script # 0
                 /\ registry_record_matches_expected_hashes(after.record, after.env)
<1> DEFINE after == refreshed_record_payload(r, preferLatestTag, env)
           source == RefreshSource(r.source, preferLatestTag, env)
           payload == fetch_plugin_payload(source, env)
           world == AfterFetch(source, env)
           loaded == Loaded(r, payload, source, world)
           fine == payload # 0 /\ registry_record_matches_expected_hashes(loaded, world)
<1>1. IsRecord(loaded) /\ SameEntry(loaded, r) /\ loaded.script = payload
  BY PayloadRecords
<1>2. IsRecord(Unloaded(r)) /\ SameEntry(Unloaded(r), r) /\ SameEntry(r, r)
  BY PayloadRecords, SameEntryReflexive
<1>3. FetchFrom(r, source, env) = [ok |-> fine, record |-> loaded, env |-> world]
  BY DEF FetchFrom, Fetched
<1>4. fine => payload # 0 /\ registry_record_matches_expected_hashes(loaded, world)
  OBVIOUS
<1> HIDE DEF source, payload, world, loaded, fine
<1>5. CASE r.alias
  <2>1. after = [ok |-> TRUE, record |-> r, env |-> env]
    BY <1>5 DEF refreshed_record_payload, registry_record_can_materialize_plugin
  <2> QED
    BY <1>2, <1>5, <2>1 DEF registry_record_can_materialize_plugin
<1>6. CASE ~r.alias /\ ~registry_record_can_materialize_plugin(r)
  <2>1. after = [ok |-> TRUE, record |-> Unloaded(r), env |-> env]
    BY <1>6 DEF refreshed_record_payload
  <2> QED
    BY <1>2, <1>6, <2>1
<1>7. CASE ~r.alias /\ registry_record_can_materialize_plugin(r)
           /\ ~registry_record_passes_thin_layer_trust(r)
  <2>1. after = [ok |-> FALSE, record |-> r, env |-> env]
    BY <1>7 DEF refreshed_record_payload
  <2> QED
    BY <1>2, <2>1
<1>8. CASE ~r.alias /\ registry_record_can_materialize_plugin(r)
           /\ registry_record_passes_thin_layer_trust(r)
  <2>1. after = FetchFrom(r, source, env)
    BY <1>8 DEF refreshed_record_payload, source
  <2>2. after.ok = fine /\ after.record = loaded /\ after.env = world
    BY <1>3, <2>1
  <2> QED
    BY <1>1, <1>4, <2>2
<1> QED
  BY <1>5, <1>6, <1>7, <1>8

(* desired_record: what a transaction stores is the record it was given,   *)
(* with fields it leaves empty taken from the old one.                     *)
Restates(new, r) ==
    /\ IsRecord(new)
    /\ new.source = r.source /\ new.of = r.of /\ new.alias = r.alias
    /\ r.origin # "" => new.origin = r.origin

LEMMA DesiredRecord ==
    ASSUME NEW name, NEW r, IsRecord(r), NEW old, IsDatabase(old), NEW fetchPayloads, NEW env
    PROVE  Restates(desired_record(name, r, old, fetchPayloads, env).record, r)
<1> DEFINE base == IF name \in DOMAIN old THEN Inherit(r, old[name]) ELSE r
           located == Located(base, env)
           trusted == Trusted(located)
           fetched == Refetched(trusted, fetchPayloads, env)
           new == desired_record(name, r, old, fetchPayloads, env).record
<1>1. /\ IsRecord(base)
      /\ base.source = r.source /\ base.of = r.of /\ base.alias = r.alias
      /\ r.origin # "" => base.origin = r.origin
  BY DEF Inherit, IsRecord
<1>2. new = Expected(fetched).record
  BY DEF desired_record
<1> HIDE DEF base, new
<1>3. IsRecord(located) /\ SameEntry(located, base)
  BY <1>1, BundleRecord, SameEntryReflexive DEF Located
<1> HIDE DEF located
<1>4. IsRecord(trusted) /\ SameEntry(trusted, located)
  BY <1>3, PayloadRecords, SameEntryReflexive DEF Trusted
<1> HIDE DEF trusted
<1>5. IsRecord(fetched.record) /\ SameEntry(fetched.record, trusted)
  <2>1. \/ fetched.record = trusted
        \/ \E version, source, world : fetched.record = Loaded(trusted, version, source, world)
    BY DEF Refetched, FetchFrom, Fetched
  <2>2. CASE fetched.record = trusted
    BY <1>4, <2>2, SameEntryReflexive
  <2>3. ASSUME NEW version, NEW source, NEW world,
               fetched.record = Loaded(trusted, version, source, world)
        PROVE  IsRecord(fetched.record) /\ SameEntry(fetched.record, trusted)
    <3> HIDE DEF fetched
    <3>1. /\ IsRecord(Loaded(trusted, version, source, world))
          /\ SameEntry(Loaded(trusted, version, source, world), trusted)
      BY <1>4, PayloadRecords
    <3> QED
      BY <2>3, <3>1
  <2> QED
    BY <2>1, <2>2, <2>3
<1> HIDE DEF fetched
<1>6. new = fetched.record \/ new = Unloaded(fetched.record)
  BY <1>2 DEF Expected
<1>7. IsRecord(new) /\ SameEntry(new, fetched.record)
  BY <1>5, <1>6, PayloadRecords, SameEntryReflexive
<1>8. SameEntry(new, base)
  BY <1>3, <1>4, <1>5, <1>7, SameEntryTransitive
<1> QED
  BY <1>1, <1>7, <1>8 DEF new, SameEntry, Restates

-----------------------------------------------------------------------------
(* Aliases.  The name a chain of aliases ends at is the value of a         *)
(* recursive function; what it computes is shown by induction, in the form *)
(* that a nonempty set of natural numbers has a least element.             *)

LEMMA LeastNumber ==
    ASSUME NEW T \in SUBSET Nat, T # {}
    PROVE  \E n \in T : \A m \in T : n <= m
<1> DEFINE less == {ss \in Nat \X Nat : ss[1] < ss[2]}
<1>1. IsWellFoundedOn(less, Nat)
  BY NatLessThanWellFounded DEF OpToRel
<1>2. \A x, y \in T : <<y, x>> \in less <=> y < x
  OBVIOUS
<1> HIDE DEF less
<1>3. PICK x \in T : \A y \in T : ~(<<y, x>> \in less)
  BY <1>1, WFMin
<1>4. \A y \in T : ~(y < x)
  BY <1>2, <1>3
<1>5. \A y \in T : x <= y
  BY <1>4
<1> QED
  BY <1>5

AliasStep(d, n) == IF n \in DOMAIN d /\ d[n].alias THEN d[n].of ELSE n

(* f[i] is the name after i steps, up to b of them.                        *)
Chain(d, name, f, b) ==
    f = [i \in 0..b |-> IF i = 0 THEN name ELSE AliasStep(d, f[i-1])]

LEMMA ChainsExist ==
    ASSUME NEW d, NEW name
    PROVE  \A b \in Nat : \E f : Chain(d, name, f, b)
<1> DEFINE Solved(b) == \E f : Chain(d, name, f, b)
           T == {b \in Nat : ~Solved(b)}
<1> SUFFICES ASSUME T # {} PROVE FALSE
  OBVIOUS
<1>1. PICK b \in T : \A m \in T : b <= m
  BY LeastNumber
<1>2. Solved(0)
  <2> DEFINE f == [i \in 0..0 |-> name]
  <2>1. Chain(d, name, f, 0)
    BY DEF Chain
  <2> QED
    BY <2>1
<1>3. b # 0 /\ b - 1 \in Nat /\ Solved(b - 1)
  <2> HIDE DEF Solved
  <2>1. b \in Nat /\ ~Solved(b)
    BY <1>1
  <2>2. b # 0
    BY <1>2, <2>1
  <2>3. b - 1 \in Nat /\ ~(b <= b - 1)
    BY <2>1, <2>2
  <2> QED
    BY <1>1, <2>2, <2>3
<1>4. PICK f : Chain(d, name, f, b - 1)
  BY <1>3
<1> DEFINE h == [i \in 0..b |-> IF i = b THEN AliasStep(d, f[b-1]) ELSE f[i]]
<1>5. ASSUME NEW i \in 0..b PROVE h[i] = IF i = 0 THEN name ELSE AliasStep(d, h[i-1])
  <2>1. CASE i = 0
    BY <1>3, <1>4, <2>1 DEF Chain
  <2>2. CASE i # 0
    <3>1. i - 1 \in 0..b /\ i - 1 # b
      BY <1>3, <2>2
    <3>2. h[i-1] = f[i-1]
      BY <3>1
    <3>3. h[i] = AliasStep(d, f[i-1])
      <4>1. CASE i = b
        BY <4>1
      <4>2. CASE i # b
        <5>1. i \in 0..(b-1)
          BY <1>3, <4>2
        <5> QED
          BY <1>4, <2>2, <4>2, <5>1 DEF Chain
      <4> QED
        BY <4>1, <4>2
    <3> QED
      BY <2>2, <3>2, <3>3
  <2> QED
    BY <2>1, <2>2
<1>6. Chain(d, name, h, b)
  BY <1>5 DEF Chain
<1>7. Solved(b)
  BY <1>6
<1> QED
  BY <1>1, <1>7

LEMMA ResolvedChain ==
    ASSUME NEW d, NEW name
    PROVE  \E f : /\ f[0] = name /\ ResolvedName(d, name) = f[16]
                  /\ \A i \in 1..16 : f[i] = AliasStep(d, f[i-1])
<1> DEFINE g == CHOOSE f : f = [i \in 0..16 |-> IF i = 0 THEN name ELSE AliasStep(d, f[i-1])]
<1>1. Chain(d, name, g, 16)
  <2>1. \E f : Chain(d, name, f, 16)
    BY ChainsExist
  <2>2. \E f : f = [i \in 0..16 |-> IF i = 0 THEN name ELSE AliasStep(d, f[i-1])]
    BY <2>1 DEF Chain
  <2> QED
    BY <2>2 DEF Chain
<1>2. ResolvedName(d, name) = g[16]
  BY DEF ResolvedName, AliasStep
<1> HIDE DEF g
<1>3. g[0] = name /\ \A i \in 1..16 : g[i] = AliasStep(d, g[i-1])
  BY <1>1 DEF Chain
<1> QED
  BY <1>2, <1>3

(* A name that is no alias is where its own chain ends, and that of its    *)
(* aliases.                                                                *)
LEMMA ResolvedNext ==
    ASSUME NEW d, NEW name, NEW next, next = AliasStep(d, name), AliasStep(d, next) = next
    PROVE  ResolvedName(d, name) = next
<1>1. PICK f : /\ f[0] = name /\ ResolvedName(d, name) = f[16]
               /\ \A i \in 1..16 : f[i] = AliasStep(d, f[i-1])
  BY ResolvedChain
<1> DEFINE T == {i \in 1..16 : f[i] # next}
<1>2. CASE T = {}
  BY <1>1, <1>2
<1>3. CASE T # {}
  <2>1. PICK i \in T : \A m \in T : i <= m
    BY <1>3, LeastNumber
  <2>2. f[1] = next
    BY <1>1
  <2>3. i # 1
    BY <2>1, <2>2
  <2>4. i \in 1..16 /\ i - 1 \in 1..16 /\ i - 1 \notin T
    BY <2>1, <2>3
  <2>5. f[i] = AliasStep(d, next)
    BY <1>1, <2>4
  <2> QED
    BY <2>1, <2>5
<1> QED
  BY <1>2, <1>3

(* One step along the chain leads to the same end, if that is no alias.    *)
LEMMA ResolvedStep ==
    ASSUME NEW d, NEW name, NEW owner, AliasStep(d, owner) = owner
    PROVE  ResolvedName(d, name) = owner => ResolvedName(d, AliasStep(d, name)) = owner
<1> SUFFICES ASSUME ResolvedName(d, name) = owner
             PROVE  ResolvedName(d, AliasStep(d, name)) = owner
  OBVIOUS
<1> DEFINE next == AliasStep(d, name)
<1>1. PICK f : /\ f[0] = name /\ ResolvedName(d, name) = f[16]
               /\ \A i \in 1..16 : f[i] = AliasStep(d, f[i-1])
  BY ResolvedChain
<1>2. PICK g : /\ g[0] = next /\ ResolvedName(d, next) = g[16]
               /\ \A i \in 1..16 : g[i] = AliasStep(d, g[i-1])
  BY ResolvedChain
<1> DEFINE T == {i \in 0..15 : g[i] # f[i+1]}
<1>3. CASE T = {}
  <2>1. g[15] = f[16]
    BY <1>3
  <2>2. g[16] = AliasStep(d, g[15])
    BY <1>2
  <2> QED
    BY <1>1, <1>2, <2>1, <2>2
<1>4. CASE T # {}
  <2>1. PICK i \in T : \A m \in T : i <= m
    BY <1>4, LeastNumber, SMTT(30)
  <2>2. i # 0
    BY <1>1, <1>2, <2>1
  <2>3. i \in 1..16 /\ i + 1 \in 1..16 /\ i - 1 \in 0..15 /\ i - 1 \notin T
    BY <2>1, <2>2
  <2>4. g[i-1] = f[i]
    BY <2>3
  <2>5. g[i] = AliasStep(d, g[i-1]) /\ f[i+1] = AliasStep(d, f[i])
    BY <1>1, <1>2, <2>3
  <2> QED
    BY <2>1, <2>4, <2>5
<1> QED
  BY <1>3, <1>4

-----------------------------------------------------------------------------
(* Reading the outside world.                                              *)

Envs == [content : [Sources -> 1..MaxVersion], cache : [Sources -> 0..MaxVersion],
         net : BOOLEAN]

LEMMA EnvType ==
    ASSUME TypeOK, NEW net \in BOOLEAN
    PROVE  Env(net) \in Envs
BY DEF TypeOK, Env, Envs

LEMMA AfterFetchType ==
    ASSUME NEW env \in Envs, NEW source
    PROVE  AfterFetch(source, env) \in Envs
<1> DEFINE payload == fetch_plugin_payload(source, env)
           new == [env.cache EXCEPT ![source] = payload]
<1>1. /\ env.content \in [Sources -> 1..MaxVersion] /\ env.cache \in [Sources -> 0..MaxVersion]
      /\ env.net \in BOOLEAN
  BY DEF Envs
<1>2. MaxVersion \in Nat
  BY RegistryAssumption
<1>3. source \in Sources => payload \in 0..MaxVersion
  BY <1>1, <1>2 DEF fetch_plugin_payload
<1> HIDE DEF payload
<1>4. new \in [Sources -> 0..MaxVersion]
  BY <1>1, <1>3
<1>5. AfterFetch(source, env) = env \/ AfterFetch(source, env) = [env EXCEPT !.cache = new]
  BY DEF AfterFetch, payload
<1> HIDE DEF new
<1>6. [env EXCEPT !.cache = new] \in Envs
  BY <1>4 DEF Envs
<1> QED
  BY <1>5, <1>6

LEMMA RefreshedEnv ==
    ASSUME NEW r, NEW preferLatestTag, NEW env \in Envs
    PROVE  refreshed_record_payload(r, preferLatestTag, env).env \in Envs
<1> DEFINE after == refreshed_record_payload(r, preferLatestTag, env)
<1>1. after.env = env \/ \E source : after.env = AfterFetch(source, env)
  BY DEF refreshed_record_payload, FetchFrom, Fetched
<1> QED
  BY <1>1, AfterFetchType

-----------------------------------------------------------------------------
(* Payloads that are fetched and written.                                  *)

LEMMA SameEntriesReflexive == ASSUME IsDatabase(db) PROVE SameEntries(db, db)
BY SameEntryReflexive DEF SameEntries

LEMMA KnownFacts ==
    ASSUME NEW n, n \in DOMAIN Known
    PROVE  Known = db /\ n \in DOMAIN db
BY DEF Known, Visible

(* One record of a database with another payload.                          *)
LEMMA OneRecord ==
    ASSUME NEW old, IsDatabase(old), NEW n \in DOMAIN old, NEW r, IsRecord(r),
           SameEntry(r, old[n])
    PROVE  LET new == [old EXCEPT ![n] = r] IN
           SameEntries(old, new) /\ new[n] = r
BY SameEntryReflexive DEF SameEntries, IsDatabase

LEMMA RefreshRecordFacts ==
    ASSUME IsDatabase(db), NEW name, NEW preferLatestTag, NEW env \in Envs
    PROVE  LET after == refreshRecord(name, preferLatestTag, env)
               target == ResolvedName(Known, name) IN
           /\ SameEntries(db, after.db) /\ after.env \in Envs
           /\ after.ok => target \in DOMAIN Known
           /\ after.ok /\ registry_record_can_materialize_plugin(after.db[target]) =>
                 /\ after.db[target].script # 0
                 /\ registry_record_matches_expected_hashes(after.db[target], after.env)
<1> DEFINE after == refreshRecord(name, preferLatestTag, env)
           target == ResolvedName(Known, name)
<1>1. after = RefreshTarget(target, preferLatestTag, env)
  BY DEF refreshRecord
<1> HIDE DEF after, target
<1>2. CASE target \notin DOMAIN Known
  <2>1. after = [ok |-> FALSE, db |-> db, env |-> env]
    BY <1>1, <1>2 DEF RefreshTarget
  <2> QED
    BY <2>1, SameEntriesReflexive DEF after, target
<1>3. CASE target \in DOMAIN Known
  <2> DEFINE old == db[target]
             done == refreshed_record_payload(old, preferLatestTag, env)
             new == [db EXCEPT ![target] = done.record]
  <2>1. Known = db /\ target \in DOMAIN db /\ IsRecord(old)
    BY <1>3, KnownFacts DEF IsDatabase
  <2>2. after = [ok |-> done.ok, env |-> done.env, db |-> IF done.ok THEN new ELSE db]
    BY <1>1, <1>3, <2>1 DEF RefreshTarget, RecordRefreshed
  <2> HIDE DEF old
  <2>3. /\ IsRecord(done.record) /\ SameEntry(done.record, old) /\ done.env \in Envs
        /\ done.ok /\ registry_record_can_materialize_plugin(old) =>
              /\ done.record.script # 0
              /\ registry_record_matches_expected_hashes(done.record, done.env)
    BY <2>1, RefreshedRecord, RefreshedEnv
  <2> HIDE DEF done
  <2>4. SameEntries(db, new) /\ new[target] = done.record
    BY <2>1, <2>3, OneRecord DEF old
  <2>5. SameEntries(db, db)
    BY SameEntriesReflexive
  <2> HIDE DEF new
  <2>6. registry_record_can_materialize_plugin(done.record)
          <=> registry_record_can_materialize_plugin(old)
    BY <2>3, SameTrust
  <2>7. CASE done.ok
    <3>1. after.ok = done.ok /\ after.db = new /\ after.env = done.env
      BY <2>2, <2>7
    <3> QED
      BY <1>3, <2>3, <2>4, <2>6, <2>7, <3>1 DEF after, target
  <2>8. CASE ~done.ok
    <3>1. ~after.ok /\ after.db = db /\ after.env = done.env
      BY <2>2, <2>8
    <3> QED
      BY <1>3, <2>3, <2>5, <3>1 DEF after, target
  <2> QED
    BY <2>7, <2>8
<1> QED
  BY <1>2, <1>3

(* The record vouches for what is written: nothing, or a bundle or script  *)
(* that has the record's hash, if the record is a plugin's.                *)
Vouches(r, what) ==
    \/ what = Absent
    \/ \E kind \in {"bundle", "script"} : \E v :
          /\ what = <<kind, v>>
          /\ registry_record_can_materialize_plugin(r) =>
                r.sha \in {0, v} /\ registry_record_passes_thin_layer_trust(r)

LEMMA MaterializeVouched ==
    ASSUME NEW r, NEW env,
           registry_record_can_materialize_plugin(r) =>
              /\ registry_record_matches_expected_hashes(r, env)
              /\ registry_record_passes_thin_layer_trust(r)
    PROVE  Vouches(r, materializePluginScript(r, env))
<1> DEFINE v == registry_record_payload_files(r, env)
<1>1. \/ materializePluginScript(r, env) = Absent
      \/ \E kind \in {"bundle", "script"} : materializePluginScript(r, env) = <<kind, v>>
  BY DEF materializePluginScript, registry_record_payload_files
<1>2. registry_record_can_materialize_plugin(r) => r.sha \in {0, v}
  BY DEF registry_record_matches_expected_hashes
<1> HIDE DEF v
<1> QED
  BY <1>1, <1>2 DEF Vouches

LEMMA RefreshIfEmptyFacts ==
    ASSUME IsDatabase(db), NEW r, NEW name, NEW env \in Envs
    PROVE  LET after == RefreshIfEmpty(r, name, env) IN
           SameEntries(db, after.db) /\ after.env \in Envs
<1> DEFINE after == RefreshIfEmpty(r, name, env)
<1>1. \/ after = refreshRecord(name, FALSE, env)
      \/ after = [ok |-> TRUE, db |-> db, env |-> env]
  BY DEF RefreshIfEmpty
<1>2. SameEntries(db, db)
  BY SameEntriesReflexive
<1>3. /\ SameEntries(db, refreshRecord(name, FALSE, env).db)
      /\ refreshRecord(name, FALSE, env).env \in Envs
  BY RefreshRecordFacts
<1> HIDE DEF after
<1>4. SameEntries(db, after.db) /\ after.env \in Envs
  <2>1. CASE after = refreshRecord(name, FALSE, env)
    BY <1>3, <2>1
  <2>2. CASE after = [ok |-> TRUE, db |-> db, env |-> env]
    <3>1. after.db = db /\ after.env = env
      BY <2>2
    <3> QED
      BY <1>2, <3>1
  <2> QED
    BY <1>1, <2>1, <2>2
<1> QED
  BY <1>4 DEF after

(* What loadPlugin and getPluginSecurityMetadata are about to write.       *)
LEMMA PrepareFacts ==
    ASSUME IsDatabase(db), NEW name, NEW env \in Envs
    PROVE  LET prepared == PrepareLoad(name, env) IN
           /\ SameEntries(db, prepared.db) /\ prepared.env \in Envs
           /\ prepared.what # Absent => /\ prepared.owner \in DOMAIN db
                                        /\ Vouches(prepared.db[prepared.owner], prepared.what)
<1> DEFINE owner == ResolvedName(Known, name)
           after == RefreshIfEmpty(Known[owner], name, env)
           prepared == PrepareLoad(name, env)
<1>1. \/ \E result : prepared = [result |-> result, owner |-> owner, what |-> Absent,
                                 db |-> db, env |-> env]
      \/ /\ owner \in DOMAIN Known /\ registry_record_passes_thin_layer_trust(Known[owner])
         /\ prepared = Prepared(owner, after)
  BY DEF PrepareLoad, PrepareOwner
<1>2. SameEntries(db, db)
  BY SameEntriesReflexive
<1>3. SameEntries(db, after.db) /\ after.env \in Envs
  BY RefreshIfEmptyFacts
<1> DEFINE r == after.db[owner]
           fine == after.ok /\ registry_record_matches_expected_hashes(r, after.env)
<1>4. prepared = Prepared(owner, after) =>
         /\ prepared.owner = owner /\ prepared.db = after.db /\ prepared.env = after.env
         /\ prepared.what = IF fine THEN materializePluginScript(r, after.env) ELSE Absent
  BY DEF Prepared
<1> HIDE DEF owner, after, prepared
<1>5. CASE \E result : prepared = [result |-> result, owner |-> owner, what |-> Absent,
                                   db |-> db, env |-> env]
  BY <1>2, <1>5 DEF prepared
<1>6. CASE /\ owner \in DOMAIN Known /\ registry_record_passes_thin_layer_trust(Known[owner])
           /\ prepared = Prepared(owner, after)
  <2>1. owner \in DOMAIN db /\ Known = db
    BY <1>6, KnownFacts
  <2>2. SameEntry(r, db[owner])
    BY <1>3, <2>1 DEF SameEntries
  <2>3. registry_record_passes_thin_layer_trust(r)
    BY <1>6, <2>1, <2>2, SameTrust
  <2>4. fine => registry_record_matches_expected_hashes(r, after.env)
    OBVIOUS
  <2> HIDE DEF fine, r
  <2>5. prepared.what # Absent => Vouches(r, prepared.what)
    BY <1>4, <1>6, <2>3, <2>4, MaterializeVouched
  <2> QED
    BY <1>3, <1>4, <1>6, <2>1, <2>5 DEF prepared, r
<1> QED
  BY <1>1, <1>5, <1>6

(* What downloadPlugin is about to write: into the directory of a name     *)
(* that is its record's own, or of one that is no plugin.                  *)
LEMMA DownloadFacts ==
    ASSUME IsDatabase(db), NEW name, NEW env \in Envs
    PROVE  LET after == downloadPlugin(name, env)
               n == DownloadName(name) IN
           /\ SameEntries(db, after.db) /\ after.env \in Envs
           /\ after.ok => after.what # Absent
           /\ after.what # Absent =>
                 /\ \E kind \in {"bundle", "script"} : \E v : after.what = <<kind, v>>
                 /\ n \in DOMAIN db => Vouches(after.db[n], after.what)
<1> DEFINE owner == ResolvedName(Known, name)
           n == DownloadName(name)
           fresh == RefreshIfEmpty(Known[owner], n, env)
           result == downloadPlugin(name, env)
           r == fresh.db[owner]
           what == DownloadedBundle(r, fresh.env)
           cached == [fresh.db EXCEPT ![owner].script = what[2]]
<1>1. \/ result = [ok |-> FALSE, what |-> Absent, db |-> db, env |-> env]
      \/ /\ owner \in DOMAIN Known /\ registry_record_passes_thin_layer_trust(Known[owner])
         /\ result = DownloadRefreshed(owner, fresh)
  BY DEF downloadPlugin
<1>2. DownloadRefreshed(owner, fresh) =
         IF fresh.ok THEN [ok |-> what # Absent, what |-> what, env |-> fresh.env,
                           db |-> IF what # Absent /\ r.script = 0 THEN cached ELSE fresh.db]
         ELSE [ok |-> FALSE, what |-> Absent, db |-> fresh.db, env |-> fresh.env]
  BY DEF DownloadRefreshed, Downloaded
<1>3. SameEntries(db, fresh.db) /\ fresh.env \in Envs
  BY RefreshIfEmptyFacts
<1>4. SameEntries(db, db)
  BY SameEntriesReflexive
<1> SUFFICES ASSUME owner \in DOMAIN Known, fresh.ok, result = DownloadRefreshed(owner, fresh),
                    registry_record_passes_thin_layer_trust(Known[owner])
             PROVE  /\ SameEntries(db, result.db) /\ result.env \in Envs
                    /\ result.ok => result.what # Absent
                    /\ result.what # Absent =>
                          /\ \E kind \in {"bundle", "script"} : \E v : result.what = <<kind, v>>
                          /\ n \in DOMAIN db => Vouches(result.db[n], result.what)
  <2>1. CASE result = [ok |-> FALSE, what |-> Absent, db |-> db, env |-> env]
    <3> HIDE DEF result
    <3> QED
      BY <1>4, <2>1 DEF result
  <2>2. CASE result = DownloadRefreshed(owner, fresh) /\ ~fresh.ok
    <3>1. result.ok = FALSE /\ result.what = Absent /\ result.db = fresh.db /\ result.env = fresh.env
      BY <1>2, <2>2
    <3> QED
      BY <1>3, <3>1
  <2> QED
    BY <1>1, <2>1, <2>2
<1>5. Known = db /\ owner \in DOMAIN db
  BY KnownFacts
<1>6. IsRecord(r) /\ SameEntry(r, db[owner])
  BY <1>3, <1>5 DEF SameEntries, IsDatabase
<1>7. registry_record_passes_thin_layer_trust(r)
  BY <1>5, <1>6, SameTrust
<1>8. registry_record_can_materialize_plugin(r) => r.script # 0
  <2> SUFFICES ASSUME registry_record_can_materialize_plugin(r) PROVE r.script # 0
    OBVIOUS
  <2>1. registry_record_can_materialize_plugin(db[owner])
    BY <1>6, SameTrust
  <2>2. ~db[owner].alias
    BY <2>1 DEF registry_record_can_materialize_plugin
  <2>3. AliasStep(Known, owner) = owner /\ n = AliasStep(Known, name)
    BY <1>5, <2>2 DEF AliasStep, DownloadName
  <2>4. ResolvedName(Known, n) = owner
    BY <2>3, ResolvedStep
  <2>5. CASE Known[owner].script = 0
    <3>1. fresh = refreshRecord(n, FALSE, env)
      BY <1>5, <2>2, <2>5 DEF RefreshIfEmpty
    <3> QED
      BY <2>4, <3>1, RefreshRecordFacts
  <2>6. CASE Known[owner].script # 0
    BY <1>5, <2>6 DEF RefreshIfEmpty
  <2> QED
    BY <2>5, <2>6
<1>9. Vouches(r, what)
  <2>1. CASE r.script = 0
    BY <1>8, <2>1 DEF Vouches, DownloadedBundle, RawPayload
  <2>2. CASE r.script # 0 /\ registry_record_matches_expected_hashes(r, fresh.env)
    BY <1>7, <2>2, MaterializeVouched DEF DownloadedBundle
  <2>3. CASE r.script # 0 /\ ~registry_record_matches_expected_hashes(r, fresh.env)
    BY <2>3 DEF Vouches, DownloadedBundle
  <2> QED
    BY <2>1, <2>2, <2>3
<1>10. SameEntries(db, cached)
  <2> DEFINE other == [r EXCEPT !.script = what[2]]
  <2>1. cached = [fresh.db EXCEPT ![owner] = other]
    BY <1>5
  <2>2. IsRecord(other) /\ SameEntry(other, r)
    BY <1>6, ScriptRecord
  <2>3. IsDatabase(fresh.db) /\ owner \in DOMAIN fresh.db
    BY <1>3, <1>5 DEF SameEntries
  <2> HIDE DEF other, cached, fresh
  <2>4. SameEntries(fresh.db, cached)
    BY <2>1, <2>2, <2>3, OneRecord
  <2> QED
    BY <1>3, <2>4, SameEntryTransitive DEF SameEntries
<1>11. /\ result.what = what /\ result.env = fresh.env
       /\ result.db = cached \/ result.db = fresh.db
       /\ result.ok => result.what # Absent
  <2> DEFINE stored == IF what # Absent /\ r.script = 0 THEN cached ELSE fresh.db
             there == what # Absent
  <2>1. result = [ok |-> there, what |-> what, env |-> fresh.env, db |-> stored]
    BY <1>2
  <2>2. (stored = cached \/ stored = fresh.db) /\ (there => what # Absent)
    OBVIOUS
  <2> HIDE DEF result, stored, there
  <2>3. result.ok = there /\ result.what = what /\ result.env = fresh.env /\ result.db = stored
    BY <2>1
  <2> QED
    BY <2>2, <2>3
<1>12. SameEntries(db, result.db)
  BY <1>3, <1>10, <1>11
<1> HIDE DEF result, what, cached, fresh, owner, r
<1>13. n \in DOMAIN db => Vouches(result.db[n], what)
  <2> SUFFICES ASSUME n \in DOMAIN db PROVE Vouches(result.db[n], what)
    OBVIOUS
  <2>1. SameEntry(result.db[n], db[n])
    BY <1>12 DEF SameEntries
  <2>2. CASE registry_record_can_materialize_plugin(db[n])
    <3>1. ~db[n].alias
      BY <2>2 DEF registry_record_can_materialize_plugin
    <3>2. AliasStep(Known, n) = n /\ n = AliasStep(Known, name)
      BY <1>5, <3>1 DEF AliasStep, DownloadName
    <3>3. owner = n
      BY <3>2, ResolvedNext DEF owner
    <3>4. SameEntry(result.db[n], r)
      BY <1>6, <2>1, <3>3 DEF SameEntry
    <3> QED
      BY <1>9, <3>4, SameTrust DEF Vouches, SameEntry
  <2>3. CASE ~registry_record_can_materialize_plugin(db[n])
    <3>1. ~registry_record_can_materialize_plugin(result.db[n])
      BY <2>1, <2>3, SameTrust
    <3> QED
      BY <1>9, <3>1 DEF Vouches
  <2> QED
    BY <2>2, <2>3
<1> QED
  BY <1>3, <1>9, <1>11, <1>12, <1>13 DEF Vouches

-----------------------------------------------------------------------------
(* Plugin directories.                                                     *)

IsDirectory(dir) == dir = [f \in Files |-> dir[f]]

(* DiscoveredIsWhole for one directory.                                    *)
OneBundle(dir) ==
    plugin_bundle_probe_directory(dir) =>
        \E kind \in {"bundle", "script"} : dir = Whole(kind, dir["run"][2])

(* What is left of a directory.                                            *)
Left(dir, S) == [f \in Files |-> IF f \in S THEN dir[f] ELSE Absent]

LEMMA WholeFacts ==
    ASSUME NEW kind \in {"bundle", "script"}, NEW v
    PROVE  LET dir == Whole(kind, v) IN
           IsDirectory(dir) /\ OneBundle(dir) /\ dir["run"] = <<kind, v>>
<1> DEFINE dir == Whole(kind, v)
<1>1. dir["run"] = <<kind, v>>
  BY RegistryAssumption DEF Whole
<1>2. IsDirectory(dir)
  BY DEF Whole, IsDirectory
<1>3. dir["run"][2] = v
  BY <1>1
<1>4. dir = Whole(kind, dir["run"][2])
  BY <1>3
<1> HIDE DEF dir
<1>5. OneBundle(dir)
  BY <1>4 DEF OneBundle
<1> QED
  BY <1>1, <1>2, <1>5 DEF dir

(* Less than a directory is not accepted.                                  *)
LEMMA LeftFacts ==
    ASSUME NEW dir, IsDirectory(dir), OneBundle(dir), NEW S
    PROVE  LET rest == Left(dir, S) IN
           IsDirectory(rest) /\ OneBundle(rest) /\ rest["run"] \in {Absent, dir["run"]}
<1> DEFINE rest == Left(dir, S)
<1>1. IsDirectory(rest) /\ rest["run"] \in {Absent, dir["run"]}
  BY RegistryAssumption DEF Left, IsDirectory
<1>2. ASSUME plugin_bundle_probe_directory(rest) PROVE rest = dir
  <2>1. \A f \in Files : rest[f] # Absent /\ rest[f] = IF f \in S THEN dir[f] ELSE Absent
    BY <1>2 DEF plugin_bundle_probe_directory, Left
  <2>2. \A f \in Files : rest[f] = dir[f]
    BY <2>1
  <2> HIDE DEF rest
  <2> QED
    BY <1>1, <2>2 DEF IsDirectory
<1> HIDE DEF rest
<1>3. OneBundle(rest)
  BY <1>2 DEF OneBundle
<1> QED
  BY <1>1, <1>3 DEF rest

LEMMA InterruptedFacts ==
    ASSUME NEW dir, NEW kind, NEW v, NEW after \in Interrupted(dir, kind, v)
    PROVE  \E S : after = Left(dir, S) \/ after = Left(Whole(kind, v), S)
BY DEF Interrupted, Left

(* The directories: each is of the right form and, if it is accepted, one  *)
(* bundle.                                                                 *)
DirectoriesWhole(d) ==
    /\ d = [n \in Names |-> d[n]]
    /\ \A n \in Names : IsDirectory(d[n]) /\ OneBundle(d[n])

(* A change of one directory.                                              *)
LEMMA OneDirectory ==
    ASSUME DirectoriesWhole(disk), NEW n, NEW dir, IsDirectory(dir), OneBundle(dir),
           disk' = [disk EXCEPT ![n] = dir]
    PROVE  /\ DirectoriesWhole(disk')
           /\ \A m \in Names : m # n => disk'[m] = disk[m]
           /\ n \in Names => disk'[n] = dir
BY DEF DirectoriesWhole

(* Writing a directory, to the end or not: no mixture is accepted, and the *)
(* run script is gone, as it was, or the new one.                          *)
LEMMA WriteFacts ==
    ASSUME DirectoriesWhole(disk), NEW n, NEW kind \in {"bundle", "script"}, NEW v,
           WriteDirectory(n, <<kind, v>>) \/ WriteDies(n, <<kind, v>>)
    PROVE  /\ DirectoriesWhole(disk')
           /\ \A m \in Names :
                 \/ disk'[m]["run"] \in {Absent, disk[m]["run"]}
                 \/ m = n /\ disk'[m]["run"] = <<kind, v>>
<1> DEFINE whole == Whole(kind, v)
<1>1. IsDirectory(whole) /\ OneBundle(whole) /\ whole["run"] = <<kind, v>>
  BY WholeFacts
<1>2. <<kind, v>> # Absent /\ <<kind, v>>[1] = kind /\ <<kind, v>>[2] = v
  BY DEF Absent
<1>3. CASE WriteDirectory(n, <<kind, v>>)
  <2>1. disk' = [disk EXCEPT ![n] = whole]
    BY <1>2, <1>3 DEF WriteDirectory, Written
  <2> HIDE DEF whole
  <2>2. /\ DirectoriesWhole(disk')
        /\ \A m \in Names : m # n => disk'[m] = disk[m]
        /\ n \in Names => disk'[n] = whole
    BY <1>1, <2>1, OneDirectory
  <2> QED
    BY <1>1, <2>2
<1>4. CASE n \in Names /\ WriteDies(n, <<kind, v>>)
  <2>1. PICK dir \in Interrupted(disk[n], kind, v) : disk' = [disk EXCEPT ![n] = dir]
    BY <1>2, <1>4 DEF WriteDies
  <2>2. PICK S : dir = Left(disk[n], S) \/ dir = Left(whole, S)
    BY InterruptedFacts
  <2>3. IsDirectory(disk[n]) /\ OneBundle(disk[n])
    BY <1>4 DEF DirectoriesWhole
  <2> HIDE DEF whole
  <2>4. IsDirectory(dir) /\ OneBundle(dir) /\ dir["run"] \in {Absent, disk[n]["run"], <<kind, v>>}
    BY <1>1, <2>2, <2>3, LeftFacts
  <2>5. /\ DirectoriesWhole(disk')
        /\ \A m \in Names : m # n => disk'[m] = disk[m]
        /\ disk'[n] = dir
    BY <1>4, <2>1, <2>4, OneDirectory
  <2> QED
    BY <2>4, <2>5
<1>5. CASE n \notin Names /\ WriteDies(n, <<kind, v>>)
  <2>1. PICK dir : disk' = [disk EXCEPT ![n] = dir]
    BY <1>5 DEF WriteDies
  <2>2. disk' = disk
    BY <1>5, <2>1 DEF DirectoriesWhole
  <2> QED
    BY <2>2
<1> QED
  BY <1>3, <1>4, <1>5

-----------------------------------------------------------------------------
(* Plugins of the process.                                                 *)

Procs == [ready : BOOLEAN, paths : SUBSET Names, plugins : SUBSET Names,
          states : [Names -> {"none", "registered", "active", "failed"}]]

(* A process that differs in its plugins only.                             *)
SameReady(p, q) == q \in Procs /\ q.ready = p.ready

LEMMA ProcFacts ==
    ASSUME NEW p \in Procs, NEW name \in Names
    PROVE  /\ SameReady(p, Failed(p, name)) /\ SameReady(p, Forgotten(p, name))
           /\ \A dirs : SameReady(p, ensurePluginsDiscovered(p, name, dirs))
           /\ \A records, verdict :
                 SameReady(p, ensurePluginConstructed(p, name, records, verdict))
<1>1. SameReady(p, p)
  BY DEF SameReady
<1>2. SameReady(p, Failed(p, name))
  BY DEF SameReady, Failed, Procs
<1>3. SameReady(p, Forgotten(p, name))
  BY DEF SameReady, Forgotten, Procs
<1>4. ASSUME NEW dirs PROVE SameReady(p, ensurePluginsDiscovered(p, name, dirs))
  BY <1>1 DEF SameReady, ensurePluginsDiscovered, Procs
<1>5. ASSUME NEW records, NEW verdict
      PROVE  SameReady(p, ensurePluginConstructed(p, name, records, verdict))
  BY <1>1 DEF SameReady, ensurePluginConstructed, Procs
<1> QED
  BY <1>2, <1>3, <1>4, <1>5

LEMMA InitialisedFacts ==
    ASSUME NEW p \in Procs, NEW name \in Names, NEW records, NEW verdict
    PROVE  SameReady(p, Initialised(p, name, records, verdict))
<1> DEFINE q == ensurePluginConstructed(p, name, records, verdict)
<1>1. q \in Procs /\ q.ready = p.ready
  BY ProcFacts DEF SameReady
<1>2. \/ Initialised(p, name, records, verdict) = q
      \/ \E state \in {"failed", "active"} :
            Initialised(p, name, records, verdict) = [q EXCEPT !.states[name] = state]
  BY DEF Initialised
<1> HIDE DEF q
<1>3. ASSUME NEW state \in {"failed", "active"}
      PROVE  SameReady(p, [q EXCEPT !.states[name] = state])
  BY <1>1 DEF SameReady, Procs
<1> QED
  BY <1>1, <1>2, <1>3 DEF SameReady

LEMMA FreshFacts == FreshProcess \in Procs /\ ~FreshProcess.ready
BY DEF FreshProcess, Procs

LEMMA ScanFacts ==
    ASSUME NEW p \in Procs
    PROVE  SameReady(p, scanDirectory(p))
<1> DEFINE found == {n \in Names : plugin_bundle_probe_directory(disk[n])}
           states == [n \in Names |-> IF n \in found /\ p.states[n] = "none"
                                      THEN "registered" ELSE p.states[n]]
<1>1. scanDirectory(p) = [p EXCEPT !.paths = p.paths \cup found, !.states = states]
  BY DEF scanDirectory
<1>2. found \in SUBSET Names /\ states \in [Names -> {"none", "registered", "active", "failed"}]
  BY DEF Procs
<1> HIDE DEF found, states
<1> DEFINE paths == p.paths \cup found
<1>3. paths \in SUBSET Names
  BY <1>2 DEF Procs
<1> HIDE DEF paths
<1>4. [p EXCEPT !.paths = paths, !.states = states] \in Procs
  BY <1>2, <1>3 DEF Procs
<1>5. [p EXCEPT !.paths = paths, !.states = states].ready = p.ready
  BY DEF Procs
<1> QED
  BY <1>1, <1>4, <1>5 DEF SameReady, paths

-----------------------------------------------------------------------------
(* Steps that fetch payloads and write directories.                        *)

(* WritesOnlyVouched for one name.                                         *)
Vouched(n) ==
    (/\ disk'[n]["run"] \notin {Absent, disk[n]["run"]}
     /\ n \in DOMAIN db' /\ registry_record_can_materialize_plugin(db'[n]))
    => /\ db'[n].sha \in {0, disk'[n]["run"][2]}
       /\ registry_record_passes_thin_layer_trust(db'[n])

(* What such a step leaves alone, and what it may change.                  *)
PayloadStep ==
    /\ UNCHANGED <<commits, reachable, clone, lastCommit, content>>
    /\ SameEntries(db, db') /\ cache' \in [Sources -> 0..MaxVersion]
    /\ DirectoriesWhole(disk') /\ \A n \in Names : Vouched(n)
    /\ proc' \in Procs /\ (proc'.ready => proc.ready)
    /\ faults' \in 0..MaxFaults

LEMMA FaultCount ==
    ASSUME TypeOK
    PROVE  /\ \A net \in BOOLEAN : (~net => faults < MaxFaults) =>
                 faults + (IF net THEN 0 ELSE 1) \in 0..MaxFaults
           /\ faults < MaxFaults => faults + 1 \in 0..MaxFaults
<1>1. faults \in 0..MaxFaults /\ MaxFaults \in Nat
  BY RegistryAssumption DEF TypeOK
<1>2. ASSUME NEW net \in BOOLEAN, ~net => faults < MaxFaults
      PROVE  faults + (IF net THEN 0 ELSE 1) \in 0..MaxFaults
  <2>1. CASE net = TRUE
    BY <1>1, <2>1
  <2>2. CASE net = FALSE
    BY <1>1, <1>2, <2>2
  <2> QED
    BY <2>1, <2>2
<1> QED
  BY <1>1, <1>2

(* Writing what the record of the name vouches for.                        *)
LEMMA VouchedWrite ==
    ASSUME DirectoriesWhole(disk), NEW n, NEW what, SameEntries(db, db'),
           \/ what # Absent /\ WriteDies(n, what)
           \/ WriteDirectory(n, what),
           what # Absent =>
              /\ \E kind \in {"bundle", "script"} : \E v : what = <<kind, v>>
              /\ n \in DOMAIN db => Vouches(db'[n], what)
    PROVE  DirectoriesWhole(disk') /\ \A m \in Names : Vouched(m)
<1>1. CASE what = Absent
  <2>1. disk' = disk
    BY <1>1 DEF WriteDirectory
  <2> QED
    BY <2>1 DEF Vouched
<1>2. CASE what # Absent
  <2>0. PICK kind \in {"bundle", "script"} : \E v : what = <<kind, v>>
    BY <1>2
  <2>1. PICK v : what = <<kind, v>>
    BY <2>0
  <2>2. /\ DirectoriesWhole(disk')
        /\ \A m \in Names : \/ disk'[m]["run"] \in {Absent, disk[m]["run"]}
                            \/ m = n /\ disk'[m]["run"] = <<kind, v>>
    BY <2>1, WriteFacts
  <2>3. ASSUME NEW m \in Names, disk'[m]["run"] \notin {Absent, disk[m]["run"]},
               m \in DOMAIN db', registry_record_can_materialize_plugin(db'[m])
        PROVE  /\ db'[m].sha \in {0, disk'[m]["run"][2]}
               /\ registry_record_passes_thin_layer_trust(db'[m])
    <3>1. m = n /\ disk'[m]["run"] = <<kind, v>>
      BY <2>2, <2>3
    <3>2. m \in DOMAIN db
      BY <2>3 DEF SameEntries
    <3>3. Vouches(db'[m], <<kind, v>>)
      BY <1>2, <2>1, <3>1, <3>2
    <3>4. \E k \in {"bundle", "script"} : \E w :
            /\ <<kind, v>> = <<k, w>>
            /\ db'[m].sha \in {0, w} /\ registry_record_passes_thin_layer_trust(db'[m])
      BY <1>2, <2>1, <2>3, <3>3 DEF Vouches
    <3>5. PICK w : /\ \E k \in {"bundle", "script"} : <<kind, v>> = <<k, w>>
                   /\ db'[m].sha \in {0, w} /\ registry_record_passes_thin_layer_trust(db'[m])
      BY <3>4
    <3>6. w = v /\ disk'[m]["run"][2] = v
      BY <3>1, <3>5
    <3> QED
      BY <3>5, <3>6
  <2> QED
    BY <2>2, <2>3 DEF Vouched
<1> QED
  BY <1>1, <1>2

LEMMA LoadStep ==
    ASSUME TypeOK, DirectoriesWhole(disk), NEW name, NEW net \in BOOLEAN, NEW verdict,
           Load(name, net, verdict) \/ GetSecurityMetadata(name, net, verdict)
    PROVE  PayloadStep
<1> DEFINE env == Env(net)
<1>1. env \in Envs /\ IsDatabase(db) /\ proc \in Procs
  BY EnvType DEF TypeOK, Procs
<1>2. PICK resolved \in Names :
        LET prepared == PrepareLoad(resolved, env) IN
        /\ db' = prepared.db /\ cache' = prepared.env.cache
        /\ WriteDirectory(prepared.owner, prepared.what)
        /\ \/ proc' = Failed(proc, resolved)
           \/ \E records : proc' = Initialised(ensurePluginsDiscovered(proc, resolved, disk'),
                                               resolved, records, verdict)
           \/ \E records : proc' = ensurePluginConstructed(proc, resolved, records, verdict)
           \/ \E records : proc' = ensurePluginConstructed(
                                      ensurePluginsDiscovered(proc, resolved, disk'),
                                      resolved, records, verdict)
  BY DEF Load, GetSecurityMetadata
<1> DEFINE prepared == PrepareLoad(resolved, env)
<1> HIDE DEF env
<1>3. /\ SameEntries(db, prepared.db) /\ prepared.env \in Envs
      /\ prepared.what # Absent => /\ prepared.owner \in DOMAIN db
                                   /\ Vouches(prepared.db[prepared.owner], prepared.what)
  BY <1>1, PrepareFacts
<1> HIDE DEF prepared
<1>4. /\ SameEntries(db, db') /\ WriteDirectory(prepared.owner, prepared.what)
      /\ prepared.what # Absent => Vouches(db'[prepared.owner], prepared.what)
  BY <1>2, <1>3 DEF prepared
<1>5. DirectoriesWhole(disk') /\ \A n \in Names : Vouched(n)
  BY <1>4, VouchedWrite DEF Vouches
<1>6. cache' \in [Sources -> 0..MaxVersion]
  BY <1>2, <1>3 DEF prepared, Envs
<1>7. SameReady(proc, proc')
  <2>1. SameReady(proc, ensurePluginsDiscovered(proc, resolved, disk'))
    BY <1>1, ProcFacts
  <2> QED
    BY <1>1, <1>2, <2>1, ProcFacts, InitialisedFacts DEF SameReady
<1>8. faults' \in 0..MaxFaults /\ UNCHANGED <<commits, reachable, clone, lastCommit, content>>
  BY FaultCount DEF Load, GetSecurityMetadata, upstream
<1> QED
  BY <1>4, <1>5, <1>6, <1>7, <1>8 DEF PayloadStep, SameReady

LEMMA LoadDiesStep ==
    ASSUME TypeOK, DirectoriesWhole(disk), NEW name, LoadDies(name)
    PROVE  PayloadStep
<1> DEFINE env == Env(TRUE)
<1>1. env \in Envs /\ IsDatabase(db)
  BY EnvType DEF TypeOK
<1>2. PICK resolved \in Names :
        LET prepared == PrepareLoad(resolved, env) IN
        /\ db' = prepared.db /\ cache' = prepared.env.cache
        /\ prepared.what # Absent /\ WriteDies(prepared.owner, prepared.what)
  BY DEF LoadDies
<1> DEFINE prepared == PrepareLoad(resolved, env)
<1> HIDE DEF env
<1>3. /\ SameEntries(db, prepared.db) /\ prepared.env \in Envs
      /\ prepared.what # Absent => /\ prepared.owner \in DOMAIN db
                                   /\ Vouches(prepared.db[prepared.owner], prepared.what)
  BY <1>1, PrepareFacts
<1> HIDE DEF prepared
<1>4. /\ SameEntries(db, db') /\ prepared.what # Absent
      /\ WriteDies(prepared.owner, prepared.what) /\ Vouches(db'[prepared.owner], prepared.what)
  BY <1>2, <1>3 DEF prepared
<1>5. DirectoriesWhole(disk') /\ \A n \in Names : Vouched(n)
  BY <1>4, VouchedWrite DEF Vouches
<1>6. cache' \in [Sources -> 0..MaxVersion]
  BY <1>2, <1>3 DEF prepared, Envs
<1>7. /\ proc' = FreshProcess /\ faults' \in 0..MaxFaults
      /\ UNCHANGED <<commits, reachable, clone, lastCommit, content>>
  BY FaultCount DEF LoadDies, upstream
<1> QED
  BY <1>4, <1>5, <1>6, <1>7, FreshFacts DEF PayloadStep

(* A refresh that succeeds leads to a record that is known, and what is    *)
(* written of it is vouched for.                                           *)
LEMMA RefreshVouched ==
    ASSUME IsDatabase(db), NEW name, NEW env \in Envs
    PROVE  LET owner == ResolvedName(Known, name)
               after == refreshRecord(name, TRUE, env) IN
           /\ SameEntries(db, after.db) /\ after.env \in Envs
           /\ after.ok /\ registry_record_passes_thin_layer_trust(after.db[owner]) =>
                 Vouches(after.db[owner], materializePluginScript(after.db[owner], after.env))
<1> DEFINE owner == ResolvedName(Known, name)
           after == refreshRecord(name, TRUE, env)
<1>1. /\ SameEntries(db, after.db) /\ after.env \in Envs
      /\ after.ok /\ registry_record_can_materialize_plugin(after.db[owner]) =>
            registry_record_matches_expected_hashes(after.db[owner], after.env)
  BY RefreshRecordFacts
<1> HIDE DEF owner, after
<1> DEFINE r == after.db[owner]
<1> HIDE DEF r
<1>2. after.ok /\ registry_record_passes_thin_layer_trust(r) =>
         Vouches(r, materializePluginScript(r, after.env))
  BY <1>1, MaterializeVouched DEF r
<1> QED
  BY <1>1, <1>2 DEF r, owner, after

LEMMA RefreshStep ==
    ASSUME TypeOK, DirectoriesWhole(disk), NEW name, NEW net \in BOOLEAN, NEW verdict,
           RefreshWrapper(name, net, verdict)
    PROVE  PayloadStep
<1> DEFINE env == Env(net)
<1>1. env \in Envs /\ IsDatabase(db) /\ proc \in Procs
  BY EnvType DEF TypeOK, Procs
<1>2. PICK resolved \in Names :
        LET owner == ResolvedName(Known, resolved)
            after == refreshRecord(resolved, TRUE, env)
            what == materializePluginScript(after.db[owner], after.env)
            found == ensurePluginsDiscovered(Forgotten(proc, resolved), resolved, disk') IN
        /\ db' = after.db /\ cache' = after.env.cache
        /\ \/ UNCHANGED <<disk, proc>>
           \/ disk' = disk /\ proc' = Failed(proc, resolved)
           \/ /\ after.ok /\ registry_record_passes_thin_layer_trust(after.db[owner])
              /\ WriteDirectory(owner, what)
              /\ \/ proc' = found
                 \/ \E records : proc' = Initialised(found, resolved, records, verdict)
  BY DEF RefreshWrapper
<1> DEFINE owner == ResolvedName(Known, resolved)
           after == refreshRecord(resolved, TRUE, env)
           what == materializePluginScript(after.db[owner], after.env)
           found == ensurePluginsDiscovered(Forgotten(proc, resolved), resolved, disk')
<1>3. /\ SameEntries(db, after.db) /\ after.env \in Envs
      /\ after.ok /\ registry_record_passes_thin_layer_trust(after.db[owner]) =>
            Vouches(after.db[owner], what)
  BY <1>1, RefreshVouched
<1>4. found \in Procs /\ found.ready = proc.ready
  <2>1. Forgotten(proc, resolved) \in Procs /\ Forgotten(proc, resolved).ready = proc.ready
    BY <1>1, ProcFacts DEF SameReady
  <2> QED
    BY <2>1, ProcFacts DEF SameReady
<1>5. /\ db' = after.db /\ cache' = after.env.cache
      /\ \/ UNCHANGED <<disk, proc>>
         \/ disk' = disk /\ proc' = Failed(proc, resolved)
         \/ /\ after.ok /\ registry_record_passes_thin_layer_trust(after.db[owner])
            /\ WriteDirectory(owner, what)
            /\ \/ proc' = found
               \/ \E records : proc' = Initialised(found, resolved, records, verdict)
  BY <1>2
<1> HIDE DEF owner, after, what, found, env
<1>6. SameEntries(db, db') /\ cache' \in [Sources -> 0..MaxVersion]
  BY <1>3, <1>5 DEF Envs
<1>7. DirectoriesWhole(disk') /\ \A n \in Names : Vouched(n)
  <2>1. CASE disk' = disk
    BY <2>1 DEF Vouched
  <2>2. CASE WriteDirectory(owner, what) /\ Vouches(db'[owner], what)
    BY <1>6, <2>2, VouchedWrite DEF Vouches
  <2> QED
    BY <1>3, <1>5, <2>1, <2>2
<1>8. proc' \in Procs /\ proc'.ready = proc.ready
  BY <1>1, <1>4, <1>5, ProcFacts, InitialisedFacts DEF SameReady
<1>9. faults' \in 0..MaxFaults /\ UNCHANGED <<commits, reachable, clone, lastCommit, content>>
  BY FaultCount DEF RefreshWrapper, upstream
<1> QED
  BY <1>6, <1>7, <1>8, <1>9 DEF PayloadStep

LEMMA RefreshDiesStep ==
    ASSUME TypeOK, DirectoriesWhole(disk), NEW name, RefreshDies(name)
    PROVE  PayloadStep
<1> DEFINE env == Env(TRUE)
<1>1. env \in Envs /\ IsDatabase(db)
  BY EnvType DEF TypeOK
<1>2. PICK resolved \in Names :
        LET owner == ResolvedName(Known, resolved)
            after == refreshRecord(resolved, TRUE, env)
            what == materializePluginScript(after.db[owner], after.env) IN
        /\ db' = after.db /\ cache' = after.env.cache
        /\ after.ok /\ registry_record_passes_thin_layer_trust(after.db[owner])
        /\ what # Absent /\ WriteDies(owner, what)
  BY DEF RefreshDies
<1> DEFINE owner == ResolvedName(Known, resolved)
           after == refreshRecord(resolved, TRUE, env)
           what == materializePluginScript(after.db[owner], after.env)
<1>3. /\ SameEntries(db, after.db) /\ after.env \in Envs
      /\ after.ok /\ registry_record_passes_thin_layer_trust(after.db[owner]) =>
            Vouches(after.db[owner], what)
  BY <1>1, RefreshVouched
<1>4. /\ db' = after.db /\ cache' = after.env.cache
      /\ after.ok /\ registry_record_passes_thin_layer_trust(after.db[owner])
      /\ what # Absent /\ WriteDies(owner, what)
  BY <1>2
<1> HIDE DEF owner, after, what, env
<1>5. SameEntries(db, db') /\ cache' \in [Sources -> 0..MaxVersion]
  BY <1>3, <1>4 DEF Envs
<1>6. Vouches(db'[owner], what)
  BY <1>3, <1>4
<1>7. DirectoriesWhole(disk') /\ \A n \in Names : Vouched(n)
  BY <1>4, <1>5, <1>6, VouchedWrite DEF Vouches
<1>8. /\ proc' = FreshProcess /\ faults' \in 0..MaxFaults
      /\ UNCHANGED <<commits, reachable, clone, lastCommit, content>>
  BY FaultCount DEF RefreshDies, upstream
<1> QED
  BY <1>5, <1>7, <1>8, FreshFacts DEF PayloadStep

LEMMA DownloadStep ==
    ASSUME TypeOK, DirectoriesWhole(disk), NEW name, NEW net \in BOOLEAN,
           Download(name, net) \/ DownloadDies(name)
    PROVE  PayloadStep
<1>1. PICK online \in BOOLEAN :
        LET after == downloadPlugin(name, Env(online)) IN
        /\ db' = after.db /\ cache' = after.env.cache
        /\ \/ WriteDirectory(DownloadName(name), after.what)
           \/ after.ok /\ WriteDies(DownloadName(name), after.what)
  BY DEF Download, DownloadDies
<1> DEFINE env == Env(online)
           after == downloadPlugin(name, env)
           n == DownloadName(name)
<1>2. env \in Envs /\ IsDatabase(db) /\ proc \in Procs
  BY EnvType DEF TypeOK, Procs
<1>3. /\ db' = after.db /\ cache' = after.env.cache
      /\ WriteDirectory(n, after.what) \/ (after.ok /\ WriteDies(n, after.what))
  BY <1>1
<1> HIDE DEF env
<1>4. /\ SameEntries(db, after.db) /\ after.env \in Envs
      /\ after.ok => after.what # Absent
      /\ after.what # Absent =>
            /\ \E kind \in {"bundle", "script"} : \E v : after.what = <<kind, v>>
            /\ n \in DOMAIN db => Vouches(after.db[n], after.what)
  BY <1>2, DownloadFacts
<1> HIDE DEF after, n
<1>5. SameEntries(db, db') /\ cache' \in [Sources -> 0..MaxVersion]
  BY <1>3, <1>4 DEF Envs
<1>6. DirectoriesWhole(disk') /\ \A m \in Names : Vouched(m)
  BY <1>3, <1>4, <1>5, VouchedWrite
<1>7. proc' \in Procs /\ (proc'.ready => proc.ready)
  <2> DEFINE resolved == resolvePluginName(Known, name)
  <2>1. \/ proc' = FreshProcess \/ proc' = proc
        \/ proc' = ensurePluginsDiscovered(proc, resolved, disk')
    BY DEF Download, DownloadDies
  <2> HIDE DEF resolved
  <2>2. CASE resolved \in Names
    BY <1>2, <2>1, <2>2, ProcFacts, FreshFacts DEF SameReady
  <2>3. CASE resolved \notin Names
    BY <1>2, <2>1, <2>3, FreshFacts DEF ensurePluginsDiscovered
  <2> QED
    BY <2>2, <2>3
<1>8. faults' \in 0..MaxFaults /\ UNCHANGED <<commits, reachable, clone, lastCommit, content>>
  BY FaultCount DEF Download, DownloadDies, upstream
<1> QED
  BY <1>5, <1>6, <1>7, <1>8 DEF PayloadStep

LEMMA PluginStep ==
    ASSUME TypeOK, DirectoriesWhole(disk), NEW name,
           \/ \E dies \in BOOLEAN : RemovePlugin(name, dies)
           \/ \E verdict : GetPlugin(name, verdict)
           \/ Exit
    PROVE  PayloadStep
<1>1. IsDatabase(db) /\ proc \in Procs /\ cache \in [Sources -> 0..MaxVersion]
      /\ faults \in 0..MaxFaults
  BY DEF TypeOK, Procs
<1>2. db' = db /\ cache' = cache /\ UNCHANGED <<commits, reachable, clone, lastCommit, content>>
  BY DEF RemovePlugin, GetPlugin, Exit, upstream
<1>3. SameEntries(db, db')
  BY <1>1, <1>2, SameEntriesReflexive
<1>4. ASSUME NEW dies \in BOOLEAN, RemovePlugin(name, dies)
      PROVE  PayloadStep
  <2> DEFINE resolved == resolvePluginName(Known, name)
  <2>1. resolved \in Names /\ \E S : disk' = [disk EXCEPT ![resolved] = Left(disk[resolved], S)]
    BY <1>4 DEF RemovePlugin, Left
  <2>2. proc' = FreshProcess \/ proc' = Forgotten(proc, resolved)
    BY <1>4 DEF RemovePlugin
  <2>3. faults' \in 0..MaxFaults
    <3>1. dies => faults < MaxFaults
      BY <1>4 DEF RemovePlugin
    <3>2. CASE dies
      BY <1>4, <3>1, <3>2, FaultCount DEF RemovePlugin
    <3>3. CASE ~dies
      <4>1. faults' = faults + 0
        BY <1>4, <3>3 DEF RemovePlugin
      <4>2. MaxFaults \in Nat
        BY RegistryAssumption
      <4> QED
        BY <1>1, <4>1, <4>2
    <3> QED
      BY <3>2, <3>3
  <2> HIDE DEF resolved
  <2>4. PICK S : disk' = [disk EXCEPT ![resolved] = Left(disk[resolved], S)]
    BY <2>1
  <2> DEFINE rest == Left(disk[resolved], S)
  <2>5. IsDirectory(disk[resolved]) /\ OneBundle(disk[resolved])
    BY <2>1 DEF DirectoriesWhole
  <2>6. IsDirectory(rest) /\ OneBundle(rest) /\ rest["run"] \in {Absent, disk[resolved]["run"]}
    BY <2>5, LeftFacts
  <2>7. disk' = [disk EXCEPT ![resolved] = rest]
    BY <2>4
  <2> HIDE DEF rest
  <2>8. /\ DirectoriesWhole(disk')
        /\ \A m \in Names : m # resolved => disk'[m] = disk[m]
        /\ disk'[resolved] = rest
    BY <2>1, <2>6, <2>7, OneDirectory
  <2>9. \A m \in Names : Vouched(m)
    BY <2>6, <2>8 DEF Vouched
  <2>10. proc' \in Procs /\ (proc'.ready => proc.ready)
    BY <1>1, <2>1, <2>2, ProcFacts, FreshFacts DEF SameReady
  <2> QED
    BY <1>1, <1>2, <1>3, <2>3, <2>8, <2>9, <2>10 DEF PayloadStep
<1>5. ASSUME NEW verdict, GetPlugin(name, verdict)
      PROVE  PayloadStep
  <2>1. disk' = disk /\ faults' = faults /\ \A n \in Names : Vouched(n)
    BY <1>5 DEF GetPlugin, Vouched
  <2>2. PICK resolved \in Names : proc' = ensurePluginConstructed(proc, resolved, Known, verdict)
    BY <1>5 DEF GetPlugin
  <2>3. proc' \in Procs /\ proc'.ready = proc.ready
    BY <1>1, <2>2, ProcFacts DEF SameReady
  <2> QED
    BY <1>1, <1>2, <1>3, <2>1, <2>3 DEF PayloadStep
<1>6. CASE Exit
  <2>1. disk' = disk /\ faults' = faults /\ proc' = FreshProcess /\ \A n \in Names : Vouched(n)
    BY <1>6 DEF Exit, Vouched
  <2> QED
    BY <1>1, <1>2, <1>3, <2>1, FreshFacts DEF PayloadStep
<1> QED
  BY <1>4, <1>5, <1>6

-----------------------------------------------------------------------------
(* Synchronising.                                                          *)

(* What a file says belongs to the file.                                   *)
LEMMA ParsedFile ==
    ASSUME NEW file, NEW doc, NEW n \in DOMAIN parse_registry_json_file(file, doc)
    PROVE  LET r == parse_registry_json_file(file, doc)[n] IN IsRecord(r) /\ r.origin = file
<1> DEFINE aliases == build_alias_records(file, doc)
           main == build_main_record(file, doc)
           r == parse_registry_json_file(file, doc)[n]
<1>1. IsRecord(main) /\ main.origin = file
  BY DEF build_main_record, Entry, IsRecord
<1>2. \A a \in DOMAIN aliases : IsRecord(aliases[a]) /\ aliases[a].origin = file
  BY DEF build_alias_records, Entry, IsRecord
<1>3. IF n \in DOMAIN aliases THEN r = aliases[n] ELSE r = main
  BY DEF parse_registry_json_file, Over
<1> HIDE DEF aliases, main, r
<1> QED
  BY <1>1, <1>2, <1>3 DEF r

(* The records of several files of a tree: each name has one file.         *)
LEMMA ParsedFiles ==
    ASSUME NEW tree \in Trees, NEW files \in SUBSET DOMAIN tree
    PROVE  LET said == ParseFiles(tree, files) IN
           /\ IsDatabase(said)
           /\ \A n : n \in DOMAIN said <=>
                        \E f \in files : n \in DOMAIN parse_registry_json_file(f, tree[f])
           /\ \A f \in files : \A n \in DOMAIN parse_registry_json_file(f, tree[f]) :
                 said[n] = parse_registry_json_file(f, tree[f])[n]
<1> DEFINE parsed == [f \in files |-> parse_registry_json_file(f, tree[f])]
           claimed == UNION {DOMAIN parsed[f] : f \in files}
           said == ParseFiles(tree, files)
<1>1. said = [n \in claimed |-> parsed[CHOOSE f \in files : n \in DOMAIN parsed[f]][n]]
  BY DEF ParseFiles
<1>2. \A f \in files : parsed[f] = parse_registry_json_file(f, tree[f])
  OBVIOUS
<1>3. \A f, g \in files : f = g \/ DOMAIN parsed[f] \cap DOMAIN parsed[g] = {}
  BY <1>2, UniqueNames
<1>4. \A f \in files : \A n \in DOMAIN parsed[f] : IsRecord(parsed[f][n])
  BY <1>2, ParsedFile
<1> HIDE DEF parsed, said
<1>5. \A n : n \in claimed <=> \E f \in files : n \in DOMAIN parsed[f]
  BY Zenon
<1> HIDE DEF claimed
<1>6. ASSUME NEW f \in files, NEW n \in DOMAIN parsed[f]
      PROVE  n \in DOMAIN said /\ said[n] = parsed[f][n]
  <2> DEFINE g == CHOOSE x \in files : n \in DOMAIN parsed[x]
  <2>1. g \in files /\ n \in DOMAIN parsed[g]
    OBVIOUS
  <2>2. n \in claimed
    BY <1>5
  <2>3. n \in DOMAIN said /\ said[n] = parsed[g][n]
    BY <1>1, <2>2
  <2> HIDE DEF g
  <2>4. g = f
    BY <1>3, <2>1
  <2> QED
    BY <2>3, <2>4
<1>7. DOMAIN said = claimed /\ said = [n \in DOMAIN said |-> said[n]]
  BY <1>1
<1>8. IsDatabase(said)
  BY <1>4, <1>5, <1>6, <1>7 DEF IsDatabase
<1> QED
  BY <1>2, <1>5, <1>6, <1>7, <1>8 DEF said

(* One transaction of sync_records.                                        *)
Synced(new, old, records, replaceMissing, deleted) ==
    /\ IsDatabase(new)
    /\ \A n : n \in DOMAIN new <=>
          \/ n \in DOMAIN records
          \/ n \in DOMAIN old /\ ~replaceMissing /\ old[n].origin \notin deleted
    /\ \A n \in DOMAIN records : Restates(new[n], records[n])
    /\ \A n \in DOMAIN new \ DOMAIN records : new[n] = old[n]

LEMMA SyncedRecords ==
    ASSUME NEW old, IsDatabase(old), NEW records, IsDatabase(records),
           NEW replaceMissing \in BOOLEAN, NEW deleted, NEW env
    PROVE  Synced(sync_records(old, records, replaceMissing, deleted, env),
                  old, records, replaceMissing, deleted)
<1> DEFINE gone == {n \in DOMAIN old : \/ replaceMissing /\ n \notin DOMAIN records
                                       \/ old[n].origin \in deleted}
           written == [n \in DOMAIN records |->
                          desired_record(n, records[n], old, FALSE, env).record]
           rest == [n \in DOMAIN old \ gone |-> old[n]]
           new == sync_records(old, records, replaceMissing, deleted, env)
<1>1. new = [n \in DOMAIN written \cup DOMAIN rest |->
                IF n \in DOMAIN written THEN written[n] ELSE rest[n]]
  BY DEF sync_records, Over
<1>2. ASSUME NEW n \in DOMAIN records
      PROVE  IsRecord(written[n]) /\ Restates(written[n], records[n])
  <2> DEFINE r == records[n]
             fetch == FALSE
             after == desired_record(n, r, old, fetch, env).record
  <2>1. IsRecord(r) /\ written[n] = after
    BY DEF IsDatabase
  <2> HIDE DEF r, fetch
  <2>2. Restates(after, r)
    BY <2>1, DesiredRecord
  <2> HIDE DEF after, written
  <2> QED
    BY <2>1, <2>2 DEF r, Restates
<1>3. DOMAIN written = DOMAIN records /\ DOMAIN rest = DOMAIN old \ gone
      /\ \A n \in DOMAIN rest : rest[n] = old[n] /\ IsRecord(rest[n])
  BY DEF IsDatabase
<1> HIDE DEF written, rest, new
<1>4. \A n : n \in DOMAIN new <=> n \in DOMAIN records \/ n \in DOMAIN old \ gone
  BY <1>1, <1>3
<1>5. \A n \in DOMAIN new : new[n] = IF n \in DOMAIN records THEN written[n] ELSE old[n]
  BY <1>1, <1>3
<1>6. IsDatabase(new)
  <2>1. new = [n \in DOMAIN new |-> new[n]]
    BY <1>1
  <2> QED
    BY <1>2, <1>3, <1>4, <1>5, <2>1 DEF IsDatabase
<1> QED
  BY <1>2, <1>4, <1>5, <1>6 DEF new, Synced

(* write_records: the explicit sources over what is there.                 *)
LEMMA DesiredEnv ==
    ASSUME NEW name, NEW r, NEW old, NEW fetchPayloads, NEW env \in Envs
    PROVE  desired_record(name, r, old, fetchPayloads, env).env \in Envs
<1> DEFINE trusted == Trusted(Located(IF name \in DOMAIN old THEN Inherit(r, old[name])
                                      ELSE r, env))
           fetched == Refetched(trusted, fetchPayloads, env)
<1>1. desired_record(name, r, old, fetchPayloads, env).env = fetched.env
  BY DEF desired_record, Expected
<1> HIDE DEF trusted
<1>2. fetched.env = env \/ \E source : fetched.env = AfterFetch(source, env)
  BY DEF Refetched, FetchFrom, Fetched
<1> QED
  BY <1>1, <1>2, AfterFetchType

LEMMA WrittenRecords ==
    ASSUME NEW old, IsDatabase(old), NEW env \in Envs
    PROVE  LET after == write_records(old, env) IN
           /\ IsDatabase(after.db) /\ after.env \in Envs
           /\ DOMAIN after.db = DOMAIN Explicit \cup DOMAIN old
           /\ \A n \in DOMAIN Explicit : after.db[n].source = Explicit[n].source
           /\ \A n \in DOMAIN old \ DOMAIN Explicit : after.db[n] = old[n]
<1> DEFINE desired(n) == desired_record(n, Explicit[n], old, TRUE, env)
           written == [n \in DOMAIN Explicit |-> desired(n)]
           over == [n \in DOMAIN Explicit |-> written[n].record]
           after == write_records(old, env)
<1>1. ASSUME NEW n \in DOMAIN Explicit
      PROVE  /\ IsRecord(desired(n).record) /\ desired(n).record.source = Explicit[n].source
             /\ desired(n).env \in Envs
  <2> DEFINE r == Explicit[n]
             fetch == TRUE
             result == desired_record(n, r, old, fetch, env)
  <2>1. IsRecord(r)
    BY RegistryAssumption DEF IsDatabase
  <2> HIDE DEF r, fetch
  <2>2. Restates(result.record, r)
    BY <2>1, DesiredRecord
  <2>3. result.env \in Envs
    BY DesiredEnv
  <2> QED
    BY <2>2, <2>3 DEF r, fetch, Restates
<1>2. after = Overlaid(written, old, env)
  BY DEF write_records
<1> HIDE DEF desired
<1>3. \A n \in DOMAIN Explicit :
         /\ IsRecord(written[n].record) /\ written[n].record.source = Explicit[n].source
         /\ written[n].env \in Envs
  BY <1>1
<1> HIDE DEF written, after
<1>4. after.db = [n \in DOMAIN Explicit \cup DOMAIN old |->
                     IF n \in DOMAIN Explicit THEN written[n].record ELSE old[n]]
  BY <1>2 DEF Overlaid, Over
<1>5. IsDatabase(after.db)
  BY <1>3, <1>4 DEF IsDatabase
<1>6. after.env \in Envs
  <2>1. CASE \A n \in DOMAIN Explicit : written[n].env = env
    BY <1>2, <2>1 DEF Overlaid
  <2>2. CASE ~ \A n \in DOMAIN Explicit : written[n].env = env
    <3> DEFINE m == CHOOSE n \in DOMAIN Explicit : written[n].env # env
    <3>1. m \in DOMAIN Explicit
      BY <2>2
    <3>2. after.env = written[m].env
      BY <1>2, <2>2 DEF Overlaid
    <3> HIDE DEF m
    <3> QED
      BY <1>3, <3>1, <3>2
  <2> QED
    BY <2>1, <2>2
<1> QED
  BY <1>3, <1>4, <1>5, <1>6 DEF after

(* What a database has to say to mirror a tree, file by file.              *)
Said(tree, f) == parse_registry_json_file(f, tree[f])

SameFacts(a, b) == a.source = b.source /\ a.of = b.of /\ a.alias = b.alias /\ a.origin = b.origin

Mirrors(d, tree) ==
    \A n : n \notin DOMAIN Explicit =>
        /\ n \in DOMAIN d <=> \E f \in DOMAIN tree : n \in DOMAIN Said(tree, f)
        /\ \A f \in DOMAIN tree : n \in DOMAIN Said(tree, f) => SameFacts(d[n], Said(tree, f)[n])

(* What a file says restated is what the file says.                        *)
LEMMA RestatedFacts ==
    ASSUME NEW tree \in Trees, NEW f \in DOMAIN tree, NEW n \in DOMAIN Said(tree, f),
           NEW r, Restates(r, Said(tree, f)[n])
    PROVE  SameFacts(r, Said(tree, f)[n])
<1> DEFINE said == Said(tree, f)[n]
<1>1. said.origin = f /\ f # ""
  BY ParsedFile, RegistryAssumption DEF Said
<1> HIDE DEF said
<1>2. Restates(r, said) => SameFacts(r, said)
  BY <1>1 DEF Restates, SameFacts
<1> QED
  BY <1>2 DEF said

(* A synchronisation from all files.                                       *)
LEMMA FullSync ==
    ASSUME NEW tree \in Trees, NEW old, IsDatabase(old), NEW env
    PROVE  LET new == sync_records(old, ParseFiles(tree, DOMAIN tree), TRUE, {}, env)
           IN  IsDatabase(new) /\ Mirrors(new, tree)
<1> DEFINE records == ParseFiles(tree, DOMAIN tree)
           new == sync_records(old, records, TRUE, {}, env)
<1>1. /\ IsDatabase(records)
      /\ \A n : n \in DOMAIN records <=> \E f \in DOMAIN tree : n \in DOMAIN Said(tree, f)
      /\ \A f \in DOMAIN tree : \A n \in DOMAIN Said(tree, f) : records[n] = Said(tree, f)[n]
  BY ParsedFiles DEF Said
<1> HIDE DEF records
<1>2. /\ IsDatabase(new)
      /\ \A n : n \in DOMAIN new <=> n \in DOMAIN records
      /\ \A n \in DOMAIN records : Restates(new[n], records[n])
  <2>1. Synced(new, old, records, TRUE, {})
    BY <1>1, SyncedRecords
  <2> QED
    BY <2>1 DEF Synced
<1> HIDE DEF new
<1>3. ASSUME NEW f \in DOMAIN tree, NEW n \in DOMAIN Said(tree, f)
      PROVE  SameFacts(new[n], Said(tree, f)[n])
  <2>1. Restates(new[n], Said(tree, f)[n])
    BY <1>1, <1>2
  <2> QED
    BY <2>1, RestatedFacts
<1>4. Mirrors(new, tree)
  BY <1>1, <1>2, <1>3 DEF Mirrors
<1> QED
  BY <1>2, <1>4 DEF new, records

(* A synchronisation from the difference between two trees.                *)
LEMMA DiffSync ==
    ASSUME NEW before \in Trees, NEW tree \in Trees, NEW old, IsDatabase(old),
           Mirrors(old, before), NEW diff, NEW env,
           \A f : f \in diff <=> /\ f \in DOMAIN before \cup DOMAIN tree
                                 /\ \/ f \notin DOMAIN before \/ f \notin DOMAIN tree
                                    \/ before[f] # tree[f]
    PROVE  LET new == sync_records(old, ParseFiles(tree, diff \cap DOMAIN tree), FALSE, diff, env)
           IN  IsDatabase(new) /\ Mirrors(new, tree)
<1> DEFINE changed == diff \cap DOMAIN tree
           records == ParseFiles(tree, changed)
           new == sync_records(old, records, FALSE, diff, env)
<1>1. /\ IsDatabase(records)
      /\ \A n : n \in DOMAIN records <=> \E f \in changed : n \in DOMAIN Said(tree, f)
      /\ \A f \in changed : \A n \in DOMAIN Said(tree, f) : records[n] = Said(tree, f)[n]
  BY ParsedFiles DEF Said
<1> HIDE DEF records
<1>2. /\ IsDatabase(new)
      /\ \A n : n \in DOMAIN new <=>
            n \in DOMAIN records \/ (n \in DOMAIN old /\ old[n].origin \notin diff)
      /\ \A n \in DOMAIN records : Restates(new[n], records[n])
      /\ \A n \in DOMAIN new \ DOMAIN records : new[n] = old[n]
  <2>1. Synced(new, old, records, FALSE, diff)
    BY <1>1, SyncedRecords
  <2> HIDE DEF new
  <2> QED
    BY <2>1 DEF Synced
<1> HIDE DEF new
<1>3. \A f \in DOMAIN tree : f \notin diff =>
          f \in DOMAIN before /\ before[f] = tree[f] /\ Said(before, f) = Said(tree, f)
  BY DEF Said
<1>4. \A f \in DOMAIN before : f \notin diff => f \in DOMAIN tree
  OBVIOUS
<1>5. ASSUME NEW f \in DOMAIN before, NEW n \in DOMAIN Said(before, f), n \notin DOMAIN Explicit
      PROVE  n \in DOMAIN old /\ SameFacts(old[n], Said(before, f)[n]) /\ old[n].origin = f
  <2>1. n \in DOMAIN old /\ SameFacts(old[n], Said(before, f)[n])
    BY <1>5 DEF Mirrors
  <2>2. Said(before, f)[n].origin = f
    BY ParsedFile DEF Said
  <2> QED
    BY <2>1, <2>2 DEF SameFacts
<1>6. ASSUME NEW n, n \notin DOMAIN Explicit, n \in DOMAIN new
      PROVE  \E f \in DOMAIN tree : n \in DOMAIN Said(tree, f)
  <2>1. CASE n \in DOMAIN records
    BY <1>1, <2>1
  <2>2. CASE n \in DOMAIN old /\ old[n].origin \notin diff
    <3>1. PICK f \in DOMAIN before : n \in DOMAIN Said(before, f)
      BY <1>6, <2>2 DEF Mirrors
    <3>2. f \notin diff
      BY <1>5, <1>6, <2>2, <3>1
    <3>3. f \in DOMAIN tree /\ Said(before, f) = Said(tree, f)
      BY <1>3, <1>4, <3>2
    <3> QED
      BY <3>1, <3>3
  <2> QED
    BY <1>2, <1>6, <2>1, <2>2
<1>7. ASSUME NEW f \in DOMAIN tree, NEW n \in DOMAIN Said(tree, f), n \notin DOMAIN Explicit
      PROVE  n \in DOMAIN new /\ SameFacts(new[n], Said(tree, f)[n])
  <2>1. CASE f \in diff
    <3>1. n \in DOMAIN records /\ records[n] = Said(tree, f)[n]
      BY <1>1, <2>1
    <3>2. n \in DOMAIN new /\ Restates(new[n], Said(tree, f)[n])
      BY <1>2, <3>1
    <3> QED
      BY <3>2, RestatedFacts
  <2>2. CASE f \notin diff
    <3>1. f \in DOMAIN before /\ Said(before, f) = Said(tree, f)
      BY <1>3, <2>2
    <3>2. n \in DOMAIN old /\ SameFacts(old[n], Said(tree, f)[n]) /\ old[n].origin = f
      BY <1>5, <1>7, <3>1
    <3>3. n \notin DOMAIN records
      <4> SUFFICES ASSUME n \in DOMAIN records PROVE FALSE
        OBVIOUS
      <4>1. PICK g \in changed : n \in DOMAIN Said(tree, g)
        BY <1>1
      <4>2. g # f
        BY <2>2, <4>1
      <4> QED
        BY <4>1, <4>2, UniqueNames DEF Said
    <3>4. n \in DOMAIN new /\ new[n] = old[n]
      BY <1>2, <2>2, <3>2, <3>3
    <3> QED
      BY <3>2, <3>4
  <2> QED
    BY <2>1, <2>2
<1>8. Mirrors(new, tree)
  BY <1>6, <1>7 DEF Mirrors
<1> QED
  BY <1>2, <1>8 DEF new, records

(* The database mirrors the tree of the commit it is at.                   *)
Mirrored == lastCommit # 0 => Mirrors(db, commits[lastCommit])

LEMMA TreesCommitted ==
    ASSUME TypeOK
    PROVE  /\ head \in Nat \ {0} /\ \A c \in 1..head : commits[c] \in Trees
           /\ commits[head] \in Trees
BY DEF TypeOK, head

(* sync_git_repository leaves a clone at the head, remains of one, or      *)
(* nothing.                                                                *)
Clones == [state : {"none", "ok", "partial"}, head : Nat, objects : SUBSET (1..head)]

LEMMA GitSync ==
    ASSUME TypeOK, NEW outcome \in {"ok", "reclone", "fail", "cut"}
    PROVE  LET repository == sync_git_repository(outcome) IN
           /\ repository \in Clones
           /\ repository.state = "ok" => repository.head = head
           /\ outcome = "ok" => repository.state = "ok"
<1> DEFINE repository == sync_git_repository(outcome)
           fresh == [state |-> "ok", head |-> head, objects |-> reachable]
           more == clone.objects \cup reachable
           fetched == [clone EXCEPT !.head = head, !.objects = more]
<1>1. clone \in Clones /\ reachable \in SUBSET (1..head) /\ head \in Nat
  BY TreesCommitted DEF TypeOK, Clones
<1>2. fresh \in Clones /\ fresh.state = "ok" /\ fresh.head = head
  BY <1>1 DEF Clones
<1>3. NoClone \in Clones /\ NoClone.state = "none"
  BY DEF NoClone, Clones
<1>4. [NoClone EXCEPT !.state = "partial"] \in Clones
      /\ [NoClone EXCEPT !.state = "partial"].state = "partial"
  BY DEF NoClone, Clones
<1>5. more \in SUBSET (1..head)
  BY <1>1 DEF Clones
<1>6. clone.state = "ok" => fetched \in Clones /\ fetched.state = "ok" /\ fetched.head = head
  <2> HIDE DEF more
  <2> QED
    BY <1>1, <1>5 DEF Clones
<1>7. CASE outcome = "ok" /\ clone.state = "ok"
  <2>1. repository = fetched
    BY <1>7 DEF sync_git_repository
  <2> HIDE DEF repository, fetched
  <2> QED
    BY <1>6, <1>7, <2>1 DEF repository
<1>8. CASE outcome = "reclone" \/ (outcome = "ok" /\ clone.state # "ok")
  <2>1. repository = fresh
    BY <1>8 DEF sync_git_repository
  <2> HIDE DEF repository, fresh
  <2> QED
    BY <1>2, <1>8, <2>1 DEF repository
<1>9. CASE outcome = "fail"
  <2>1. repository = NoClone
    BY <1>9 DEF sync_git_repository
  <2> QED
    BY <1>3, <1>9, <2>1
<1>10. CASE outcome = "cut"
  <2>1. repository = [NoClone EXCEPT !.state = "partial"]
    BY <1>10 DEF sync_git_repository
  <2> QED
    BY <1>4, <1>10, <2>1
<1> QED
  BY <1>7, <1>8, <1>9, <1>10

(* The main registry after it: at a commit whose documents it mirrors, and *)
(* at the head when the clone is there and the documents parse.            *)
MainSynced(main) ==
    /\ IsDatabase(main.db) /\ main.last \in 0..head
    /\ main.last # 0 => Mirrors(main.db, commits[main.last])

LEMMA MainSync ==
    ASSUME TypeOK, Mirrored, NEW repository \in Clones, NEW env,
           repository.state = "ok" => repository.head = head
    PROVE  LET main == sync_main_registry(repository, env) IN
           /\ MainSynced(main)
           /\ repository.state = "ok" /\ Valid(commits[head]) => main.last = head
<1> DEFINE tree == commits[head]
           diff == git_registry_diff(lastCommit, head)
           full == sync_records(db, ParseFiles(tree, DOMAIN tree), TRUE, {}, env)
           part == sync_records(db, ParseFiles(tree, diff \cap DOMAIN tree), FALSE, diff, env)
           main == sync_main_registry(repository, env)
           asBefore == [db |-> db, last |-> lastCommit]
<1>1. IsDatabase(db) /\ lastCommit \in 0..head /\ head \in Nat \ {0} /\ tree \in Trees
  BY TreesCommitted DEF TypeOK
<1>2. MainSynced(asBefore) /\ asBefore.last = lastCommit
  BY <1>1 DEF MainSynced, Mirrored
<1>3. MainSynced([db |-> full, last |-> head])
  <2>1. IsDatabase(full) /\ Mirrors(full, tree)
    BY <1>1, FullSync
  <2> HIDE DEF full
  <2> QED
    BY <1>1, <2>1 DEF MainSynced
<1>4. ASSUME lastCommit # 0 PROVE MainSynced([db |-> part, last |-> head])
  <2> DEFINE before == commits[lastCommit]
  <2>1. before \in Trees /\ Mirrors(db, before)
    BY <1>1, <1>4, TreesCommitted DEF Mirrored
  <2>2. \A f : f \in diff <=> /\ f \in DOMAIN before \cup DOMAIN tree
                              /\ \/ f \notin DOMAIN before \/ f \notin DOMAIN tree
                                 \/ before[f] # tree[f]
    BY DEF git_registry_diff
  <2> HIDE DEF before, diff, tree
  <2>3. IsDatabase(part) /\ Mirrors(part, tree)
    BY <1>1, <2>1, <2>2, DiffSync
  <2> HIDE DEF part
  <2> QED
    BY <1>1, <2>3 DEF MainSynced, tree
<1>5. CASE repository.state # "ok"
  <2>1. main = asBefore
    BY <1>5 DEF sync_main_registry
  <2> QED
    BY <1>2, <1>5, <2>1
<1>6. CASE repository.state = "ok" /\ lastCommit \notin repository.objects
  <2>1. main = IF Valid(tree) THEN [db |-> full, last |-> head] ELSE asBefore
    BY <1>6 DEF sync_main_registry
  <2> HIDE DEF full, main, asBefore
  <2>2. CASE Valid(tree)
    BY <1>3, <2>1, <2>2 DEF main
  <2>3. CASE ~Valid(tree)
    BY <1>2, <2>1, <2>3 DEF main
  <2> QED
    BY <2>2, <2>3
<1>7. CASE repository.state = "ok" /\ lastCommit \in repository.objects /\ lastCommit = head
  <2>1. main = asBefore
    BY <1>7 DEF sync_main_registry
  <2> QED
    BY <1>2, <1>7, <2>1
<1>8. CASE repository.state = "ok" /\ lastCommit \in repository.objects /\ lastCommit # head
  <2>1. main = IF \A f \in diff \cap DOMAIN tree : tree[f].ok
               THEN [db |-> part, last |-> head] ELSE asBefore
    BY <1>8 DEF sync_main_registry, DiffDeletes
  <2>2. lastCommit # 0
    BY <1>1, <1>8 DEF Clones
  <2>3. Valid(tree) => \A f \in diff \cap DOMAIN tree : tree[f].ok
    BY DEF Valid
  <2> HIDE DEF part, diff, main, asBefore, tree
  <2>4. CASE \A f \in diff \cap DOMAIN tree : tree[f].ok
    BY <1>4, <2>1, <2>2, <2>4 DEF main
  <2>5. CASE ~ \A f \in diff \cap DOMAIN tree : tree[f].ok
    BY <1>2, <2>1, <2>3, <2>5 DEF main, tree
  <2> QED
    BY <2>4, <2>5
<1> QED
  BY <1>5, <1>6, <1>7, <1>8

-----------------------------------------------------------------------------
(* The invariant.                                                          *)

RegistryInv == TypeOK /\ DirectoriesWhole(disk) /\ ExplicitWins /\ Mirrored

LEMMA PayloadInv ==
    ASSUME RegistryInv, PayloadStep
    PROVE  RegistryInv'
<1>1. TypeOK'
  BY DEF RegistryInv, PayloadStep, TypeOK, SameEntries, head, Procs, DirectoriesWhole, IsDirectory
<1>2. ExplicitWins'
  BY DEF RegistryInv, PayloadStep, ExplicitWins, SameEntries, SameEntry
<1>3. Mirrored'
  BY DEF RegistryInv, PayloadStep, Mirrored, Mirrors, SameEntries, SameEntry, SameFacts
<1> QED
  BY <1>1, <1>2, <1>3 DEF RegistryInv, PayloadStep

(* The world outside.                                                      *)
LEMMA UpstreamStep ==
    ASSUME RegistryInv, NEW tree \in Trees, Push(tree) \/ ForcePush(tree)
    PROVE  RegistryInv'
<1>1. /\ commits' = Append(commits, tree)
      /\ reachable' = reachable \cup {head + 1} \/ reachable' = (reachable \ {head}) \cup {head + 1}
      /\ UNCHANGED <<local, content, faults>>
  BY DEF Push, ForcePush
<1>2. commits \in Seq(Trees) /\ reachable \in SUBSET (1..head) /\ lastCommit \in 0..head
  BY DEF RegistryInv, TypeOK
<1>3. /\ commits' \in Seq(Trees) /\ commits' # <<>> /\ head' = head + 1 /\ head \in Nat
      /\ \A c \in 1..head : commits'[c] = commits[c]
  <2>1. Append(commits, tree) \in Seq(Trees) /\ Len(Append(commits, tree)) = Len(commits) + 1
        /\ Len(commits) \in Nat /\ \A c \in 1..Len(commits) : Append(commits, tree)[c] = commits[c]
    BY <1>2
  <2>2. head' = head + 1 /\ head \in Nat
    BY <1>1, <2>1 DEF head
  <2>3. commits' # <<>>
    BY <1>1, <1>2
  <2>4. \A c \in 1..head : commits'[c] = commits[c]
    BY <1>1, <2>1 DEF head
  <2> QED
    BY <1>1, <2>1, <2>2, <2>3, <2>4
<1>4. reachable' \in SUBSET (1..head') /\ lastCommit \in 0..head'
  <2>1. 1..head \subseteq 1..(head + 1) /\ head + 1 \in 1..(head + 1) /\ 0..head \subseteq 0..(head + 1)
    BY <1>3
  <2>2. CASE reachable' = reachable \cup {head + 1}
    BY <1>2, <1>3, <2>1, <2>2
  <2>3. CASE reachable' = (reachable \ {head}) \cup {head + 1}
    BY <1>2, <1>3, <2>1, <2>3
  <2> QED
    BY <1>1, <2>2, <2>3
<1>5. clone' \in [state : {"none", "ok", "partial"}, head : Nat, objects : SUBSET (1..head')]
  <2>1. clone \in [state : {"none", "ok", "partial"}, head : Nat, objects : SUBSET (1..head)]
    BY DEF RegistryInv, TypeOK
  <2>2. \A S \in SUBSET (1..head) : S \in SUBSET (1..head')
    BY <1>3
  <2> QED
    BY <1>1, <2>1, <2>2 DEF local
<1>6. TypeOK'
  BY <1>1, <1>3, <1>4, <1>5 DEF RegistryInv, TypeOK, local
<1>7. Mirrored'
  <2>1. lastCommit' = lastCommit /\ db' = db
    BY <1>1 DEF local
  <2>2. lastCommit # 0 => commits'[lastCommit] = commits[lastCommit]
    BY <1>2, <1>3
  <2> QED
    BY <2>1, <2>2 DEF RegistryInv, Mirrored, Mirrors
<1> QED
  BY <1>1, <1>6, <1>7 DEF RegistryInv, ExplicitWins, local

LEMMA PublishStep ==
    ASSUME RegistryInv, NEW source \in Moving, Publish(source)
    PROVE  RegistryInv'
<1>1. content \in [Sources -> 1..MaxVersion] /\ source \in Sources /\ MaxVersion \in Nat
  BY RegistryAssumption DEF RegistryInv, TypeOK
<1>2. content' \in [Sources -> 1..MaxVersion]
  BY <1>1 DEF Publish
<1>3. UNCHANGED <<commits, reachable, clone, db, lastCommit, cache, disk, proc, faults>>
  BY DEF Publish, upstream, local
<1> QED
  BY <1>2, <1>3 DEF RegistryInv, TypeOK, ExplicitWins, Mirrored, head

(* The start of a command.                                                 *)
LEMMA BootstrapStep ==
    ASSUME RegistryInv, NEW outcome \in {"ok", "reclone", "fail"}, Bootstrap(outcome)
    PROVE  /\ RegistryInv'
           /\ outcome = "ok" /\ Valid(commits[head]) => lastCommit' = head
<1> DEFINE repository == sync_git_repository(outcome)
           net == outcome # "fail"
           env == Env(net)
           main == sync_main_registry(repository, env)
           seeded == write_records(main.db, env)
           ready == main.db # <<>> \/ Explicit # <<>>
           after == bootstrap_registry(repository, env)
<1>1. /\ repository \in Clones
      /\ repository.state = "ok" => repository.head = head
      /\ outcome = "ok" => repository.state = "ok"
  BY GitSync DEF RegistryInv
<1>2. env \in Envs
  BY EnvType DEF RegistryInv
<1>3. after = [db |-> seeded.db, last |-> main.last, env |-> seeded.env, ready |-> ready]
  BY DEF bootstrap_registry, Seeded, Bootstrapped
<1>4. /\ clone' = repository
      /\ db' = after.db /\ lastCommit' = after.last /\ cache' = after.env.cache
      /\ proc' = scanDirectory([proc EXCEPT !.ready = after.ready])
      /\ faults' = faults + (IF outcome = "ok" THEN 0 ELSE 1)
      /\ outcome # "ok" => faults < MaxFaults
      /\ UNCHANGED <<commits, reachable, content, disk>>
  BY DEF Bootstrap, upstream
<1> HIDE DEF env
<1>5. MainSynced(main) /\ (repository.state = "ok" /\ Valid(commits[head]) => main.last = head)
  <2> HIDE DEF repository
  <2> QED
    BY <1>1, MainSync DEF RegistryInv
<1> HIDE DEF main, repository
<1>6. /\ IsDatabase(seeded.db) /\ seeded.env \in Envs
      /\ DOMAIN seeded.db = DOMAIN Explicit \cup DOMAIN main.db
      /\ \A n \in DOMAIN Explicit : seeded.db[n].source = Explicit[n].source
      /\ \A n \in DOMAIN main.db \ DOMAIN Explicit : seeded.db[n] = main.db[n]
  <2> DEFINE old == main.db
  <2>1. IsDatabase(old)
    BY <1>5 DEF MainSynced
  <2> HIDE DEF old
  <2>2. LET result == write_records(old, env) IN
        /\ IsDatabase(result.db) /\ result.env \in Envs
        /\ DOMAIN result.db = DOMAIN Explicit \cup DOMAIN old
        /\ \A n \in DOMAIN Explicit : result.db[n].source = Explicit[n].source
        /\ \A n \in DOMAIN old \ DOMAIN Explicit : result.db[n] = old[n]
    BY <1>2, <2>1, WrittenRecords
  <2> QED
    BY <2>2 DEF old
<1>7. ready \in BOOLEAN
  OBVIOUS
<1> HIDE DEF seeded, ready, after
<1>8. db' = seeded.db /\ lastCommit' = main.last /\ cache' = seeded.env.cache /\ after.ready = ready
  BY <1>3, <1>4
<1>9. Mirrors(main.db, commits[main.last]) => Mirrors(seeded.db, commits[main.last])
  BY <1>6 DEF Mirrors
<1>10. Mirrored'
  BY <1>4, <1>5, <1>8, <1>9 DEF MainSynced, Mirrored
<1>11. ExplicitWins'
  BY <1>6, <1>8 DEF ExplicitWins
<1>12. proc' \in Procs
  <2> DEFINE started == [proc EXCEPT !.ready = ready]
  <2>1. started \in Procs
    BY <1>7 DEF RegistryInv, TypeOK, Procs
  <2> HIDE DEF started
  <2>2. proc' = scanDirectory(started)
    BY <1>4, <1>8 DEF started
  <2> QED
    BY <2>1, <2>2, ScanFacts DEF SameReady
<1>13. faults' \in 0..MaxFaults
  <2>1. faults \in 0..MaxFaults /\ MaxFaults \in Nat
    BY RegistryAssumption DEF RegistryInv, TypeOK
  <2>2. CASE outcome = "ok"
    BY <1>4, <2>1, <2>2
  <2>3. CASE outcome # "ok"
    BY <1>4, <2>1, <2>3
  <2> QED
    BY <2>2, <2>3
<1>14. cache' \in [Sources -> 0..MaxVersion]
  BY <1>6, <1>8 DEF Envs
<1>15. TypeOK'
  <2>1. head' = head /\ clone' \in Clones
    BY <1>1, <1>4 DEF head
  <2>2. IsDatabase(db)' /\ lastCommit' \in 0..head
    BY <1>5, <1>6, <1>8 DEF MainSynced
  <2>3. clone' \in [state : {"none", "ok", "partial"}, head : Nat, objects : SUBSET (1..head')]
    BY <2>1 DEF Clones
  <2>4. /\ commits' \in Seq(Trees) /\ commits' # <<>> /\ reachable' \in SUBSET (1..head')
        /\ content' \in [Sources -> 1..MaxVersion]
        /\ disk' = [n \in Names |-> disk'[n]]
        /\ \A n \in Names : disk'[n] = [f \in Files |-> disk'[n][f]]
    BY <1>4, <2>1 DEF RegistryInv, TypeOK
  <2>5. lastCommit' \in 0..head'
    BY <2>1, <2>2
  <2> QED
    BY <1>12, <1>13, <1>14, <2>2, <2>3, <2>4, <2>5 DEF TypeOK, Procs
<1>16. outcome = "ok" /\ Valid(commits[head]) => lastCommit' = head
  BY <1>1, <1>5, <1>8
<1> QED
  BY <1>4, <1>10, <1>11, <1>15, <1>16 DEF RegistryInv

LEMMA BootstrapDiesStep ==
    ASSUME RegistryInv, NEW outcome \in {"ok", "reclone", "cut"}, BootstrapDies(outcome)
    PROVE  RegistryInv'
<1> DEFINE repository == sync_git_repository(outcome)
           env == Env(outcome # "cut")
           main == sync_main_registry(repository, env)
<1>1. repository \in Clones /\ (repository.state = "ok" => repository.head = head)
  BY GitSync DEF RegistryInv
<1>2. /\ clone' = repository /\ db' = main.db /\ lastCommit' = main.last
      /\ proc' = FreshProcess /\ faults < MaxFaults /\ faults' = faults + 1
      /\ UNCHANGED <<commits, reachable, content, cache, disk>>
  BY DEF BootstrapDies, upstream
<1> HIDE DEF env, repository
<1>3. MainSynced(main)
  BY <1>1, MainSync DEF RegistryInv
<1> HIDE DEF main
<1>4. Mirrored'
  BY <1>2, <1>3 DEF MainSynced, Mirrored
<1>5. ExplicitWins' /\ proc' \in Procs
  BY <1>2, FreshFacts DEF ExplicitWins
<1>6. faults' \in 0..MaxFaults
  BY <1>2, FaultCount DEF RegistryInv
<1>7. TypeOK'
  BY <1>1, <1>2, <1>3, <1>5, <1>6 DEF RegistryInv, TypeOK, MainSynced, Clones, Procs, head
<1> QED
  BY <1>2, <1>4, <1>5, <1>7 DEF RegistryInv

-----------------------------------------------------------------------------
(* The theorems.                                                           *)

LEMMA InitInv == Init => RegistryInv
<1> SUFFICES ASSUME Init PROVE RegistryInv
  OBVIOUS
<1>1. /\ commits \in Seq(Trees) /\ commits # <<>> /\ head = 1
      /\ MaxVersion \in Nat \ {0} /\ MaxFaults \in Nat
  <2>1. commits = <<FirstTree>> /\ FirstTree \in Trees
    BY RegistryAssumption DEF Init
  <2>2. <<FirstTree>> \in Seq(Trees) /\ Len(<<FirstTree>>) = 1 /\ <<FirstTree>> # <<>>
    BY <2>1
  <2> QED
    BY <2>1, <2>2, RegistryAssumption DEF head
<1>2. IsDatabase(db) /\ DOMAIN db = {}
  BY DEF Init, IsDatabase
<1>3. clone \in Clones
  BY <1>1 DEF Init, NoClone, Clones
<1>4. proc \in Procs /\ ~proc.ready
  BY FreshFacts DEF Init
<1>5. DirectoriesWhole(disk)
  <2>1. IsDirectory(NoDirectory) /\ ~plugin_bundle_probe_directory(NoDirectory)
    BY RegistryAssumption DEF IsDirectory, NoDirectory, plugin_bundle_probe_directory
  <2> QED
    BY <2>1 DEF Init, DirectoriesWhole, OneBundle
<1>6. content \in [Sources -> 1..MaxVersion] /\ cache \in [Sources -> 0..MaxVersion]
  BY <1>1 DEF Init
<1>7. reachable \in SUBSET (1..head) /\ lastCommit \in 0..head /\ faults \in 0..MaxFaults
  BY <1>1 DEF Init
<1>8. TypeOK
  BY <1>1, <1>2, <1>3, <1>4, <1>5, <1>6, <1>7
     DEF TypeOK, Clones, Procs, DirectoriesWhole, IsDirectory
<1> QED
  BY <1>4, <1>5, <1>8 DEF RegistryInv, ExplicitWins, Mirrored, Init

(* What each step does, whatever it is.                                    *)
LEMMA EveryStep ==
    ASSUME RegistryInv, Next
    PROVE  /\ RegistryInv'
           /\ disk' = disk \/ PayloadStep
<1>0. TypeOK /\ DirectoriesWhole(disk)
  BY DEF RegistryInv
<1>1. ASSUME NEW tree \in Trees, Push(tree) \/ ForcePush(tree)
      PROVE  RegistryInv' /\ disk' = disk
  BY <1>1, UpstreamStep DEF Push, ForcePush, local
<1>2. ASSUME NEW source \in Moving, Publish(source)
      PROVE  RegistryInv' /\ disk' = disk
  BY <1>2, PublishStep DEF Publish, local
<1>3. ASSUME NEW outcome \in {"ok", "reclone", "fail"}, Bootstrap(outcome)
      PROVE  RegistryInv' /\ disk' = disk
  BY <1>3, BootstrapStep DEF Bootstrap
<1>4. ASSUME NEW outcome \in {"ok", "reclone", "cut"}, BootstrapDies(outcome)
      PROVE  RegistryInv' /\ disk' = disk
  BY <1>4, BootstrapDiesStep DEF BootstrapDies
<1>5. ASSUME NEW name \in Asked, NEW net \in BOOLEAN, NEW verdict \in Verdicts,
             \/ Load(name, net, verdict)
             \/ GetSecurityMetadata(name, net, verdict)
             \/ RefreshWrapper(name, net, verdict)
      PROVE  PayloadStep
  BY <1>0, <1>5, LoadStep, RefreshStep
<1>6. ASSUME NEW name \in Asked, LoadDies(name) \/ RefreshDies(name)
      PROVE  PayloadStep
  BY <1>0, <1>6, LoadDiesStep, RefreshDiesStep
<1>7. ASSUME NEW name \in Asked, InstallPlugin(name) \/ EnsurePluginAvailable(name)
      PROVE  PayloadStep
  <2>1. \E n : \E net \in BOOLEAN : Download(n, net) \/ DownloadDies(n)
    BY <1>7 DEF InstallPlugin, EnsurePluginAvailable
  <2> QED
    BY <1>0, <2>1, DownloadStep
<1>8. ASSUME NEW name \in Asked,
             \/ \E dies \in BOOLEAN : RemovePlugin(name, dies)
             \/ \E verdict \in Verdicts : GetPlugin(name, verdict)
      PROVE  PayloadStep
  BY <1>0, <1>8, PluginStep
<1>9. CASE Exit
  BY <1>0, <1>9, PluginStep, PayloadInv
<1>10. PayloadStep => RegistryInv'
  BY PayloadInv
<1> QED
  BY <1>1, <1>2, <1>3, <1>4, <1>5, <1>6, <1>7, <1>8, <1>9, <1>10 DEF Next

LEMMA Stuttering == RegistryInv /\ UNCHANGED vars => RegistryInv'
BY DEF RegistryInv, TypeOK, head, ExplicitWins, Mirrored, vars

(* The invariant that the others rest on: the database is at a commit      *)
(* whose documents it mirrors, what the configuration says is laid over    *)
(* it while a process works, and every directory is a whole bundle or not  *)
(* found.                                                                  *)
THEOREM RegistryInvariant == Spec => []RegistryInv
<1>1. RegistryInv /\ [Next]_vars => RegistryInv'
  BY EveryStep, Stuttering
<1> QED
  BY InitInv, <1>1, PTL DEF Spec

(* Every variable keeps its type, whatever call is made, fails or dies.    *)
THEOREM TypeCorrect == Spec => []TypeOK
<1>1. RegistryInv => TypeOK
  BY DEF RegistryInv
<1> QED
  BY RegistryInvariant, <1>1, PTL

(* The database says of every name that is not configured what the         *)
(* upstream documents of its commit say (sync_main_registry): from         *)
(* differences or anew, over replaced commits, broken documents and deaths *)
(* between its transactions.                                               *)
THEOREM DatabaseMirrorsUpstream == Spec => []MirrorsUpstream
<1>1. RegistryInv => MirrorsUpstream
  <2> SUFFICES ASSUME RegistryInv, lastCommit # 0 PROVE MirrorsUpstream
    BY DEF MirrorsUpstream
  <2> DEFINE tree == commits[lastCommit]
             said == ParseFiles(tree, DOMAIN tree)
  <2>1. tree \in Trees /\ Mirrors(db, tree)
    BY TreesCommitted DEF RegistryInv, TypeOK, Mirrored
  <2> HIDE DEF tree
  <2>2. /\ \A n : n \in DOMAIN said <=> \E f \in DOMAIN tree : n \in DOMAIN Said(tree, f)
        /\ \A f \in DOMAIN tree : \A n \in DOMAIN Said(tree, f) : said[n] = Said(tree, f)[n]
    BY <2>1, ParsedFiles DEF Said
  <2> HIDE DEF said
  <2>3. DOMAIN db \ DOMAIN Explicit = DOMAIN said \ DOMAIN Explicit
    BY <2>1, <2>2 DEF Mirrors
  <2>4. ASSUME NEW n \in DOMAIN db \ DOMAIN Explicit
        PROVE  <<db[n].source, db[n].of, db[n].alias, db[n].origin>>
               = <<said[n].source, said[n].of, said[n].alias, said[n].origin>>
    <3>1. PICK f \in DOMAIN tree : n \in DOMAIN Said(tree, f)
      BY <2>1 DEF Mirrors
    <3>2. SameFacts(db[n], Said(tree, f)[n])
      BY <2>1, <3>1 DEF Mirrors
    <3>3. SameFacts(db[n], said[n])
      BY <2>2, <3>1, <3>2
    <3> QED
      BY <3>3 DEF SameFacts
  <2> QED
    BY <2>3, <2>4 DEF MirrorsUpstream, said, tree
<1> QED
  BY RegistryInvariant, <1>1, PTL

(* Once a process has started up, a configured source is what the database *)
(* says, whatever upstream says of the name (bootstrap_registry).          *)
THEOREM ExplicitSourceWins == Spec => []ExplicitWins
<1>1. RegistryInv => ExplicitWins
  BY DEF RegistryInv
<1> QED
  BY RegistryInvariant, <1>1, PTL

(* A plugin directory the probe accepts is one bundle: no death during a   *)
(* write or a removal leaves a mixture (materializePluginScript,           *)
(* downloadPlugin, runPluginRemoveRequests).                               *)
THEOREM DirectoriesAreWhole == Spec => []DiscoveredIsWhole
<1>1. RegistryInv => DiscoveredIsWhole
  BY DEF RegistryInv, DirectoriesWhole, OneBundle, DiscoveredIsWhole
<1> QED
  BY RegistryInvariant, <1>1, PTL

(* A step that writes a plugin's directory writes what the record has the  *)
(* hash of and, under the thin layer, trusts (loadPlugin, refreshPlugin,   *)
(* downloadPlugin).                                                        *)
THEOREM OnlyVouchedWritten == Spec => WritesOnlyVouched
<1> DEFINE AllVouched == \A n \in Names :
          LET record == db'[n]
          IN  (/\ disk'[n] # disk[n] /\ disk'[n]["run"] \notin {Absent, disk[n]["run"]}
               /\ n \in DOMAIN db' /\ registry_record_can_materialize_plugin(db'[n]))
              => /\ record.sha \in {0, disk'[n]["run"][2]}
                 /\ registry_record_passes_thin_layer_trust(record)
<1>1. RegistryInv /\ [Next]_vars => [AllVouched]_vars
  <2> SUFFICES ASSUME RegistryInv, Next PROVE AllVouched
    OBVIOUS
  <2>1. CASE disk' = disk
    BY <2>1
  <2>2. CASE PayloadStep
    BY <2>2 DEF PayloadStep, Vouched
  <2> QED
    BY <2>1, <2>2, EveryStep
<1> HIDE DEF AllVouched
<1>2. Spec => [][AllVouched]_vars
  BY RegistryInvariant, <1>1, PTL DEF Spec
<1> QED
  BY <1>2 DEF WritesOnlyVouched, AllVouched

(* One command that reaches the host of the registry brings the database   *)
(* to the head, whatever earlier ones left behind (sync_git_repository,    *)
(* sync_main_registry).                                                    *)
THEOREM OneGoodSyncIsEnough == Spec => OneGoodSyncSuffices
<1> DEFINE Suffices == Bootstrap("ok") => (Valid(commits[head]) => lastCommit' = head)
<1>1. RegistryInv /\ [Next]_vars => [Suffices]_vars
  BY BootstrapStep
<1> HIDE DEF Suffices
<1>2. Spec => [][Suffices]_vars
  BY RegistryInvariant, <1>1, PTL DEF Spec
<1> QED
  BY <1>2 DEF OneGoodSyncSuffices, Suffices
=============================================================================
