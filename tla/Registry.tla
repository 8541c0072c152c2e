------------------------------ MODULE Registry ------------------------------
(***************************************************************************)
(* The registry: the upstream repository of plugin documents, its clone,   *)
(* the database built from it, the plugin directories written from it and  *)
(* the plugins a process has loaded (src/src/ecosystem/registry,           *)
(* src/src/platform/download/downloader_plugin*.cpp, plugin_bundle.cpp,    *)
(* src/src/workflows/orchestrator/orchestrator_plugin_flows.cpp).          *)
(*                                                                         *)
(* One process runs at a time.  Nobody else reads the clone, the database  *)
(* or the directories while it works, so a call is one step; where the     *)
(* process may die inside, the step also has the outcomes a death leaves.  *)
(***************************************************************************)
EXTENDS RegistryDatabase, FiniteSetsExt

CONSTANTS
    Sources,            \* every source that is ever read
    Trees,              \* contents of the upstream repository: file -> document
    FirstTree,          \* the one it starts with
    Moving,             \* the sources whose content changes
    BundleFiles,        \* the files the probe asks for, "run" among them, in the
                        \*   order a script bundle is written
    Asked,              \* the names commands are given
    MaxCommits, MaxVersion, MaxFaults

VARIABLES
    commits,            \* the trees of all commits ever made; the last is the head
    reachable,          \* the commits a new clone gets
    clone,              \* the local clone
    db, lastCommit,     \* the database and its meta value
    content, cache,     \* what the sources hold; the repository caches
    disk,               \* name -> the files of its plugin directory
    proc,               \* what the process has in memory
    faults

vars == <<commits, reachable, clone, db, lastCommit, content, cache, disk, proc, faults>>

Files == {BundleFiles[i] : i \in 1..Len(BundleFiles)}
Absent == <<"none", 0>>
NoDirectory == [f \in Files |-> Absent]

(* A bundle is copied whole; of a script only run.lua has its content.     *)
Whole(kind, version) ==
    [f \in Files |-> IF kind = "bundle" \/ f = "run" THEN <<kind, version>> ELSE <<kind, 0>>]

Verdicts == {"fine", "foreign", "broken"}

NoClone == [state |-> "none", head |-> 0, objects |-> {}]
FreshProcess == [ready |-> FALSE, paths |-> {}, plugins |-> {},
                 states |-> [n \in Names |-> "none"]]

ASSUME RegistryAssumption ==
    /\ FirstTree \in Trees
    /\ \A tree \in Trees : "" \notin DOMAIN tree
    /\ IsDatabase(Explicit)
    /\ "run" \in Files
    /\ Moving \subseteq Sources
    /\ MaxCommits \in Nat /\ MaxVersion \in Nat \ {0} /\ MaxFaults \in Nat

(* No file claims a name that another file of the same tree claims.        *)
ASSUME UniqueNames ==
    \A tree \in Trees : \A f, g \in DOMAIN tree :
        f = g \/ DOMAIN parse_registry_json_file(f, tree[f])
                 \cap DOMAIN parse_registry_json_file(g, tree[g]) = {}

Init == /\ commits = <<FirstTree>>
        /\ reachable = {1}
        /\ clone = NoClone
        /\ db = <<>> /\ lastCommit = 0
        /\ content = [s \in Sources |-> 1]
        /\ cache = [s \in Sources |-> 0]
        /\ disk = [n \in Names |-> NoDirectory]
        /\ proc = FreshProcess
        /\ faults = 0

head == Len(commits)
Env(net) == [content |-> content, cache |-> cache, net |-> net]
Valid(tree) == \A f \in DOMAIN tree : tree[f].ok

upstream == <<commits, reachable>>
local == <<clone, db, lastCommit, cache, disk, proc>>
----------------------------------------------------------------------------
(* The world outside: documents are committed, the head is replaced, a     *)
(* plugin's repository gets new content.                                   *)

Push(tree) ==
    /\ head < MaxCommits /\ tree # commits[head]
    /\ commits' = Append(commits, tree)
    /\ reachable' = reachable \cup {head + 1}
    /\ UNCHANGED <<local, content, faults>>

ForcePush(tree) ==
    /\ head < MaxCommits /\ tree # commits[head]
    /\ commits' = Append(commits, tree)
    /\ reachable' = (reachable \ {head}) \cup {head + 1}
    /\ UNCHANGED <<local, content, faults>>

Publish(source) ==
    /\ content[source] < MaxVersion
    /\ content' = [content EXCEPT ![source] = @ + 1]
    /\ UNCHANGED <<upstream, local, faults>>
----------------------------------------------------------------------------
(* Synchronising with upstream.                                            *)

MutSyncGit(outcome) ==
    CASE outcome = "ok" /\ clone.state = "ok" ->
            [clone EXCEPT !.head = head, !.objects = @ \cup reachable]
      [] outcome = "ok" /\ clone.state = "none" ->
            [state |-> "ok", head |-> head, objects |-> reachable]
      [] outcome = "cut" -> [NoClone EXCEPT !.state = "partial"]
      [] OTHER -> clone

(* Fetch, check out and reset the clone; when any of it fails remove it    *)
(* and clone anew, which is also what happens to the remains of a clone    *)
(* that was cut off ("partial").  outcome: what the network allows.        *)
sync_git_repository(outcome) ==
    CASE outcome = "ok" /\ clone.state = "ok" ->
            [clone EXCEPT !.head = head, !.objects = @ \cup reachable]
      [] \/ outcome = "reclone"
         \/ outcome = "ok" /\ clone.state # "ok" ->
            [state |-> "ok", head |-> head, objects |-> reachable]
      [] outcome = "fail" -> NoClone
      [] outcome = "cut" -> [NoClone EXCEPT !.state = "partial"]

(* The files whose documents differ between two commits.                   *)
git_registry_diff(old, new) ==
    LET differ(f) == \/ f \notin DOMAIN commits[old] \/ f \notin DOMAIN commits[new]
                     \/ commits[old][f] # commits[new][f]
    IN  {f \in DOMAIN commits[old] \cup DOMAIN commits[new] : differ(f)}

MutDiffDeletes(old, new) == git_registry_diff(old, new) \ DOMAIN commits[new]

(* originPathsToDelete: every file of the difference, changed ones too.    *)
DiffDeletes(old, new) == git_registry_diff(old, new)

(* [db, last]: what the database is after a successful git sync.           *)
sync_main_registry(repository, env) ==
    LET current == repository.head
        tree == commits[current]
        asBefore == [db |-> db, last |-> lastCommit]
        changed == git_registry_diff(lastCommit, current) \cap DOMAIN tree
    IN  IF repository.state # "ok" THEN asBefore
        ELSE IF lastCommit \notin repository.objects
        THEN IF Valid(tree)
             THEN [db |-> sync_records(db, ParseFiles(tree, DOMAIN tree), TRUE, {}, env),
                   last |-> current]
             ELSE asBefore
        ELSE IF lastCommit = current THEN asBefore
        ELSE IF \A f \in changed : tree[f].ok
        THEN [db |-> sync_records(db, ParseFiles(tree, changed), FALSE,
                                  DiffDeletes(lastCommit, current), env),
              last |-> current]
        ELSE asBefore

Bootstrapped(main, seeded) ==
    [db |-> seeded.db, last |-> main.last, env |-> seeded.env,
     ready |-> main.db # <<>> \/ Explicit # <<>>]

Reseeded(main, seeded) == [Bootstrapped(main, seeded) EXCEPT !.db = main.db]
MutBootstrap(repository, env) ==
    Reseeded(sync_main_registry(repository, env), write_records(db, env))

(* The main registry first, then the explicit sources over it.             *)
Seeded(main, env) == Bootstrapped(main, write_records(main.db, env))

bootstrap_registry(repository, env) == Seeded(sync_main_registry(repository, env), env)

(* The probe accepts a directory that has every file and its own name in   *)
(* metadata.json.                                                          *)
plugin_bundle_probe_directory(dir) == \A f \in Files : dir[f] # Absent

(* scanDirectory: every directory the probe accepts.                       *)
scanDirectory(p) ==
    LET found == {n \in Names : plugin_bundle_probe_directory(disk[n])}
    IN  [p EXCEPT !.paths = @ \cup found,
                  !.states = [n \in Names |-> IF n \in found /\ @[n] = "none"
                                              THEN "registered" ELSE @[n]]]

(* The start of a command: ensureReady, or refreshMainRegistry in a        *)
(* process that is not ready yet, then the plugin directories.             *)
Bootstrap(outcome) ==
    /\ ~proc.ready
    /\ outcome # "ok" => faults < MaxFaults
    /\ clone' = sync_git_repository(outcome)
    /\ \E after \in {bootstrap_registry(sync_git_repository(outcome), Env(outcome # "fail"))} :
          /\ db' = after.db /\ lastCommit' = after.last
          /\ cache' = after.env.cache
          /\ proc' = scanDirectory([proc EXCEPT !.ready = after.ready])
    /\ faults' = faults + (IF outcome = "ok" THEN 0 ELSE 1)
    /\ UNCHANGED <<upstream, content, disk>>

(* The process dies in git, or between the two transactions.               *)
BootstrapDies(outcome) ==
    /\ ~proc.ready /\ faults < MaxFaults
    /\ clone' = sync_git_repository(outcome)
    /\ \E main \in {sync_main_registry(sync_git_repository(outcome), Env(outcome # "cut"))} :
          db' = main.db /\ lastCommit' = main.last
    /\ proc' = FreshProcess
    /\ faults' = faults + 1
    /\ UNCHANGED <<upstream, content, cache, disk>>
----------------------------------------------------------------------------
(* Plugin directories.                                                     *)

MutInterrupted(dir, kind, version) ==
    LET new == Whole(kind, version)
    IN  {[f \in Files |-> IF f \in S THEN new[f] ELSE dir[f]] : S \in SUBSET Files}

(* What a death may leave of a directory that is emptied, in any order,    *)
(* and then filled: a script bundle file by file, a copy in any order.     *)
Interrupted(dir, kind, version) ==
    LET new == Whole(kind, version)
        left(whole, S) == [f \in Files |-> IF f \in S THEN whole[f] ELSE Absent]
        prefixes == {{BundleFiles[i] : i \in 1..k} : k \in 0..Len(BundleFiles)}
    IN  {left(dir, S) : S \in SUBSET Files}
        \cup {left(new, S) : S \in IF kind = "script" THEN prefixes ELSE SUBSET Files}

(* materializePluginScript and the downloader's                            *)
(* materialize_script_record_bundle: the bundle if it can be read, else    *)
(* the script.  <<kind, version>>, Absent when there is nothing to write.  *)
materializePluginScript(record, env) ==
    IF BundleVersion(record.bundle, env) # 0
    THEN <<"bundle", BundleVersion(record.bundle, env)>>
    ELSE IF record.script # 0 THEN <<"script", record.script>> ELSE Absent

Written(dir, what) == IF what = Absent THEN dir ELSE Whole(what[1], what[2])
----------------------------------------------------------------------------
(* Plugins of the process.                                                 *)

(* What the process can look up: nothing until it is ready.                *)
Visible(records) == IF proc.ready THEN records ELSE <<>>
Known == Visible(db)
CanRun == proc.ready \/ (db = <<>> /\ Explicit = <<>>)

(* ensurePluginsDiscovered for one name: its directory is probed once.     *)
ensurePluginsDiscovered(p, name, dirs) ==
    IF name \in p.paths \/ name \notin Names \/ ~plugin_bundle_probe_directory(dirs[name])
    THEN p
    ELSE [p EXCEPT !.paths = @ \cup {name},
                   !.states[name] = IF @ = "none" THEN "registered" ELSE @]

(* ensurePluginConstructed.  verdict: the script says of itself what the   *)
(* record says (runtimeMetadataMatchesTrustRecord) or is "foreign", and    *)
(* then its version is right and its init succeeds or it is "broken".      *)
ensurePluginConstructed(p, name, records, verdict) ==
    IF name \in p.plugins \/ name \notin p.paths THEN p
    ELSE IF RequireThinLayer /\ verdict = "foreign" /\ resolveRecord(records, name) # {}
    THEN [p EXCEPT !.states[name] = "failed"]
    ELSE [p EXCEPT !.plugins = @ \cup {name},
                   !.states[name] = IF @ = "none" THEN "registered" ELSE @]

(* Construct, then version check and init.                                 *)
Initialised(p, name, records, verdict) ==
    LET q == ensurePluginConstructed(p, name, records, verdict)
    IN  IF name \notin q.plugins \/ q.states[name] \in {"active", "failed"} THEN q
        ELSE [q EXCEPT !.states[name] = IF verdict = "broken" THEN "failed" ELSE "active"]

Forgotten(p, name) == [p EXCEPT !.plugins = @ \ {name}, !.paths = @ \ {name},
                                !.states[name] = "none"]
Failed(p, name) == IF name \in Names THEN [p EXCEPT !.states[name] = "failed"] ELSE p

(* refreshRecord: fetch the payload of the record the name leads to.       *)
RecordRefreshed(target, after) ==
    [ok |-> after.ok, env |-> after.env,
     db |-> IF after.ok THEN [db EXCEPT ![target] = after.record] ELSE db]

RefreshTarget(target, preferLatestTag, env) ==
    IF target \notin DOMAIN Known THEN [ok |-> FALSE, db |-> db, env |-> env]
    ELSE RecordRefreshed(target, refreshed_record_payload(Known[target], preferLatestTag, env))

refreshRecord(name, preferLatestTag, env) ==
    RefreshTarget(ResolvedName(Known, name), preferLatestTag, env)

(* The record is refreshed when its script is not in the database yet.     *)
RefreshIfEmpty(record, name, env) ==
    IF record.script = 0 /\ ~record.alias THEN refreshRecord(name, FALSE, env)
    ELSE [ok |-> TRUE, db |-> db, env |-> env]

(* The first half of loadPlugin and getPluginSecurityMetadata: what has to *)
(* be written before the plugin can be constructed.  result "failed" marks *)
(* the plugin, "discover" goes on with the directory of the owner.         *)
Prepared(owner, after) ==
    LET fine == after.ok /\ registry_record_matches_expected_hashes(after.db[owner], after.env)
    IN  [result |-> IF fine THEN "discover" ELSE "failed", owner |-> owner,
         what |-> IF fine THEN materializePluginScript(after.db[owner], after.env) ELSE Absent,
         db |-> after.db, env |-> after.env]

PrepareOwner(owner, name, env) ==
    LET unchanged(result) == [result |-> result, owner |-> owner, what |-> Absent,
                              db |-> db, env |-> env]
    IN  IF name \in proc.paths THEN unchanged("construct")
        ELSE IF owner \notin DOMAIN Known THEN unchanged("discover")
        ELSE IF ~registry_record_passes_thin_layer_trust(Known[owner]) THEN unchanged("failed")
        ELSE Prepared(owner, RefreshIfEmpty(Known[owner], name, env))

PrepareLoad(name, env) == PrepareOwner(ResolvedName(Known, name), name, env)

(* A directory after a write, or after a death during it.                  *)
WriteDirectory(name, what) ==
    disk' = IF what = Absent THEN disk ELSE [disk EXCEPT ![name] = Written(@, what)]

WriteDies(name, what) ==
    \E dir \in Interrupted(disk[name], what[1], what[2]) : disk' = [disk EXCEPT ![name] = dir]

(* loadPlugin.  A record of a package or an alias that leads nowhere is no *)
(* plugin.                                                                 *)
Load(name, net, verdict) ==
    /\ CanRun
    /\ ~net => faults < MaxFaults
    /\ \E resolved \in {resolvePluginName(Known, name)} \cap Names :
       \E prepared \in {PrepareLoad(resolved, Env(net))} :
          /\ \A r \in resolveRecord(Known, resolved) : registry_record_can_materialize_plugin(r)
          /\ db' = prepared.db /\ cache' = prepared.env.cache
          /\ WriteDirectory(prepared.owner, prepared.what)
          /\ proc' = IF prepared.result = "failed" THEN Failed(proc, resolved)
                     ELSE Initialised(ensurePluginsDiscovered(proc, resolved, disk'),
                                      resolved, Visible(db'), verdict)
    /\ faults' = faults + (IF net THEN 0 ELSE 1)
    /\ UNCHANGED <<upstream, content, clone, lastCommit>>

(* getPluginSecurityMetadata: the same without the init, and without       *)
(* looking for a directory when there is no record.                        *)
GetSecurityMetadata(name, net, verdict) ==
    /\ CanRun
    /\ ~net => faults < MaxFaults
    /\ \E resolved \in {resolvePluginName(Known, name)} \cap Names :
       \E prepared \in {PrepareLoad(resolved, Env(net))} :
          /\ db' = prepared.db /\ cache' = prepared.env.cache
          /\ WriteDirectory(prepared.owner, prepared.what)
          /\ proc' = IF prepared.result = "failed" THEN Failed(proc, resolved)
                     ELSE ensurePluginConstructed(
                              IF resolveRecord(Known, resolved) = {} THEN proc
                              ELSE ensurePluginsDiscovered(proc, resolved, disk'),
                              resolved, Visible(db'), verdict)
    /\ faults' = faults + (IF net THEN 0 ELSE 1)
    /\ UNCHANGED <<upstream, content, clone, lastCommit>>

(* The process dies while a load writes the directory.                     *)
LoadDies(name) ==
    /\ CanRun /\ faults < MaxFaults
    /\ \E resolved \in {resolvePluginName(Known, name)} \cap Names :
       \E prepared \in {PrepareLoad(resolved, Env(TRUE))} :
          /\ prepared.what # Absent
          /\ db' = prepared.db /\ cache' = prepared.env.cache
          /\ WriteDies(prepared.owner, prepared.what)
    /\ proc' = FreshProcess /\ faults' = faults + 1
    /\ UNCHANGED <<upstream, content, clone, lastCommit>>

(* getPlugin.                                                              *)
GetPlugin(name, verdict) ==
    /\ CanRun
    /\ LET resolved == resolvePluginName(Known, name)
       IN  resolved \in Names /\ proc' = ensurePluginConstructed(proc, resolved, Known, verdict)
    /\ UNCHANGED <<upstream, content, clone, db, lastCommit, cache, disk, faults>>

(* runPluginWrapperRefresh for one system: refreshPlugin with the latest   *)
(* tag; what is in memory is forgotten, then the plugin is loaded again.   *)
RefreshWrapper(name, net, verdict) ==
    /\ CanRun
    /\ ~net => faults < MaxFaults
    /\ \E resolved \in {resolvePluginName(Known, name)} \cap Names :
       \E owner \in {ResolvedName(Known, resolved)}, after \in {refreshRecord(resolved, TRUE, Env(net))} :
          /\ db' = after.db /\ cache' = after.env.cache
          /\ \/ ~after.ok /\ UNCHANGED <<disk, proc>>
             \/ /\ after.ok /\ ~registry_record_passes_thin_layer_trust(after.db[owner])
                /\ disk' = disk /\ proc' = Failed(proc, resolved)
             \/ /\ after.ok /\ registry_record_passes_thin_layer_trust(after.db[owner])
                /\ WriteDirectory(owner, materializePluginScript(after.db[owner], after.env))
                /\ \E found \in {ensurePluginsDiscovered(Forgotten(proc, resolved), resolved, disk')} :
                      proc' = IF registry_record_can_materialize_plugin(after.db[owner])
                              THEN Initialised(found, resolved, Visible(db'), verdict)
                              ELSE found
    /\ faults' = faults + (IF net THEN 0 ELSE 1)
    /\ UNCHANGED <<upstream, content, clone, lastCommit>>

(* The process dies while the refresh writes the directory.                *)
RefreshDies(name) ==
    /\ CanRun /\ faults < MaxFaults
    /\ \E resolved \in {resolvePluginName(Known, name)} \cap Names :
       \E owner \in {ResolvedName(Known, resolved)}, after \in {refreshRecord(resolved, TRUE, Env(TRUE))} :
          /\ after.ok /\ registry_record_passes_thin_layer_trust(after.db[owner])
          /\ db' = after.db /\ cache' = after.env.cache
          /\ \E what \in {materializePluginScript(after.db[owner], after.env)} \ {Absent} :
                WriteDies(owner, what)
    /\ proc' = FreshProcess /\ faults' = faults + 1
    /\ UNCHANGED <<upstream, content, clone, lastCommit>>
----------------------------------------------------------------------------
(* The downloader.                                                         *)

(* resolve_plugin_name of the downloader knows aliases, not target systems.*)
DownloadName(name) ==
    IF name \in DOMAIN Known /\ Known[name].alias THEN Known[name].of ELSE name

(* [ok, db, env, what]: downloadPlugin up to the directory.  A record that *)
(* has no script after a refresh is a package's; its source is downloaded  *)
(* as it is, and the package's hash is not asked for.                      *)
RawPayload(source, env) ==
    IF fetch_plugin_payload(source, env) = 0 THEN Absent
    ELSE <<"script", fetch_plugin_payload(source, env)>>

DownloadedBundle(record, env) ==
    IF record.script = 0 THEN RawPayload(record.source, env)
    ELSE IF registry_record_matches_expected_hashes(record, env)
    THEN materializePluginScript(record, env) ELSE Absent

Downloaded(owner, after, what) ==
    [ok |-> what # Absent, what |-> what, env |-> after.env,
     db |-> IF what # Absent /\ after.db[owner].script = 0
            THEN [after.db EXCEPT ![owner].script = what[2]]   \* cacheScript
            ELSE after.db]

DownloadRefreshed(owner, after) ==
    IF after.ok THEN Downloaded(owner, after, DownloadedBundle(after.db[owner], after.env))
    ELSE [ok |-> FALSE, what |-> Absent, db |-> after.db, env |-> after.env]

downloadPlugin(name, env) ==
    LET owner == ResolvedName(Known, name)
    IN  IF \/ owner \notin DOMAIN Known
           \/ Known[owner].source = NoSource
           \/ ~registry_record_passes_thin_layer_trust(Known[owner])
        THEN [ok |-> FALSE, what |-> Absent, db |-> db, env |-> env]
        ELSE DownloadRefreshed(owner, RefreshIfEmpty(Known[owner], DownloadName(name), env))

Download(name, net) ==
    /\ ~net => faults < MaxFaults
    /\ \E after \in {downloadPlugin(name, Env(net))} :
          /\ db' = after.db /\ cache' = after.env.cache
          /\ WriteDirectory(DownloadName(name), after.what)
          /\ proc' = IF after.ok
                     THEN ensurePluginsDiscovered(proc, resolvePluginName(Known, name), disk')
                     ELSE proc
    /\ faults' = faults + (IF net THEN 0 ELSE 1)
    /\ UNCHANGED <<upstream, content, clone, lastCommit>>

(* The process does not survive the write.                                 *)
DownloadDies(name) ==
    /\ faults < MaxFaults
    /\ \E after \in {downloadPlugin(name, Env(TRUE))} :
          /\ after.ok
          /\ db' = after.db /\ cache' = after.env.cache
          /\ WriteDies(DownloadName(name), after.what)
    /\ proc' = FreshProcess /\ faults' = faults + 1
    /\ UNCHANGED <<upstream, content, clone, lastCommit>>

(* runPluginInstallRequests for one system: only when it is not there.     *)
InstallPlugin(name) ==
    /\ CanRun
    /\ \E resolved \in {resolvePluginName(Known, name)} \cap Names :
          /\ ~plugin_bundle_probe_directory(disk[resolved])
          /\ \/ \E net \in BOOLEAN : Download(resolved, net)
             \/ DownloadDies(resolved)

(* The planner's ensurePluginsAvailable and                                *)
(* ensurePluginDependenciesAvailable for a system without a plugin.        *)
EnsurePluginAvailable(name) ==
    /\ CanRun
    /\ resolvePluginName(Known, name) \notin proc.plugins \cup proc.paths
    /\ \/ \E net \in BOOLEAN : Download(name, net)
       \/ DownloadDies(name)

(* runPluginRemoveRequests for one system: the packages its manifest       *)
(* depends on were removed, the plugin is unloaded, its directory deleted. *)
RemovePlugin(name, dies) ==
    LET resolved == resolvePluginName(Known, name)
    IN  /\ CanRun /\ resolved \in Names
        /\ plugin_bundle_probe_directory(disk[resolved])
        /\ dies => faults < MaxFaults
        /\ \E left \in IF dies THEN SUBSET Files ELSE {{}} :
              disk' = [disk EXCEPT ![resolved] =
                           [f \in Files |-> IF f \in left THEN @[f] ELSE Absent]]
        /\ proc' = IF dies THEN FreshProcess
                   ELSE Forgotten(proc, resolved)
        /\ faults' = faults + (IF dies THEN 1 ELSE 0)
        /\ UNCHANGED <<upstream, content, clone, db, lastCommit, cache>>

(* The command ends; the next one is a new process.                        *)
Exit ==
    /\ proc # FreshProcess
    /\ proc' = FreshProcess
    /\ UNCHANGED <<upstream, content, clone, db, lastCommit, cache, disk, faults>>
----------------------------------------------------------------------------
Next ==
    \/ \E tree \in Trees : Push(tree) \/ ForcePush(tree)
    \/ \E source \in Moving : Publish(source)
    \/ \E outcome \in {"ok", "reclone", "fail"} : Bootstrap(outcome)
    \/ \E outcome \in {"ok", "reclone", "cut"} : BootstrapDies(outcome)
    \/ Exit
    \/ \E name \in Asked :
          \/ \E net \in BOOLEAN, verdict \in Verdicts :
                \/ Load(name, net, verdict)
                \/ GetSecurityMetadata(name, net, verdict)
                \/ RefreshWrapper(name, net, verdict)
          \/ \E verdict \in Verdicts : GetPlugin(name, verdict)
          \/ LoadDies(name) \/ RefreshDies(name)
          \/ InstallPlugin(name) \/ EnsurePluginAvailable(name)
          \/ \E dies \in BOOLEAN : RemovePlugin(name, dies)

Spec == Init /\ [][Next]_vars
----------------------------------------------------------------------------
(* Properties.                                                             *)

(* Every variable keeps its type; of the database and the directories it   *)
(* says which fields and files there are.                                  *)
TypeOK ==
    /\ commits \in Seq(Trees) /\ commits # <<>>
    /\ reachable \in SUBSET (1..head)
    /\ clone \in [state : {"none", "ok", "partial"}, head : Nat, objects : SUBSET (1..head)]
    /\ IsDatabase(db) /\ lastCommit \in 0..head
    /\ content \in [Sources -> 1..MaxVersion] /\ cache \in [Sources -> 0..MaxVersion]
    /\ disk = [n \in Names |-> disk[n]]
    /\ \A n \in Names : disk[n] = [f \in Files |-> disk[n][f]]
    /\ proc \in [ready : BOOLEAN, paths : SUBSET Names, plugins : SUBSET Names,
                 states : [Names -> {"none", "registered", "active", "failed"}]]
    /\ faults \in 0..MaxFaults

(* What the database says of a name that is not configured explicitly is   *)
(* what the upstream documents of the commit it is at say: however commits *)
(* were added, replaced or skipped, whether it was built from differences  *)
(* or anew, and wherever a process died (sync_main_registry).              *)
MirrorsUpstream ==
    LET tree == commits[lastCommit]
        said == ParseFiles(tree, DOMAIN tree)
        facts(r) == <<r.source, r.of, r.alias, r.origin>>
        names == DOMAIN db \ DOMAIN Explicit
    IN  lastCommit # 0 =>
            /\ names = DOMAIN said \ DOMAIN Explicit
            /\ \A n \in names : facts(db[n]) = facts(said[n])

(* Once a process has started up, a name the configuration gives a source  *)
(* has that source, whatever upstream says (bootstrap_registry).           *)
ExplicitWins ==
    proc.ready => \A n \in DOMAIN Explicit :
                      n \in DOMAIN db /\ db[n].source = Explicit[n].source

(* A directory the probe accepts is one bundle: no death leaves a mixture  *)
(* of two versions that the next process would run                         *)
(* (materializePluginScript, downloadPlugin, runPluginRemoveRequests).     *)
DiscoveredIsWhole ==
    \A n \in Names :
        plugin_bundle_probe_directory(disk[n]) =>
            \E kind \in {"bundle", "script"} : disk[n] = Whole(kind, disk[n]["run"][2])

(* A step that writes a plugin's directory writes what the record vouches  *)
(* for: the run script has the record's hash if it has one, and under the  *)
(* thin layer the record passes its check - also when the hash was checked *)
(* against a cache, the script came from the database, or upstream moved   *)
(* since (loadPlugin, refreshPlugin, downloadPlugin).                      *)
WritesOnlyVouched ==
    [][\A n \in Names :
          LET record == db'[n]
          IN  (/\ disk'[n] # disk[n] /\ disk'[n]["run"] \notin {Absent, disk[n]["run"]}
               /\ n \in DOMAIN db' /\ registry_record_can_materialize_plugin(db'[n]))
              => /\ record.sha \in {0, disk'[n]["run"][2]}
                 /\ registry_record_passes_thin_layer_trust(record)]_vars

(* Whatever earlier commands left behind - a clone cut off, one whose      *)
(* commit was replaced upstream, none at all, a broken document skipped -  *)
(* one command that reaches the host of the registry brings the database   *)
(* to the head, unless a document there does not parse                     *)
(* (sync_git_repository, sync_main_registry).                              *)
OneGoodSyncSuffices ==
    [][Bootstrap("ok") => (Valid(commits[head]) => lastCommit' = head)]_vars
=============================================================================
