----------------------------- MODULE RqpPlugin -----------------------------
(***************************************************************************)
(* The native rqp plugin (src/src/ecosystem/plugin_host/native_rqp) over   *)
(* its state store (src/src/ecosystem/state/rqp_state_store*.cpp): calls   *)
(* that install, remove and update packages, one file operation at a time, *)
(* with failing downloads, failing hooks and a process that may die.       *)
(*                                                                         *)
(* Every installed package (identity: name and version) has a directory    *)
(* with four files.  persistInstalledState opens metadata.json, source.json*)
(* and manifest.json and keeps them open: a file is "empty" from the       *)
(* moment it is opened and "full" when its stream is destroyed.            *)
(***************************************************************************)
EXTENDS RqpFormat, TLC

CONSTANTS
    Entries,        \* the packages of the repository index
    Ids,            \* identities [name, version] that packages may have
    Catalogue,      \* entry -> its index record, with the artifact's bytes
    HookFiles,      \* identity -> the paths its install hook registers
    Directories,    \* the paths of HookFiles that are directories
    Inside(_),      \* directory -> the paths below it
    TextPrefix(_, _), \* the text of one version is a prefix of another's
    Requests,       \* sequences of requests a call may be made with
    Plugins,        \* names of the materialised Lua plugins
    Records,        \* registry records [name, alias, target]
    Host, Aliases,
    MaxCalls, MaxFaults

VARIABLES
    published,      \* entries of the index
    dir,            \* identity -> its state directory
    disk,           \* artifact paths that exist
    call,           \* the plugin call being executed
    calls, faults,  \* numbers of calls and of faults so far
    damaged         \* identities whose removal began and has not ended

vars == <<published, dir, disk, call, calls, faults, damaged>>

FileNames == {"metadata", "lua", "source", "manifest"}
LocalPath == "./package.rqp"
NoSource == [kind |-> "none", name |-> "", version |-> 0, requestName |-> ""]
NoDir == [files |-> [f \in FileNames |-> "none"], source |-> NoSource, manifest |-> <<>>]
Idle == [pc |-> "idle", op |-> "none", queue |-> <<>>, ok |-> TRUE, request |-> None,
         entry |-> None, id |-> None, todo |-> <<>>, pending |-> <<>>, step |-> 0,
         source |-> NoSource, asked |-> <<>>, before |-> {}]

Init == /\ published \in {{}, Entries}
        /\ dir = [id \in Ids |-> NoDir]
        /\ disk = {}
        /\ call = Idle
        /\ calls = 0 /\ faults = 0
        /\ damaged = {}
----------------------------------------------------------------------------
(* The state store.                                                        *)

(* loadInstalled: all four files, or the directory is skipped ...          *)
loadInstalled(id) == \A f \in FileNames : dir[id].files[f] # "none"

(* ... and an unreadable metadata.json or source.json is an exception that *)
(* ends whatever call wanted the list.                                     *)
listInstalledThrows ==
    \E id \in Ids : /\ loadInstalled(id)
                    /\ \E f \in {"metadata", "source"} : dir[id].files[f] = "empty"

listInstalled == {id \in Ids : loadInstalled(id)}

(* An entry another program could read: what the list shows.               *)
Readable == {id \in listInstalled : \A f \in {"metadata", "source"} :
                                        dir[id].files[f] = "full"}

(* parseManifestJson of an empty file is the empty list.                   *)
parseManifestJson(id) == IF dir[id].files["manifest"] = "full" THEN dir[id].manifest ELSE <<>>

MutNameMatches(id, name) == id.name = name

installed_name_matches(id, name) ==
    \/ id.name = name
    \/ dir[id].source.requestName = name
    \/ dir[id].source.name = name

(* A request with `exact' gives the full version-release+revision text.    *)
installed_version_matches(id, request) ==
    \/ request.version = 0
    \/ id.version = request.version
    \/ /\ ~request.exact
       /\ dir[id].source.kind = "repository"
       /\ dir[id].source.version = request.version \/ TextPrefix(request.version, id.version)

findInstalled(request) ==
    {id \in listInstalled : /\ installed_name_matches(id, request.name)
                            /\ installed_version_matches(id, request)}

(* getMissingPackages: what is left to do for one request.                 *)
getMissingPackages(request, action) ==
    IF action \in {"remove", "update"} THEN findInstalled(request) # {}
    ELSE findInstalled(request) = {}
----------------------------------------------------------------------------
(* The repository.                                                         *)

loadRepositoryIndexes ==
    LET doc == [schemaVersion |-> 1,
                packages |-> SetToSeq({Catalogue[e] : e \in published})]
    IN  <<parse_index_impl(doc, "main")>>

(* A request with the full version text finds nothing in the index.        *)
Resolve(request) ==
    LET best == resolve_package_impl(loadRepositoryIndexes, request.name, request.version,
                                     Host, Aliases)
    IN  IF request.exact \/ best = None THEN None ELSE best.entry

repositoryCandidateIsNewer(id, candidate) == Catalogue[candidate].version > id.version

Highest(ids) == CHOOSE id \in ids : \A other \in ids : other.version <= id.version
Lowest(ids) == CHOOSE id \in ids : \A other \in ids : other.version >= id.version
----------------------------------------------------------------------------
(* Queries.  A row is [name, packageId, type]; packageId is an identity.   *)

Row(name, id, type) == [name |-> name, packageId |-> id, type |-> type]
PluginId(name) == [name |-> name, version |-> 0]

installed_request_names(id) ==
    {id.name, dir[id].source.requestName, dir[id].source.name} \ {""}

(* The built-in plugin, the installed packages under every name they were  *)
(* asked for, the Lua plugins, and aliases of plugins that are there.      *)
list ==
    LET plugins == {"rqp"} \cup Plugins
    IN  {Row(id.name, id, "package") : id \in listInstalled}
        \cup (UNION {{Row(n, id, "alias") : n \in installed_request_names(id) \ {id.name}} :
                         id \in listInstalled})
        \cup {Row(p, PluginId(p), "plugin") : p \in plugins}
        \cup {Row(r.name, PluginId(r.name), "alias") :
                 r \in {r \in Records : r.alias /\ r.target \in plugins}}

(* What is listed, then registry plugins, then what the repositories offer *)
(* for this host, each key once.  The text search itself is left out.      *)
search ==
    LET key(row) == <<row.packageId, row.name>>
        unless(rows, seen) == {row \in rows : key(row) \notin {key(x) : x \in seen}}
        registered == unless({Row(r.name, PluginId(r.name), "plugin") : r \in Records}, list)
        offered == {Row(Catalogue[e].name, PluginId(Catalogue[e].name), "package") :
                      e \in {e \in published :
                               rq_architecture_matches(Catalogue[e].architecture,
                                                       Host.architecture)
                               /\ rq_system_matches(Catalogue[e].systems, Host.systems, Aliases)}}
    IN  list \cup registered \cup unless(offered, list \cup registered)

(* The identities the answer describes; none when the name is unknown.     *)
info(request) ==
    LET matches == findInstalled(request)
        entry == Resolve(request)
    IN  IF matches # {} THEN matches
        ELSE IF entry # None
        THEN {[name |-> Catalogue[entry].name, version |-> Catalogue[entry].version]}
        ELSE {PluginId(r.name) : r \in {r \in Records : r.name = request.name}}

(* The version the planner is told; 0 when the package is unknown.  What   *)
(* is installed under the name wins over a version that is not.            *)
resolvePackage(request) ==
    LET matches == findInstalled(request)
        any == findInstalled([request EXCEPT !.version = 0])
        entry == Resolve(request)
    IN  IF matches # {} THEN Highest(matches).version
        ELSE IF any # {} THEN Highest(any).version
        ELSE IF entry # None THEN Catalogue[entry].version ELSE 0
----------------------------------------------------------------------------
(* Calls.                                                                  *)

Fault == faults < MaxFaults /\ faults' = faults + 1

(* Ends the work on the current request.                                   *)
NextRequest(ok) == call' = [call EXCEPT !.pc = "loop", !.ok = @ /\ ok]

(* An exception no one catches ends the call.                              *)
Throw == call' = [call EXCEPT !.pc = "loop", !.queue = <<>>, !.ok = FALSE]

Publish == /\ call.pc = "idle"
           /\ published # Entries
           /\ published' = Entries
           /\ UNCHANGED <<dir, disk, call, calls, faults, damaged>>

(* The executer calls install, remove or update with a list of packages.   *)
Begin(op, requests) ==
    /\ call.pc = "idle" /\ calls < MaxCalls
    /\ calls' = calls + 1
    /\ call' = [Idle EXCEPT !.pc = "loop", !.op = op, !.queue = requests,
                            !.asked = requests, !.before = Readable]
    /\ UNCHANGED <<published, dir, disk, faults, damaged>>

(* An index that cannot be loaded is an exception.                         *)
IndexFails == /\ call.pc = "loop" /\ call.queue # <<>>
              /\ \/ call.op = "install" /\ call.queue = call.asked
                 \/ /\ call.op = "update" /\ ~listInstalledThrows
                    /\ \E id \in findInstalled(Head(call.queue)) :
                           dir[id].source.kind = "repository"
              /\ Fault
              /\ Throw
              /\ UNCHANGED <<published, dir, disk, calls, damaged>>

installLocal(entry) ==
    /\ call.pc = "idle" /\ calls < MaxCalls
    /\ calls' = calls + 1
    /\ call' = [Idle EXCEPT !.pc = "fetch", !.op = "local", !.entry = entry,
                            !.before = Readable,
                            !.source = [NoSource EXCEPT !.kind = "local-file",
                                                       !.name = LocalPath]]
    /\ UNCHANGED <<published, dir, disk, faults, damaged>>

Return == /\ call.pc = "loop" /\ call.queue = <<>>
          /\ call' = Idle
          /\ UNCHANGED <<published, dir, disk, calls, faults, damaged>>

(* installResolvedPackage up to the download.                              *)
StartInstall(request, entry, c) ==
    IF listInstalledThrows THEN Throw
    ELSE IF findInstalled(request) # {} THEN call' = [c EXCEPT !.pc = "loop"]
    ELSE call' = [c EXCEPT !.pc = "fetch", !.entry = entry,
                           !.source = [kind |-> "repository", name |-> Catalogue[entry].name,
                                       version |-> Catalogue[entry].version,
                                       requestName |-> request.name]]

install ==
    /\ call.pc = "loop" /\ call.op = "install" /\ call.queue # <<>>
    /\ LET request == Head(call.queue)
           entry == Resolve(request)
           c == [call EXCEPT !.queue = Tail(@), !.request = request]
       IN  IF entry = None THEN call' = [c EXCEPT !.ok = FALSE]
           ELSE StartInstall(request, entry, c)
    /\ UNCHANGED <<published, dir, disk, calls, faults, damaged>>

remove ==
    /\ call.pc = "loop" /\ call.op = "remove" /\ call.queue # <<>>
    /\ LET request == Head(call.queue)
           matches == findInstalled(request)
           c == [call EXCEPT !.queue = Tail(@), !.request = request]
       IN  IF listInstalledThrows THEN Throw
           ELSE IF \/ matches = {}
                   \/ request.version = 0 /\ Cardinality(matches) > 1
           THEN call' = [c EXCEPT !.ok = FALSE]
           ELSE call' = [c EXCEPT !.pc = "removehook", !.id = Highest(matches)]
    /\ UNCHANGED <<published, dir, disk, calls, faults, damaged>>

update ==
    /\ call.pc = "loop" /\ call.op = "update" /\ call.queue # <<>>
    /\ LET request == Head(call.queue)
           matches == findInstalled(request)
           id == Lowest(matches)
           candidate == Resolve([name |-> id.name, version |-> 0, exact |-> FALSE])
           c == [call EXCEPT !.queue = Tail(@), !.request = request]
       IN  IF listInstalledThrows THEN Throw
           ELSE IF matches = {} THEN call' = c
           ELSE IF request.version = 0 /\ Cardinality(matches) > 1
           THEN call' = [c EXCEPT !.ok = FALSE]
           ELSE IF \/ dir[id].source.kind # "repository"
                   \/ candidate = None
                   \/ ~repositoryCandidateIsNewer(id, candidate)
           THEN call' = c
           ELSE call' = [c EXCEPT !.pc = "removehook", !.id = id, !.entry = candidate]
    /\ UNCHANGED <<published, dir, disk, calls, faults, damaged>>
----------------------------------------------------------------------------
(* Installing one package.                                                 *)

(* downloadPackageArtifact, the sha256 check and RqPackageReader::load.    *)
Layout == [e \in Entries |-> load_package_layout_impl(Catalogue[e].bytes, Host, Aliases, TRUE)]

IdentityOf(layout) == [name |-> layout.metadata.name, version |-> layout.metadata.version]

(* The names and the paths there are.                                      *)
Names == {"", LocalPath} \cup {Catalogue[e].name : e \in Entries} \cup {id.name : id \in Ids}
         \cup UNION {{requests[i].name : i \in DOMAIN requests} : requests \in Requests}
Paths == UNION {Range(HookFiles[id]) : id \in Ids}

(* The records of an index that parses; one that does not is IndexFails.   *)
PackageRecords ==
    [entry : Entries, complete : {TRUE}, name : Names, version : Nat, release : Nat,
     revision : Nat, architecture : STRING, systems : SUBSET STRING,
     packageSha256 : STRING \ {"malformed"}, bytes : {Catalogue[e].bytes : e \in Entries}]

Asks == [name : Names, version : Nat, exact : BOOLEAN]

ASSUME RqpAssumption ==
    /\ IsFiniteSet(Entries) /\ None \notin Entries
    /\ IsFiniteSet(Ids) /\ \A id \in Ids : id.version \in Nat
    /\ Catalogue \in [Entries -> PackageRecords]
    /\ \A e \in Entries : /\ Catalogue[e].entry = e
                          /\ Layout[e] # None => IdentityOf(Layout[e]) \in Ids
    /\ HookFiles \in [Ids -> Seq(Paths)]
    /\ Requests \subseteq Seq(Asks)
    /\ MaxCalls \in Nat /\ MaxFaults \in Nat

Fetch ==
    /\ call.pc = "fetch"
    /\ LET layout == Layout[call.entry]
       IN  IF layout = None THEN NextRequest(FALSE)
           ELSE call' = [call EXCEPT !.pc = "hook", !.id = IdentityOf(layout),
                                     !.todo = HookFiles[IdentityOf(layout)], !.pending = <<>>]
    /\ UNCHANGED <<published, dir, disk, calls, faults, damaged>>

(* The download fails or delivers something else than was published.       *)
MutFetchFails == /\ call.pc = "fetch" /\ Fault
                 /\ NextRequest(TRUE)
                 /\ UNCHANGED <<published, dir, disk, calls, damaged>>

FetchFails == /\ call.pc = "fetch" /\ Fault
              /\ NextRequest(FALSE)
              /\ UNCHANGED <<published, dir, disk, calls, damaged>>

(* runHook: the install hook makes its artifacts one after the other; each *)
(* is registered when it is made.                                          *)
runHook ==
    /\ call.pc = "hook"
    /\ IF call.todo = <<>>
       THEN /\ call' = [call EXCEPT !.pc = "persist", !.step = 1]
            /\ UNCHANGED disk
       ELSE /\ call' = [call EXCEPT !.todo = Tail(@), !.pending = Append(@, Head(call.todo))]
            /\ disk' = disk \cup {Head(call.todo)}
    /\ UNCHANGED <<published, dir, calls, faults, damaged>>

HookFails == /\ call.pc \in {"hook", "removehook"} /\ Fault
             /\ NextRequest(FALSE)
             /\ UNCHANGED <<published, dir, disk, calls, damaged>>

(* The files in the order the code opens them and, from step 5 on, in the  *)
(* order in which the destructors flush them.                              *)
MutPersistOrder ==
    <<[file |-> "metadata", to |-> "empty"], [file |-> "metadata", to |-> "full"],
      [file |-> "lua", to |-> "full"],
      [file |-> "source", to |-> "empty"], [file |-> "source", to |-> "full"],
      [file |-> "manifest", to |-> "empty"], [file |-> "manifest", to |-> "full"]>>

PersistOrder == <<[file |-> "metadata", to |-> "empty"], [file |-> "lua", to |-> "full"],
                  [file |-> "source", to |-> "empty"], [file |-> "manifest", to |-> "empty"],
                  [file |-> "manifest", to |-> "full"], [file |-> "source", to |-> "full"],
                  [file |-> "metadata", to |-> "full"]>>

persistInstalledState ==
    /\ call.pc = "persist"
    /\ LET step == PersistOrder[call.step]
           last == call.step = Len(PersistOrder)
           id == call.id
       IN  /\ dir' = [dir EXCEPT ![id].files[step.file] = step.to,
                                 ![id].source = IF step.file = "source" /\ step.to = "full"
                                                THEN call.source ELSE @,
                                 ![id].manifest = IF step.file = "manifest" /\ step.to = "full"
                                                  THEN call.pending ELSE @]
           /\ IF last THEN NextRequest(TRUE) ELSE call' = [call EXCEPT !.step = @ + 1]
           /\ damaged' = IF last THEN damaged \ {id} ELSE damaged
    /\ UNCHANGED <<published, disk, calls, faults>>

(* Copying reqpack.lua or a script throws: installPackagePath reports the  *)
(* failure, the open stream of metadata.json is flushed on the way out.    *)
PersistFails ==
    /\ call.pc = "persist" /\ call.step = 2 /\ Fault
    /\ dir' = [dir EXCEPT ![call.id].files["metadata"] = "full"]
    /\ NextRequest(FALSE)
    /\ UNCHANGED <<published, disk, calls, damaged>>
----------------------------------------------------------------------------
(* Removing one package.                                                   *)

(* Only the files directly under scripts/ are kept in the state directory. *)
InstalledHookThere(id) ==
    \A e \in Entries :
        LET layout == Layout[e]
        IN  layout # None /\ IdentityOf(layout) = id /\ "remove" \in DOMAIN layout.hooks
            => Len(layout.hooks["remove"]) = 2 /\ layout.hooks["remove"][1] = "scripts"

runInstalledHook ==
    /\ call.pc = "removehook"
    /\ IF InstalledHookThere(call.id)
       THEN call' = [call EXCEPT !.pc = "artifacts", !.todo = Reverse(parseManifestJson(call.id))]
       ELSE NextRequest(FALSE)
    /\ UNCHANGED <<published, dir, disk, calls, faults, damaged>>

MutNotNeeded(path, installed) == FALSE

MutNeededByItself(path, installed) ==
    \E other \in listInstalled : path \in Range(parseManifestJson(other))

pathStillNeededElsewhere(path, installed) ==
    \E other \in listInstalled \ {installed} : path \in Range(parseManifestJson(other))

RemovedFromDisk(path) ==
    IF \/ pathStillNeededElsewhere(path, call.id)
       \/ path \in Directories /\ Inside(path) \cap disk # {}
    THEN disk ELSE disk \ {path}

removeManifestArtifacts ==
    /\ call.pc = "artifacts"
    /\ IF call.todo = <<>> THEN call' = [call EXCEPT !.pc = "state"] /\ UNCHANGED <<disk, damaged>>
       ELSE IF listInstalledThrows THEN Throw /\ UNCHANGED <<disk, damaged>>
       ELSE /\ disk' = RemovedFromDisk(Head(call.todo))
            /\ call' = [call EXCEPT !.todo = Tail(@)]
            /\ damaged' = damaged \cup {call.id}
    /\ UNCHANGED <<published, dir, calls, faults>>

(* remove_all deletes the files in the order of the directory, one by one; *)
(* an update goes on to install its candidate, asking for the old version. *)
removeInstalledState ==
    /\ call.pc = "state"
    /\ LET left == {f \in FileNames : dir[call.id].files[f] # "none"}
           again == [name |-> call.id.name, version |-> call.id.version, exact |-> FALSE]
       IN  \/ /\ left # {}
              /\ \E f \in left : dir' = [dir EXCEPT ![call.id].files[f] = "none"]
              /\ UNCHANGED <<call, damaged>>
           \/ /\ left = {}
              /\ dir' = [dir EXCEPT ![call.id] = NoDir]
              /\ damaged' = damaged \ {call.id}
              /\ IF call.op = "update" THEN StartInstall(again, call.entry, call)
                 ELSE NextRequest(TRUE)
    /\ UNCHANGED <<published, disk, calls, faults>>

(* The process dies: buffers are lost, files stay as they are.             *)
Crash == /\ call.pc # "idle" /\ Fault
         /\ call' = Idle
         /\ UNCHANGED <<published, dir, disk, calls, damaged>>

Next == \/ Publish \/ IndexFails \/ Return \/ install \/ remove \/ update
        \/ \E op \in {"install", "remove", "update"}, r \in Requests : Begin(op, r)
        \/ \E e \in Entries : installLocal(e)
        \/ Fetch \/ FetchFails \/ runHook \/ HookFails
        \/ persistInstalledState \/ PersistFails
        \/ runInstalledHook \/ removeManifestArtifacts \/ removeInstalledState
        \/ Crash

Spec == Init /\ [][Next]_vars
----------------------------------------------------------------------------
(* Properties.                                                             *)

(* A package the list shows can be taken away again: whenever metadata and *)
(* source of an entry are readable, so is its manifest, also after a crash *)
(* in the middle of persistInstalledState, because the streams are         *)
(* destroyed in the reverse order of their creation.                       *)
ReadableMeansComplete ==
    \A id \in Readable : dir[id].files["manifest"] = "full"

(* Packages share files.  Whatever is removed, updated or abandoned half   *)
(* way, every file a listed package registered is there, unless it is this *)
(* package's own removal that has begun.                                   *)
SharedFilesKept ==
    \A id \in Readable \ damaged : Range(parseManifestJson(id)) \subseteq disk

(* As long as nothing failed, no file is left behind that no manifest      *)
(* knows: a removal can find everything an installation made.              *)
NothingLeaked ==
    faults = 0 /\ call.pc = "idle" =>
        \A path \in disk \ Directories :
            \E id \in Readable : path \in Range(parseManifestJson(id))

(* A call to update that reports success loses no package and leaves no    *)
(* package older than it was, though it removes before it installs.        *)
UpdateKeepsNewest ==
    call.pc = "loop" /\ call.queue = <<>> /\ call.ok /\ call.op = "update" =>
        \A old \in call.before :
            \E new \in Readable : new.name = old.name /\ new.version >= old.version

(* A call to install that reports success leaves nothing missing of what   *)
(* was asked for, under the names and versions the requests used, even     *)
(* when the artifact's metadata disagrees with its index entry, and the    *)
(* version resolvePackage then reports is one of those installed.          *)
InstallConfirmed ==
    call.pc = "loop" /\ call.queue = <<>> /\ call.ok /\ call.op = "install" =>
        \A i \in DOMAIN call.asked :
            /\ ~getMissingPackages(call.asked[i], "install")
            /\ resolvePackage(call.asked[i])
                  \in {id.version : id \in findInstalled(call.asked[i])}

(* What the list calls a package is what commands find it by: the names    *)
(* listed for installed packages and the names the state store matches     *)
(* agree, also after another request overwrote a package's source record,  *)
(* and info describes the same packages.                                   *)
ListedNamesFind ==
    ~listInstalledThrows =>
        \A n \in {row.name : row \in search} :
            LET request == [name |-> n, version |-> 0, exact |-> FALSE]
                listed == {row.packageId :
                             row \in {row \in list : row.name = n /\ row.packageId \in Ids}}
            IN  /\ listed = findInstalled(request)
                /\ listed # {} => info(request) = listed

(* A package has one name: the one it was asked for, is confirmed under,   *)
(* is listed under and is found by.                                        *)
NamesAgree == InstallConfirmed /\ ListedNamesFind
----------------------------------------------------------------------------
(* What UpdateKeepsNewest and NamesAgree ask of the repository, which the  *)
(* code does not verify: an index gives every artifact its own version and *)
(* its own name or one that is no package's own name, at most one such     *)
(* other name per package; names are not empty and are not paths; and a    *)
(* version whose text begins with another's is not older.                  *)
IndexHonest ==
    /\ \A e \in Entries :
          /\ Catalogue[e].name \notin {"", LocalPath}
          /\ Layout[e] # None =>
                /\ IdentityOf(Layout[e]).version = Catalogue[e].version
                /\ \/ IdentityOf(Layout[e]).name = Catalogue[e].name
                   \/ \A id \in Ids : id.name # Catalogue[e].name
    /\ \A e, f \in Entries :
          Layout[e] # None /\ Layout[f] # None /\ IdentityOf(Layout[e]) = IdentityOf(Layout[f]) =>
              \/ Catalogue[e].name = Catalogue[f].name
              \/ IdentityOf(Layout[e]).name \in {Catalogue[e].name, Catalogue[f].name}
    /\ \A id \in Ids : id.name \notin {"", LocalPath} /\ id.version # 0
    /\ \A id, other \in Ids :
          TextPrefix(id.version, other.version) => id.version <= other.version
    /\ "" \notin Plugins /\ \A r \in Records : r.name # ""
----------------------------------------------------------------------------
(* What ReadableMeansComplete, SharedFilesKept and NothingLeaked rest on.  *)

SourceRecords == [kind : {"none", "repository", "local-file"}, name : Names, version : Nat,
                  requestName : Names]

StateDirs == [files : [FileNames -> {"none", "empty", "full"}], source : SourceRecords,
              manifest : Seq(Paths)]

CallRecords ==
    [pc : {"idle", "loop", "fetch", "hook", "persist", "removehook", "artifacts", "state"},
     op : {"none", "install", "remove", "update", "local"}, queue : Seq(Asks), ok : BOOLEAN,
     request : Asks \cup {None}, entry : Entries \cup {None}, id : Ids \cup {None},
     todo : Seq(Paths), pending : Seq(Paths), step : 0..7, source : SourceRecords,
     asked : Seq(Asks), before : SUBSET Ids]

(* Every variable keeps its type.                                          *)
TypeOK ==
    /\ published \in {{}, Entries}
    /\ dir \in [Ids -> StateDirs] /\ disk \in SUBSET Paths
    /\ call \in CallRecords
    /\ calls \in 0..MaxCalls /\ faults \in 0..MaxFaults
    /\ damaged \in SUBSET Ids

(* A call works on a package it knows.                                     *)
CallKnows ==
    /\ call.pc = "fetch" => call.entry \in Entries
    /\ call.pc \in {"hook", "persist", "removehook", "artifacts", "state"} => call.id \in Ids
    /\ call.pc \in {"removehook", "artifacts", "state"} /\ call.op = "update" =>
          call.entry \in Entries
    /\ call.pc = "persist" => call.step # 0

(* How far persistInstalledState is, and what is on disk by then.          *)
PersistTracked ==
    call.pc = "persist" =>
        LET files == dir[call.id].files
        IN  /\ call.step \in 2..7 => files["metadata"] = "empty"
            /\ call.step \in 3..7 => files["lua"] = "full"
            /\ call.step \in 4..6 => files["source"] = "empty"
            /\ call.step = 5 => files["manifest"] = "empty"
            /\ call.step \in 6..7 => /\ files["manifest"] = "full"
                                     /\ dir[call.id].manifest = call.pending
            /\ call.step = 7 => files["source"] = "full"

(* A manifest is never opened while the source record is still readable.   *)
SourceLast ==
    \A id \in Ids : dir[id].files["source"] = "full" => dir[id].files["manifest"] # "empty"

(* What a manifest says is on disk, and a manifest that says something is  *)
(* one other removals look at, as long as the removal of its own package   *)
(* has not begun; the artifacts of the current installation are on disk.   *)
ManifestsHold ==
    /\ \A id \in Ids \ damaged : dir[id].files["manifest"] = "full" =>
          /\ Range(dir[id].manifest) \subseteq disk
          /\ dir[id].manifest # <<>> => loadInstalled(id)
    /\ call.pc \in {"hook", "persist"} => Range(call.pending) \subseteq disk
    /\ (call.pc = "artifacts" /\ call.todo = <<>>) \/ call.pc = "state" =>
          call.id \in damaged \/ parseManifestJson(call.id) = <<>>

StoreInv == TypeOK /\ CallKnows /\ PersistTracked /\ SourceLast /\ ManifestsHold

(* A package that is installed as its hook left it.                        *)
Complete(id) == /\ \A f \in FileNames : dir[id].files[f] = "full"
                /\ Range(dir[id].manifest) = Range(HookFiles[id])
Gone(id) == \A f \in FileNames : dir[id].files[f] = "none"

(* Who answers for an artifact: a package that is installed and not being  *)
(* deleted, or the one being installed.                                    *)
Answers(id) == \/ Complete(id) /\ ~(call.pc = "state" /\ id = call.id)
               \/ call.pc \in {"hook", "persist"} /\ id = call.id

(* While nothing fails, every artifact has a package that answers for it.  *)
ArtifactsOwned ==
    faults = 0 =>
        /\ \A id \in Ids : \/ Complete(id) \/ Gone(id)
                           \/ call.pc \in {"persist", "state"} /\ id = call.id
        /\ call.pc \in {"removehook", "artifacts"} => Complete(call.id)
        /\ call.pc \in {"hook", "persist"} =>
              Range(call.pending) \cup Range(call.todo) = Range(HookFiles[call.id])
        /\ call.pc = "persist" => call.todo = <<>>
        /\ \A path \in disk \ Directories :
              \E id \in Ids : path \in Range(HookFiles[id]) /\ Answers(id)
        /\ call.pc = "artifacts" =>
              \A path \in Range(HookFiles[call.id]) \ Range(call.todo) :
                  path \in disk \ Directories =>
                      \E id \in Ids \ {call.id} : path \in Range(HookFiles[id]) /\ Answers(id)
=============================================================================
