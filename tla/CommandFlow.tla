---------------------------- MODULE CommandFlow ----------------------------
(***************************************************************************)
(* One command from its requests to its exit code                          *)
(* (workflows/orchestrator/orchestrator_dispatcher.cpp and the workflows   *)
(* it calls).  Requests are vectors that the command line or a remote      *)
(* session hands over; the world answers for the plugins, the network, the *)
(* configuration and the validator.  A download, an archive layer, a       *)
(* plugin or an export may fail at each step.                              *)
(***************************************************************************)
EXTENDS RequestPreparation, TLC

CONSTANTS
    Commands,           \* the vectors of requests a command may start with
    Worlds              \* what the world around it may be

IsSequence(seq) == Len(seq) \in Nat /\ seq = [i \in 1 .. Len(seq) |-> seq[i]]
IsRequest(q) == /\ q = Request(q.action, q.system, q.packages, q.target, q.flags)
                /\ IsSequence(q.packages)
AreRequests(qs) == IsSequence(qs) /\ \A i \in DOMAIN qs : IsRequest(qs[i])
IsAnswer(a) == /\ a = [answers |-> a.answers, target |-> a.target, renames |-> a.renames,
                       local |-> a.local]
               /\ IsSequence(a.renames)

\* An alias names a system, not another alias, and "" is no name; what is on disk,
\* in the registry and installed can be listed.
IsWorld(w) ==
    /\ \A s \in DOMAIN w.alias : w.alias[s] \notin DOMAIN w.alias
    /\ "" \notin w.loads \cup DOMAIN w.alias
    /\ \A s \in DOMAIN w.proxy : IsAnswer(w.proxy[s])
    /\ IsFiniteSet(w.disk) /\ IsFiniteSet(DOMAIN w.cached) /\ IsFiniteSet(DOMAIN w.upstream)
    /\ \A s \in w.loads : IsFiniteSet(w.installed[s])

ASSUME FlowAssumption == /\ \A c \in Commands : AreRequests(c)
                         /\ \A w \in Worlds : IsWorld(w)

VARIABLES
    command, world,     \* what was asked, and where
    records, plugins,   \* the registry database; the discovered plugins
    requests,           \* the requests, as far as they are prepared
    pc, at,             \* the next step; the request a loop has reached
    files, tempFiles,   \* the files there are; the ones to clean up
    graph, cleared,     \* the planned packages; the packages that were validated
    did,                \* what was changed, and what was shown
    exit

vars == <<command, world, records, plugins, requests, pc, at, files, tempFiles, graph,
          cleared, did, exit>>

NoExit == 2
NothingDone == [executed |-> {}, updated |-> {}, refreshed |-> {}, removed |-> {},
                exported |-> {}, skipped |-> {}, artifact |-> FALSE, picked |-> FALSE]

Init == /\ command \in Commands /\ world \in Worlds
        /\ records = world.cached
        /\ plugins = {Builtin}
        /\ requests = command
        /\ pc = "start" /\ at = 1
        /\ files = world.files /\ tempFiles = {}
        /\ graph = {} /\ cleared = {}
        /\ did = NothingDone
        /\ exit = NoExit

known == [records |-> records, plugins |-> plugins]
KnownWith(P) == [records |-> records, plugins |-> P]
r == requests[at]
action == requests[1].action

asked == <<command, world>>
Goto(label) == pc' = label /\ exit' = exit
Without(S) == [f \in DOMAIN files \ S |-> files[f]]
With(location, file, fs) ==
    [f \in DOMAIN fs \cup {location} |-> IF f = location THEN file ELSE fs[f]]

MutReturn(code) == /\ pc' = "done" /\ exit' = code
                   /\ files' = IF code = 0 THEN Without(tempFiles) ELSE files
                   /\ UNCHANGED tempFiles

(* Every way out of the prepared part removes the temporary files.         *)
Return(code) == /\ pc' = "done" /\ exit' = code
                /\ files' = Without(tempFiles)
                /\ UNCHANGED tempFiles

Code(ok) == IF ok THEN 0 ELSE 1
----------------------------------------------------------------------------
(* The start of every command.                                             *)

(* An update refreshes the main registry, and goes on when that fails; an  *)
(* empty database is filled by ensureReady.                                *)
RefreshRegistry(ok) ==
    /\ pc = "start"
    /\ records' = IF ok /\ (All(requests, LAMBDA q : q.action = "UPDATE") \/ records = <<>>)
                  THEN world.upstream ELSE records
    /\ Goto("expand")
    /\ UNCHANGED <<asked, plugins, requests, at, files, tempFiles, graph, cleared, did>>

(* expand_update_all_requests, ensure_request_plugins_discovered.          *)
ExpandAndDiscover ==
    /\ pc = "expand"
    /\ requests' = expand_update_all_requests(world, known, requests)
    /\ plugins' = plugins \cup world.disk
    /\ IF requests' = <<>> THEN Return(0) ELSE Goto("rewrite") /\ UNCHANGED <<files, tempFiles>>
    /\ UNCHANGED <<asked, records, at, graph, cleared, did>>

(* The rewrites, and the choice of the flow.                               *)
Dispatch ==
    /\ pc = "rewrite"
    /\ requests' = rewrite_registry_package_requests(known,
                       rewrite_security_gateway_package_requests(world, known, requests))
    /\ Goto(Flow(requests'))
    /\ at' = 1
    /\ UNCHANGED <<asked, records, plugins, files, tempFiles, graph, cleared, did>>
----------------------------------------------------------------------------
(* Flows that never reach the planner's graph of the command itself.       *)

systems == {requests[i].system : i \in DOMAIN requests}
Validated(packages) == packages \cap world.vulnerable = {}

(* The installed packages are listed and validated; a system that cannot   *)
(* be listed has none.                                                     *)
MutValidateSystemWide ==
    \E expanded \in {expand_system_wide_update_requests(world, known, requests)} :
    \E packages \in {plan(world, known, resolveRequests(world, known, expanded))} :
        /\ cleared' = IF All(expanded, LAMBDA q : q.packages # <<>>) THEN packages ELSE {}
        /\ IF \/ ~All(expanded, LAMBDA q : q.packages # <<>>)
              \/ Resolvable(world, known, expanded) /\ Validated(packages)
           THEN Goto("update-systems") /\ UNCHANGED <<files, tempFiles>>
           ELSE Return(1)

ValidateSystemWide ==
    \E expanded \in {expand_system_wide_update_requests(world, known, requests)} :
    \E packages \in {plan(world, known, resolveRequests(world, known, expanded))} :
        /\ cleared' = packages
        /\ IF \/ \A i \in DOMAIN expanded : expanded[i].packages = <<>>
              \/ Resolvable(world, known, expanded) /\ Validated(packages)
           THEN Goto("update-systems") /\ UNCHANGED <<files, tempFiles>>
           ELSE Return(1)

ListAndValidate ==
    /\ pc = "system-wide"
    /\ plugins' = AfterLoading(world, known, AskedFor(world, known, requests))
    /\ ValidateSystemWide
    /\ UNCHANGED <<asked, records, requests, at, graph, did>>

(* updateSystems, whose tasks and results are in SystemUpdate: a system    *)
(* whose proxies lead nowhere, or whose plugin cannot be loaded, fails.    *)
WholeSystem(s) == Request("UPDATE", s, <<>>, NoTarget, {})

Updatable(s) ==
    \E chain \in {resolveRequest(world, known, WholeSystem(s))} :
        /\ chain.result = "resolved"
        /\ \/ gatewayExists(world, chain.request.system)
           \/ loadPlugin(world, known, chain.request.system)

UpdateSystems(failed) ==
    /\ pc = "update-systems"
    /\ failed \subseteq systems
    /\ \A s \in systems \ failed : Updatable(s)
    /\ did' = [did EXCEPT !.updated = systems \ failed]
    /\ Return(Code(failed = {}))
    /\ UNCHANGED <<asked, records, plugins, requests, at, graph, cleared>>

(* The loops over the requests: each item succeeds or fails, the command   *)
(* fails when one did.  What succeeded is in did or in plugins.            *)
NextItem(failed) ==
    IF at < Len(requests)
    THEN at' = at + 1 /\ pc' = pc /\ exit' = (IF failed THEN 1 ELSE exit)
         /\ UNCHANGED <<files, tempFiles>>
    ELSE at' = at /\ Return(Code(~failed /\ exit = NoExit))

RefreshWrapper(ok) ==
    /\ pc = "refresh"
    /\ ok => Fetchable(world, known, resolvePluginName(world, r.system))
                /\ resolvePluginName(world, r.system) \in world.loads
    /\ plugins' = IF ok THEN plugins \cup {resolvePluginName(world, r.system)} ELSE plugins
    /\ did' = IF ok THEN [did EXCEPT !.refreshed = @ \cup {r.system}] ELSE did
    /\ NextItem(~ok)
    /\ UNCHANGED <<asked, records, requests, graph, cleared>>

PluginInstall(ok) ==
    /\ pc = "plugin-install"
    /\ \E s \in {resolvePluginName(world, r.system)} :
          /\ s \in plugins => ok
          /\ ok => s \in plugins \/ Fetchable(world, known, s)
          /\ plugins' = IF ok THEN plugins \cup {s} ELSE plugins
    /\ NextItem(~ok)
    /\ UNCHANGED <<asked, records, requests, graph, cleared, did>>

(* The packages the plugin requires are removed first; when that fails the *)
(* wrapper stays.                                                          *)
PluginRemove(ok) ==
    /\ pc = "plugin-remove"
    /\ \E s \in {resolvePluginName(world, r.system)} :
          /\ ok => /\ s \in plugins \ {Builtin}
                   /\ s \in DOMAIN world.requires =>
                        \A d \in world.requires[s] : loadPlugin(world, known, d.system)
          /\ plugins' = IF ok THEN plugins \ {s} ELSE plugins
          /\ did' = IF ~ok THEN did
                    ELSE [did EXCEPT !.removed = @ \cup (IF s \in DOMAIN world.requires
                                                        THEN world.requires[s] ELSE {})]
    /\ NextItem(~ok)
    /\ UNCHANGED <<asked, records, requests, graph, cleared>>
----------------------------------------------------------------------------
(* prepare_requests_for_run: local targets, one after the other.           *)

NeedsTarget(q) == q.action = "INSTALL" /\ UsesLocalTarget(q)
Preparing == pc = "prepare" /\ at <= Len(requests)
OnlyPrepares == UNCHANGED <<asked, records, plugins, graph, cleared, did>>

SkipRequest ==
    /\ Preparing /\ ~NeedsTarget(r)
    /\ at' = at + 1
    /\ UNCHANGED <<requests, pc, files, tempFiles, exit>> /\ OnlyPrepares

(* Into the shared temporary directory, under the file name of the url:    *)
(* written beside its place and renamed, and on the list when it is there. *)
Download ==
    /\ Preparing /\ NeedsTarget(r) /\ r.target[1] = "url"
    /\ \E location \in {<<"download", r.target[2]>>} :
          /\ files' = With(location, world.served[r.target], files)
          /\ tempFiles' = tempFiles \cup {location}
          /\ requests' = [requests EXCEPT ![at].target = location]
    /\ UNCHANGED <<pc, at, exit>> /\ OnlyPrepares

DownloadFails ==
    /\ Preparing /\ NeedsTarget(r) /\ r.target[1] = "url"
    /\ Return(1)
    /\ UNCHANGED <<requests, at>> /\ OnlyPrepares

(* A wrapper is decrypted into a new file; the loop goes on with that.  An *)
(* archive is extracted into a new directory and ends it.                  *)
Layer == files[r.target].layers
Inner(location) == <<IF Layer[1] = "gpg" THEN "decrypt" ELSE "extract", location[2], at, Len(Layer)>>
Unpacked == [files[r.target] EXCEPT !.layers = Tail(@), !.directory = Layer[1] = "tar"]

Unpack ==
    /\ Preparing /\ NeedsTarget(r) /\ r.target[1] # "url" /\ Layer # <<>>
    /\ \E location \in {Inner(r.target)} :
          /\ files' = With(location, Unpacked, files)
          /\ tempFiles' = tempFiles \cup {location}
          /\ requests' = [requests EXCEPT ![at].target = location]
    /\ UNCHANGED <<pc, at, exit>> /\ OnlyPrepares

(* A layer that throws: the list of the layers before it is lost with the  *)
(* exception, and so is the file gpg may have written.                     *)
LostLayers == {f \in tempFiles : f[1] = "decrypt" /\ f[3] = at}

UnpackThrows ==
    /\ Preparing /\ NeedsTarget(r) /\ r.target[1] # "url" /\ Layer # <<>>
    /\ pc' = "done" /\ exit' = 1
    /\ tempFiles' = tempFiles \ LostLayers
    /\ files' = IF Layer[1] = "gpg" THEN With(Inner(r.target), Unpacked, Without(tempFiles \ LostLayers))
                ELSE Without(tempFiles \ LostLayers)
    /\ UNCHANGED <<requests, at>> /\ OnlyPrepares

(* The system of the target, when the request does not name one.           *)
ResolveTarget ==
    /\ Preparing /\ NeedsTarget(r) /\ r.target[1] # "url" /\ Layer = <<>>
    /\ \E system \in {IF r.system # "" THEN r.system
                      ELSE resolveSystemForLocalTarget(known, files[r.target])} :
          /\ requests' = [requests EXCEPT ![at].system = system]
          /\ IF system = "" THEN Return(1) /\ at' = at
             ELSE at' = at + 1 /\ UNCHANGED <<pc, exit, files, tempFiles>>
    /\ OnlyPrepares

Workflow == CASE action \in {"LIST", "OUTDATED", "SEARCH", "INFO"} -> "query"
              [] action = "SNAPSHOT" -> "snapshot"
              [] action = "PACK" -> "pack"
              [] OTHER -> "plan"

(* All requests are resolved, or the command fails.                        *)
ResolveRequests ==
    /\ pc = "prepare" /\ at > Len(requests)
    /\ plugins' = IF ~world.proxyExpansion THEN plugins
                  ELSE AfterLoading(world, known, AskedFor(world, known, requests))
    /\ IF Resolvable(world, known, requests)
       THEN /\ requests' = resolveRequests(world, known, requests)
            /\ Goto(Workflow)
            /\ UNCHANGED <<files, tempFiles>>
       ELSE Return(1) /\ UNCHANGED requests
    /\ UNCHANGED <<asked, records, at, graph, cleared, did>>
----------------------------------------------------------------------------
(* Workflows that change nothing.                                          *)

Found(q) == IF q.action \in {"LIST", "OUTDATED"} THEN list(world, known, q)
            ELSE search(world, known, q)
QueryFails == action = "INFO" /\ Found(requests[1]) = {}

(* The answers are shown; only info fails when there is none.              *)
Query ==
    /\ pc = "query"
    /\ did' = [did EXCEPT !.exported =
                 UNION {{Item(requests[i].system, info, NoTarget) :
                           info \in Found(requests[i])} :
                        i \in IF action = "INFO" THEN {1} ELSE DOMAIN requests}]
    /\ Return(Code(~QueryFails))
    /\ UNCHANGED <<asked, records, plugins, requests, at, graph, cleared>>

(* An interactive search starts a new command that installs what was       *)
(* picked, from the system of the first request.                           *)
PickSearchResult(spec) ==
    /\ pc = "query" /\ action = "SEARCH" /\ \E i \in DOMAIN requests : "interactive" \in requests[i].flags
    /\ spec \in UNION {Found(requests[i]) : i \in DOMAIN requests}
    /\ requests' = <<Request("INSTALL", requests[1].system, <<Specifier(spec.name, "")>>, NoTarget, {})>>
    /\ Goto("start") /\ at' = 1
    /\ plugins' = {Builtin}
    /\ did' = [did EXCEPT !.picked = TRUE]
    /\ UNCHANGED <<asked, records, files, tempFiles, graph, cleared>>

Snapshot(ok) ==
    /\ pc = "snapshot"
    /\ Return(Code(ok))
    /\ UNCHANGED <<asked, records, plugins, requests, at, graph, cleared, did>>

PackFails(ok, registered, written) == ~ok \/ ~(registered \/ written)

(* Built in, or by the plugin: it must report an artifact, or the file it  *)
(* was told to write must be there.                                        *)
Pack(ok, registered, written) ==
    /\ pc = "pack"
    /\ requests[1].system = "" => ok = registered /\ ~written
    /\ "output" \notin requests[1].flags => ~written
    /\ \E fails \in {\/ PackFails(ok, registered, written)
                     \/ requests[1].system \notin world.packs \cup {""}
                     \/ requests[1].system # "" /\ ~loadPlugin(world, known, requests[1].system)} :
          /\ did' = [did EXCEPT !.artifact = ok /\ (registered \/ written)]
          /\ Return(Code(~fails))
    /\ UNCHANGED <<asked, records, plugins, requests, at, graph, cleared>>
----------------------------------------------------------------------------
(* Planning, and what uses the graph.                                      *)

Planned == IF action \in {"SBOM", "AUDIT"} THEN PrepareInspection(world, known, requests) ELSE requests
MissesSbom == /\ action = "SBOM" /\ ~world.skipMissing
              /\ MissingFromSbom(world, known, requests) # {}

Count == Cardinality({i \in DOMAIN requests :
                        requests[i].packages # <<>> \/ UsesLocalTarget(requests[i])})

(* runEmptyGraphInstallEnsure: nothing is left to install or to ensure.    *)
Satisfied(planned) ==
    /\ planned = {} /\ action \in {"INSTALL", "ENSURE"}
    /\ Count > 0 \/ \E i \in DOMAIN requests : SystemOnly(requests[i])

SatisfiedExit(P) ==
    Code(\A i \in DOMAIN requests : requests[i].system # "" =>
            requests[i].system \in P \/ loadPlugin(world, known, requests[i].system))

(* build_already_satisfied_json: what is reported as skipped.              *)
AlreadySatisfied == UNION {addRequestToGraph(world, requests[i]) : i \in DOMAIN requests}

(* The graph that plan builds from requests, with the plugins in P.        *)
PlanWith(P) ==
    \E planned \in {plan(world, KnownWith(P), Planned)} :
        IF Satisfied(planned)
        THEN /\ Return(SatisfiedExit(P)) /\ UNCHANGED graph
             /\ did' = [did EXCEPT !.skipped = IF SatisfiedExit(P) = 0 THEN AlreadySatisfied ELSE {}]
        ELSE /\ graph' = planned /\ UNCHANGED <<files, tempFiles, did>>
             /\ Goto(IF action \in {"SBOM", "AUDIT"} THEN "export" ELSE "validate")

Plan ==
    /\ pc = "plan"
    /\ IF MissesSbom THEN Return(1) /\ UNCHANGED <<graph, plugins, did>>
       ELSE plugins' = AfterPlanning(world, known, requests)
            /\ PlanWith(AfterPlanning(world, known, requests))
    /\ UNCHANGED <<asked, records, requests, at, cleared>>

(* The SBOM is written; an audit that is printed fails when it finds       *)
(* something.                                                              *)
Export(ok) ==
    /\ pc = "export"
    /\ did' = IF ok THEN [did EXCEPT !.exported = graph] ELSE did
    /\ Return(Code(/\ ok
                   /\ \/ action = "SBOM" \/ "output" \in requests[1].flags
                      \/ Validated(graph)))
    /\ UNCHANGED <<asked, records, plugins, requests, at, graph, cleared>>

ValidateGraph ==
    IF Validated(graph)
    THEN cleared' = graph /\ Goto("execute") /\ UNCHANGED <<files, tempFiles>>
    ELSE Return(1) /\ UNCHANGED cleared

Validate ==
    /\ pc = "validate"
    /\ ValidateGraph
    /\ UNCHANGED <<asked, records, plugins, requests, at, graph, did>>

(* The executer runs the graph (Executer).  A package whose plugin cannot  *)
(* be loaded fails; a local target is read now.                            *)
Runnable(item) == gatewayExists(world, item.system) \/ loadPlugin(world, known, item.system)

Execute(failed) ==
    /\ pc = "execute"
    /\ failed \subseteq graph
    /\ \A item \in graph \ failed :
          Runnable(item) /\ (item.source # NoTarget => item.source \in DOMAIN files)
    /\ did' = [did EXCEPT !.executed =
                 {<<item, IF item.source = NoTarget THEN "" ELSE files[item.source].content>> :
                    item \in graph \ failed}]
    /\ Return(Code(failed = {}))
    /\ UNCHANGED <<asked, records, plugins, requests, at, graph, cleared>>
----------------------------------------------------------------------------
Failures(S) == {{}} \cup {{x} : x \in S} \cup {S}

Next == \/ \E ok \in BOOLEAN : \/ RefreshRegistry(ok)
                               \/ RefreshWrapper(ok) \/ PluginInstall(ok) \/ PluginRemove(ok)
                               \/ Snapshot(ok) \/ Export(ok)
        \/ ExpandAndDiscover \/ Dispatch \/ ListAndValidate
        \/ \E failed \in Failures(systems) : UpdateSystems(failed)
        \/ SkipRequest \/ Download \/ DownloadFails \/ Unpack \/ UnpackThrows \/ ResolveTarget
        \/ ResolveRequests
        \/ Query
        \/ \E spec \in UNION {world.offered[s] : s \in DOMAIN world.offered} : PickSearchResult(spec)
        \/ \E ok, registered, written \in BOOLEAN : Pack(ok, registered, written)
        \/ Plan \/ Validate
        \/ \E failed \in Failures(graph) : Execute(failed)

Spec == Init /\ [][Next]_vars
----------------------------------------------------------------------------
Succeeded == pc = "done" /\ exit = 0

Proxies == {s \in DOMAIN world.proxy : loadPlugin(world, known, s)}
TargetOf(s) == resolvePluginName(world, world.proxy[s].target)
NameOf(q, spec) == IF spec.name \in DOMAIN records /\ records[spec.name].kind = "package"
                   THEN records[spec.name].target ELSE q.system

(* What <<system, name>> becomes when the answer of its proxy is followed. *)
Hop(pair, answer) ==
    IF answer.local # NoTarget THEN {<<TargetOf(pair[1]), answer.local[2]>>}
    ELSE IF answer.renames = <<>> THEN {<<TargetOf(pair[1]), pair[2]>>}
    ELSE {<<TargetOf(pair[1]), answer.renames[k].name>> : k \in DOMAIN answer.renames}

Follow(verb, pairs) ==
    UNION {IF pair[1] \in Proxies THEN Hop(pair, resolveProxyRequest(world, verb, pair[1]))
           ELSE {pair} : pair \in pairs}

Meant(q, spec) ==
    LET level[k \in 0 .. Cardinality(DOMAIN world.proxy)] ==
            IF k = 0 THEN {<<resolvePluginName(world, NameOf(q, spec)), spec.name>>}
            ELSE IF world.proxyExpansion THEN Follow(q.action, level[k - 1]) ELSE level[k - 1]
    IN  level[Cardinality(DOMAIN world.proxy)]

Ran == {<<x[1].system, x[1].name>> : x \in did.executed}
NamedIn(q) == {q.packages[k] : k \in DOMAIN q.packages}

(* Every package that is named was worked on, or was there already.        *)
PackagesServed ==
    \A i \in DOMAIN command : \A spec \in NamedIn(command[i]) :
        \A pair \in Meant(command[i], spec) :
            \/ pair \in Ran
            \/ command[i].action = "INSTALL" /\ pair \notin world.missing
            \/ command[i].action \notin {"INSTALL", "REMOVE", "UPDATE"}

(* What is reported as there already is there.                             *)
SkippedAreThere == \A item \in did.skipped : <<item.system, item.name>> \notin world.missing

ContentOf(target) == IF target[1] = "url" THEN world.served[target].content
                     ELSE world.files[target].content

(* The content of every local target was installed.                        *)
TargetsServed ==
    \A i \in DOMAIN command : NeedsTarget(command[i]) =>
        \E x \in did.executed : x[2] = ContentOf(command[i].target)

(* A command of system-only requests for one flow served every system.     *)
Unmixed == \A i \in DOMAIN command :
              /\ command[i].packages = <<>> /\ ~UsesLocalTarget(command[i])
              /\ command[i].system \notin Reserved \cup world.gateways
              /\ ~(command[i].system \in DOMAIN records /\ records[command[i].system].kind = "package")
              /\ command[i].flags = command[1].flags
SystemServed(q) ==
    CASE q.action = "INSTALL" -> resolvePluginName(world, q.system) \in plugins
      [] q.action = "REMOVE" -> resolvePluginName(world, q.system) \notin plugins
      [] IsUpdateAll(q) -> \A s \in UpdateAllNames(world, known) :
                              s \in did.refreshed \cup did.updated \cup Reserved
      [] q.action = "UPDATE" -> q.system \in did.refreshed \cup did.updated
      [] OTHER -> TRUE
SystemsServed == Unmixed => \A i \in DOMAIN command : SystemServed(command[i])

(* What a plugin that is there requires was made sure of.                  *)
RequirementsServed ==
    \A i \in DOMAIN command :
        command[i].action = "ENSURE" /\ command[i].system \in plugins \cap DOMAIN world.requires =>
            \A d \in world.requires[command[i].system] :
                <<d.system, d.name>> \in Ran \/ <<d.system, d.name>> \notin world.missing

(* An SBOM names every package asked for; a pack left an artifact.         *)
ReportsServed ==
    \A i \in DOMAIN command :
        /\ command[i].action = "SBOM" /\ ~world.skipMissing =>
              \A spec \in NamedIn(command[i]) : \A pair \in Meant(command[i], spec) :
                  \E item \in did.exported : <<item.system, item.name>> = pair
        /\ command[i].action = "PACK" => did.artifact

(* An exit code of 0 tells the truth: no named package, local target,      *)
(* system, requirement or report of the command was lost between the       *)
(* rewrites, the proxies, the planner's filter and the flows of            *)
(* OrchestratorDispatcher::run.                                            *)
NoSilentLoss ==
    Succeeded /\ ~did.picked =>
        /\ PackagesServed /\ SkippedAreThere /\ TargetsServed
        /\ SystemsServed /\ RequirementsServed /\ ReportsServed

(* A path of proxies that may be followed, one hop to the next.            *)
GoodHop(verb, s, target) ==
    /\ s \in Proxies /\ world.proxy[s].answers /\ TargetOf(s) = target
    /\ target \notin {"", s} /\ AllowedTarget(world, s, target)
    /\ verb # "INSTALL" \/ world.proxy[s].local = NoTarget \/ world.proxy[s].renames = <<>>
Leads(verb, s) ==
    \/ s \notin Proxies
    \/ \E n \in 1 .. MAX_PROXY_RESOLUTION_DEPTH - 1 : \E path \in [1 .. n -> Proxies] :
          /\ path[1] = s /\ TargetOf(path[n]) \notin Proxies
          /\ \A k \in 1 .. n : GoodHop(verb, path[k], IF k = n THEN TargetOf(path[n]) ELSE path[k + 1])

(* resolveRequest accepts exactly the requests whose proxies lead, hop by  *)
(* allowed hop and in fewer than MAX_PROXY_RESOLUTION_DEPTH of them, to a  *)
(* system that is no proxy; after it no request is left with a proxy, and  *)
(* resolving again, as the planner and the executer do, changes nothing.   *)
ResolutionExact ==
    world.proxyExpansion =>
        /\ pc = "prepare" /\ at > Len(requests) =>
              \A i \in DOMAIN requests : requests[i].system # "" =>
                  (resolveRequest(world, known, requests[i]).result = "resolved")
                      = Leads(requests[i].action, resolvePluginName(world, requests[i].system))
        /\ pc \in {"query", "snapshot", "pack", "plan", "export", "validate", "execute"} =>
              /\ systems \cap Proxies = {}
              /\ resolveRequests(world, known, requests) = requests

(* However a command ends, nothing is left in the temporary directory; the *)
(* one exception is a decrypted layer below an archive layer that throws   *)
(* (extract_archive_to_temp_directory loses the list of its clean-ups).    *)
TempFilesRemoved ==
    pc = "done" => \A f \in DOMAIN files \ DOMAIN world.files : f[1] = "decrypt" /\ exit = 1

(* The system that an update of the whole of s really updates.             *)
UpdatedSystem(s) ==
    resolvePluginName(world, resolveRequest(world, known, WholeSystem(s)).request.system)

(* Nothing reaches the executer or updateSystems that the validator has    *)
(* not passed: the packages of the graph, and the packages that the        *)
(* systems of a system-wide update list as installed.                      *)
ValidatedBeforeChanged ==
    /\ {x[1] : x \in did.executed} \subseteq cleared
    /\ did.executed \cup did.updated # {} => cleared \cap world.vulnerable = {}
    /\ \A s \in did.updated : \A info \in list(world, known, WholeSystem(s)) :
          info.name # "" => Item(UpdatedSystem(s), info, NoTarget) \in cleared
=============================================================================
