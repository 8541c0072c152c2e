------------------------ MODULE RequestPreparation ------------------------
(***************************************************************************)
(* What becomes of the requests of a command before anything is changed:   *)
(* update-all is expanded, registry packages are recognised, proxies are   *)
(* followed (workflows/orchestrator/orchestrator_request_prep.cpp,         *)
(* orchestrator_plugin_flows.cpp, orchestrator_analysis.cpp,               *)
(* engine/resolution/request_resolution.cpp, engine/planner/planner*.cpp,  *)
(* engine/scheduler/executor_query_ops.cpp).                               *)
(*                                                                         *)
(* w is the world of a command: what the plugins, the network and the      *)
(* configuration answer.  known is what the registry knows: its records    *)
(* and the plugins it has discovered.                                      *)
(***************************************************************************)
EXTENDS Naturals, Sequences, FiniteSets, SequencesExt

CONSTANT MAX_PROXY_RESOLUTION_DEPTH

ASSUME DepthAssumption == MAX_PROXY_RESOLUTION_DEPTH \in Nat \ {0}

Builtin == "rqp"
Reserved == {"sys", Builtin}
NoTarget == <<>>    \* a location is <<"path" | "url" | "download" | ..., name>>

(* A package specifier is a name and a version, "" when it has none.       *)
Specifier(name, version) == [name |-> name, version |-> version]

Request(action, system, packages, target, flags) ==
    [action |-> action, system |-> system, packages |-> packages,
     target |-> target, flags |-> flags]

UsesLocalTarget(r) == r.target # NoTarget
SystemOnly(r) == r.system # "" /\ ~UsesLocalTarget(r) /\ r.packages = <<>>
All(requests, P(_)) == requests # <<>> /\ \A i \in DOMAIN requests : P(requests[i])
----------------------------------------------------------------------------
(* The registry, as the orchestrator sees it.                              *)

resolvePluginName(w, name) == IF name \in DOMAIN w.alias THEN w.alias[name] ELSE name

PluginRecord(records, s) == s \in DOMAIN records /\ records[s].kind = "plugin"

(* A plugin that is not there yet is written from its record.              *)
Fetchable(w, known, s) == PluginRecord(known.records, s) /\ s \in w.fetchable

loadPlugin(w, known, name) ==
    \E s \in {resolvePluginName(w, name)} :
        s \in w.loads /\ (s \in known.plugins \/ Fetchable(w, known, s))

(* The plugins after the ones of S have been asked for.                    *)
AfterLoading(w, known, S) == known.plugins \cup {s \in S : Fetchable(w, known, s)}

gatewayExists(w, s) == s \in w.gateways

(* The system of a local file or directory; a directory whose files belong *)
(* to two systems has none.                                                *)
resolveSystemForLocalTarget(known, file) ==
    LET candidates == file.owners \cap known.plugins
    IN  IF candidates = {} \/ (file.directory /\ Cardinality(candidates) > 1) THEN ""
        ELSE CHOOSE s \in candidates : TRUE
----------------------------------------------------------------------------
(* Update-all: every plugin on disk and every plugin of a git registry.    *)

UpdateAllNames(w, known) ==
    (w.disk \ (Reserved \cup {""}))
        \cup (IF w.git THEN {s \in DOMAIN known.records : PluginRecord(known.records, s)} ELSE {})

IsUpdateAll(r) == r.action = "UPDATE" /\ r.system = "" /\ "expand" \in r.flags

expand_update_all_requests(w, known, requests) ==
    IF ~\E i \in DOMAIN requests : IsUpdateAll(requests[i]) THEN requests
    ELSE LET first == CHOOSE i \in DOMAIN requests :
                         /\ IsUpdateAll(requests[i])
                         /\ \A j \in 1 .. i - 1 : ~IsUpdateAll(requests[j])
         IN  RemoveAt(requests, first)
             \o [i \in 1 .. Cardinality(UpdateAllNames(w, known)) |->
                   Request("UPDATE", SetToSeq(UpdateAllNames(w, known))[i], <<>>, NoTarget,
                           requests[first].flags \ {"expand"})]

(* `install gateway npm pip': the systems are the gateway's packages.      *)
GatewayPackage(w, known, action, r) ==
    /\ r.action = action /\ SystemOnly(r)
    /\ r.system \in known.plugins \/ Fetchable(w, known, r.system)

rewrite_security_gateway_package_requests(w, known, requests) ==
    IF /\ Len(requests) >= 2
       /\ gatewayExists(w, requests[1].system)
       /\ requests[1].action \in {"INSTALL", "UPDATE", "ENSURE"}
       /\ SystemOnly(requests[1])
       /\ \A i \in 2 .. Len(requests) :
             GatewayPackage(w, known, requests[1].action, requests[i])
    THEN <<[requests[1] EXCEPT !.packages =
              [i \in 1 .. Len(requests) - 1 |-> Specifier(requests[i + 1].system, "")]]>>
    ELSE requests

(* A name that the registry holds as a package is installed by the system  *)
(* of the record, from the record's repository.                            *)
apply_registry_package_rewrite(known, r, spec) ==
    IF spec.name \in DOMAIN known.records /\ known.records[spec.name].kind = "package"
    THEN [r EXCEPT !.system = known.records[spec.name].target, !.packages = <<spec>>,
                   !.flags = @ \cup {"repository"}]
    ELSE r

MutRewriteRequest(known, r) ==
    IF r.system = "" \/ UsesLocalTarget(r) THEN <<r>>
    ELSE IF r.packages = <<>> THEN <<apply_registry_package_rewrite(known, r, Specifier(r.system, ""))>>
    ELSE <<apply_registry_package_rewrite(known, r, r.packages[1])>>

RewriteRequest(known, r) ==
    IF r.system = "" \/ UsesLocalTarget(r) THEN <<r>>
    ELSE IF r.packages = <<>> THEN <<apply_registry_package_rewrite(known, r, Specifier(r.system, ""))>>
    ELSE [i \in DOMAIN r.packages |->
            apply_registry_package_rewrite(known, [r EXCEPT !.packages = <<r.packages[i]>>],
                                           r.packages[i])]

rewrite_registry_package_requests(known, requests) ==
    FlattenSeq([i \in DOMAIN requests |-> RewriteRequest(known, requests[i])])
----------------------------------------------------------------------------
(* Which flow a command takes.                                             *)

request_targets_plugin_wrapper_refresh(r) ==
    /\ r.action = "UPDATE" /\ SystemOnly(r) /\ r.system \notin Reserved
    /\ "all" \notin r.flags \/ "refresh-all" \in r.flags

request_targets_system_wide_package_update(r) ==
    /\ r.action = "UPDATE" /\ SystemOnly(r) /\ r.system # "sys"
    /\ "all" \in r.flags /\ "refresh-all" \notin r.flags

request_targets_plugin_install(r) == r.action = "INSTALL" /\ SystemOnly(r)

request_targets_plugin_remove(r) ==
    r.action = "REMOVE" /\ SystemOnly(r) /\ r.system \notin Reserved

Flow(requests) ==
    CASE All(requests, request_targets_system_wide_package_update) -> "system-wide"
      [] All(requests, request_targets_plugin_wrapper_refresh) -> "refresh"
      [] All(requests, request_targets_plugin_install) -> "plugin-install"
      [] All(requests, request_targets_plugin_remove) -> "plugin-remove"
      [] OTHER -> "prepare"
----------------------------------------------------------------------------
(* Following proxies.  A chain is [request, visited, result]; result is    *)
(* "more" while it goes on.                                                *)

AllowedTarget(w, s, target) == s \notin DOMAIN w.targets \/ target \in w.targets[s]

(* resolveProxyRequest: a proxy may give an install other packages, or a   *)
(* file, and sends the other requests on as they are.                      *)
resolveProxyRequest(w, verb, s) ==
    IF verb = "INSTALL" THEN w.proxy[s]
    ELSE [w.proxy[s] EXCEPT !.renames = <<>>, !.local = NoTarget]

(* What the answer makes of the request.                                   *)
Answered(r, target, answer) ==
    [r EXCEPT !.system = target,
              !.packages = IF answer.local # NoTarget THEN <<>>
                           ELSE IF answer.renames # <<>> THEN answer.renames ELSE @,
              !.target = IF answer.local # NoTarget THEN answer.local
                         ELSE IF answer.renames # <<>> THEN NoTarget ELSE @]

Ended(chain, result) == [chain EXCEPT !.result = result]

FollowAnswer(w, chain, target, answer) ==
    IF \/ target \in {"", chain.request.system}
       \/ ~AllowedTarget(w, chain.request.system, target)
       \/ answer.local # NoTarget /\ answer.renames # <<>>
    THEN Ended(chain, "error")
    ELSE [request |-> Answered(chain.request, target, answer),
          visited |-> Append(chain.visited, chain.request.system), result |-> "more"]

MutFollowProxy(w, known, chain) ==
    IF chain.request.system = "" THEN Ended(chain, "resolved")
    ELSE IF Len(chain.visited) >= MAX_PROXY_RESOLUTION_DEPTH THEN Ended(chain, "resolved")
    ELSE IF ~loadPlugin(w, known, chain.request.system) THEN Ended(chain, "resolved")
    ELSE IF chain.request.system \notin DOMAIN w.proxy THEN Ended(chain, "resolved")
    ELSE IF Contains(chain.visited, chain.request.system)
            \/ ~w.proxy[chain.request.system].answers
         THEN Ended(chain, "error")
    ELSE FollowAnswer(w, chain, resolvePluginName(w, w.proxy[chain.request.system].target),
                      resolveProxyRequest(w, chain.request.action, chain.request.system))

(* resolveRequestRecursive: the depth is checked before the plugin is.     *)
FollowProxy(w, known, chain) ==
    IF chain.request.system = "" THEN Ended(chain, "resolved")
    ELSE IF Len(chain.visited) >= MAX_PROXY_RESOLUTION_DEPTH THEN Ended(chain, "error")
    ELSE IF ~loadPlugin(w, known, chain.request.system) THEN Ended(chain, "resolved")
    ELSE IF chain.request.system \notin DOMAIN w.proxy THEN Ended(chain, "resolved")
    ELSE IF Contains(chain.visited, chain.request.system)
            \/ ~w.proxy[chain.request.system].answers
         THEN Ended(chain, "error")
    ELSE FollowAnswer(w, chain, resolvePluginName(w, w.proxy[chain.request.system].target),
                      resolveProxyRequest(w, chain.request.action, chain.request.system))

Unresolved(w, r) == [request |-> [r EXCEPT !.system = resolvePluginName(w, @)],
                     visited |-> <<>>, result |-> "more"]

resolveRequest(w, known, r) ==
    LET chain[k \in 0 .. MAX_PROXY_RESOLUTION_DEPTH + 1] ==
            IF k = 0 THEN Unresolved(w, r)
            ELSE IF chain[k - 1].result = "more" THEN FollowProxy(w, known, chain[k - 1])
            ELSE chain[k - 1]
    IN  IF ~w.proxyExpansion \/ r.system = ""
        THEN [request |-> r, visited |-> <<>>, result |-> "resolved"]
        ELSE chain[MAX_PROXY_RESOLUTION_DEPTH + 1]

Resolvable(w, known, requests) ==
    \A i \in DOMAIN requests : resolveRequest(w, known, requests[i]).result = "resolved"

resolveRequests(w, known, requests) ==
    [i \in DOMAIN requests |-> resolveRequest(w, known, requests[i]).request]

(* The systems whose plugins the resolution asks for.                      *)
AskedFor(w, known, requests) ==
    UNION {Range(resolveRequest(w, known, requests[i]).visited)
             \cup {resolveRequest(w, known, requests[i]).request.system} : i \in DOMAIN requests}
----------------------------------------------------------------------------
(* The questions the executer puts to plugins (executor_query_ops.cpp).    *)

package_info_matches_list_filter(info, spec) == info.name = spec.name

apply_requested_package_subset(infos, specs) ==
    IF specs = <<>> THEN infos
    ELSE {info \in infos : \E i \in DOMAIN specs : package_info_matches_list_filter(info, specs[i])}

Answering(w, known, chain) ==
    chain.result = "resolved" /\ loadPlugin(w, known, chain.request.system)

list(w, known, r) ==
    LET chain == resolveRequest(w, known, r)
    IN  IF ~Answering(w, known, chain) THEN {}
        ELSE apply_requested_package_subset(w.installed[resolvePluginName(w, chain.request.system)],
                                            chain.request.packages)

(* search and info: what the plugin offers under the names asked for.      *)
search(w, known, r) ==
    LET chain == resolveRequest(w, known, r)
    IN  IF ~Answering(w, known, chain) THEN {}
        ELSE apply_requested_package_subset(w.offered[resolvePluginName(w, chain.request.system)],
                                            chain.request.packages)

(* The names of a listing, with their versions.                            *)
package_specifiers_from_infos(infos) == SetToSeq({info \in infos : info.name # ""})

WithListed(w, known, r) ==
    [r EXCEPT !.packages = package_specifiers_from_infos(list(w, known, r))]

expand_system_wide_update_requests(w, known, requests) ==
    [i \in DOMAIN requests |-> WithListed(w, known, requests[i])]

(* resolvePackage: the version a package without one stands for.           *)
resolvePackage(w, known, r, spec) ==
    LET chain == resolveRequest(w, known, r)
        found == {info \in w.offered[resolvePluginName(w, chain.request.system)] :
                    info.name = spec.name}
    IN  IF ~Answering(w, known, chain) \/ found = {} THEN {} ELSE {CHOOSE info \in found : TRUE}

(* A package the system does not have keeps the specifier in an audit and  *)
(* is missing, or left out, in an SBOM.                                    *)
ResolvedSpec(w, known, r, spec, otherwise) ==
    IF spec.version # "" THEN {spec}
    ELSE IF resolvePackage(w, known, r, spec) = {} THEN otherwise
    ELSE resolvePackage(w, known, r, spec)

Listed(w, known, r) == IF SystemOnly(r) THEN WithListed(w, known, r) ELSE r

ResolvedSpecs(w, known, r, keep) ==
    SetToSeq(UNION {ResolvedSpec(w, known, r, r.packages[i],
                                 IF keep THEN {r.packages[i]} ELSE {}) : i \in DOMAIN r.packages})

Inspected(w, known, r) ==
    [Listed(w, known, r) EXCEPT
        !.packages = ResolvedSpecs(w, known, Listed(w, known, r), r.action = "AUDIT")]

(* expand_system_only_audit_requests, resolve_audit_requests and           *)
(* resolve_sbom_requests.                                                  *)
PrepareInspection(w, known, requests) ==
    [i \in DOMAIN requests |->
        IF requests[i].system = "" \/ UsesLocalTarget(requests[i]) THEN requests[i]
        ELSE Inspected(w, known, requests[i])]

MissingFromSbom(w, known, requests) ==
    {i \in DOMAIN requests :
        /\ requests[i].system # "" /\ ~UsesLocalTarget(requests[i])
        /\ \E k \in DOMAIN Listed(w, known, requests[i]).packages :
              ResolvedSpec(w, known, requests[i], Listed(w, known, requests[i]).packages[k], {}) = {}}
----------------------------------------------------------------------------
(* Planning: the packages of the graph (its edges are in Planner).         *)

Item(system, spec, source) == [system |-> system, name |-> spec.name,
                               version |-> spec.version, source |-> source]

(* The plugins that ensurePluginsAvailable and queueDependencyDownload     *)
(* bring in before the graph is built.                                     *)
Required(w, s) == {d.system : d \in w.requires[s]}

AfterPlanning(w, known, requests) ==
    LET asked == {requests[i].system : i \in DOMAIN requests}
    IN  AfterLoading(w, known, asked \cup UNION {Required(w, s) : s \in asked \cap DOMAIN w.requires})

(* getMissingPackages; without a plugin to ask, everything is missing.     *)
Missing(w, known, system, name) ==
    \/ gatewayExists(w, system) \/ ~loadPlugin(w, known, system)
    \/ <<resolvePluginName(w, system), name>> \in w.missing

(* What an install leaves of a request.                                    *)
StillMissing(w, known, r) ==
    IF r.action # "INSTALL" THEN r
    ELSE [r EXCEPT !.packages =
            SetToSeq({spec \in Range(@) : Missing(w, known, r.system, spec.name)})]

(* A request with nothing left to install is dropped.  The graph does not  *)
(* depend on the order of the others: they are a set from here on.         *)
filterRequestedPackages(w, known, requests) ==
    {StillMissing(w, known, r) :
       r \in {q \in Range(requests) : \/ q.packages = <<>>
                                     \/ StillMissing(w, known, q).packages # <<>>}}

(* A target stands for one package, other requests for those they name.    *)
addRequestToGraph(w, r) ==
    IF r.packages = <<>>
    THEN IF ~UsesLocalTarget(r) THEN {}
         ELSE {Item(resolvePluginName(w, r.system), Specifier(r.target[2], ""), r.target)}
    ELSE {Item(resolvePluginName(w, r.system), r.packages[i], NoTarget) : i \in DOMAIN r.packages}

RequirementsOf(w, known, s) ==
    IF s \notin known.plugins \/ s \notin DOMAIN w.requires \/ gatewayExists(w, s) THEN {}
    ELSE {d \in w.requires[s] : Missing(w, known, d.system, d.name)}

(* addPackageToGraph: with every package what its plugin requires.         *)
WithRequirements(w, known, items) ==
    LET level[k \in 0 .. Cardinality(DOMAIN w.requires)] ==
            IF k = 0 THEN items
            ELSE level[k - 1] \cup UNION {RequirementsOf(w, known, p.system) : p \in level[k - 1]}
    IN  level[Cardinality(DOMAIN w.requires)]

(* shouldInstallPluginDependencies: the marker file is believed.           *)
IncludeDependencies(w, r) ==
    /\ r.action = "INSTALL" /\ ~gatewayExists(w, r.system)
    /\ resolvePluginName(w, r.system) \notin w.ready

buildDag(w, known, S) ==
    UNION {IF IncludeDependencies(w, r) THEN WithRequirements(w, known, addRequestToGraph(w, r))
           ELSE addRequestToGraph(w, r) : r \in S}

(* An ensure plans the requirements of the plugins and nothing else.       *)
plan(w, known, requests) ==
    IF All(requests, LAMBDA r : r.action = "ENSURE")
    THEN UNION {WithRequirements(w, known, RequirementsOf(w, known, requests[i].system)) :
                  i \in DOMAIN requests}
    ELSE buildDag(w, known, filterRequestedPackages(w, known, requests))
=============================================================================
