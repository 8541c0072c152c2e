----------------------------- MODULE RqpFormat -----------------------------
(***************************************************************************)
(* The .rqp package format (src/src/ecosystem/rqp_format/packages) as      *)
(* operators: which host a package is for, the repository index, the outer *)
(* archive and its payload, reading a package and packing a project.       *)
(*                                                                         *)
(* A path is the sequence of its segments and SegLen(s) is the length of a *)
(* segment.  A directory tree and an archive are functions from paths to   *)
(* entries [type, data, link]; type is "0" (file), "5" (directory), "2"    *)
(* (symbolic link) or another tar type.  Document contents are the records *)
(* a parser would produce, sha256 and zstd are taken to be injective.      *)
(***************************************************************************)
EXTENDS Naturals, Sequences, FiniteSets, SequencesExt

CONSTANTS SegLen(_), None

EmptyTree == [p \in {} |-> None]
File(data) == [type |-> "0", data |-> data, link |-> <<>>]
----------------------------------------------------------------------------
(* Hosts: architecture and system tokens.                                  *)

rq_architecture_matches(architecture, host) ==
    architecture \in {"noarch", host}

rq_normalize_architecture(architecture) ==
    IF architecture = "" THEN "noarch" ELSE architecture

rq_normalize_systems(systems) ==
    LET named == systems \ {""} IN IF named = {} THEN {"nosys"} ELSE named

rq_builtin_system_aliases ==
    [family \in {"darwin-family", "debian-family", "rhel-family", "nix-family"} |->
        CASE family = "darwin-family" -> {"darwin", "macos"}
          [] family = "debian-family" -> {"debian", "ubuntu", "linuxmint", "pop", "dpkg", "apt"}
          [] family = "rhel-family" ->
                {"almalinux", "centos", "fedora", "rhel", "rocky", "rpm", "dnf", "yum"}
          [] family = "nix-family" -> {"nix", "linux", "fedora", "debian", "ubuntu"}]

(* A configured alias extends the built-in family of the same name.        *)
rq_merged_system_aliases(configured) ==
    LET builtin == rq_builtin_system_aliases
        members(f, a) == IF a \in DOMAIN f THEN f[a] ELSE {}
    IN  [a \in DOMAIN builtin \cup DOMAIN configured |->
            members(builtin, a) \cup (members(configured, a) \ {""})]

rq_host_system_tokens(os) ==
    LET tokens == {os.family, os.id, os.distroId} \ {""}
    IN  IF tokens \cap {"macos", "darwin"} = {}
        THEN tokens
        ELSE tokens \cup {"macos", "darwin"}

(* Follows members and containing aliases both ways; `visiting' holds the  *)
(* tokens of the current path of the recursion only, as in the code.       *)
expand_system_token(token, aliases) ==
    LET all == {token} \cup DOMAIN aliases \cup UNION {aliases[a] : a \in DOMAIN aliases}
        expand[tv \in all \X SUBSET all] ==
            LET t == tv[1]
                visiting == tv[2]
                members == IF t \in DOMAIN aliases THEN aliases[t] ELSE {}
                containing == {a \in DOMAIN aliases : t \in aliases[a]}
            IN  {t} \cup IF t \in visiting THEN {}
                         ELSE UNION {expand[<<n, visiting \cup {t}>>] :
                                        n \in members \cup containing}
    IN  expand[<<token, {}>>]

rq_system_matches(systems, hostSystems, aliases) ==
    \E s \in rq_normalize_systems(systems) :
        \/ s = "nosys"
        \/ \E h \in hostSystems :
              expand_system_token(s, aliases) \cap expand_system_token(h, aliases) # {}
----------------------------------------------------------------------------
(* Repository indexes.                                                     *)

(* One malformed package entry makes the whole index unusable.             *)
parse_index_impl(doc, source) ==
    IF \/ doc.schemaVersion # 1
       \/ \E i \in DOMAIN doc.packages :
             ~doc.packages[i].complete \/ doc.packages[i].packageSha256 = "malformed"
    THEN None
    ELSE [source |-> source,
          packages |-> [i \in DOMAIN doc.packages |->
             [doc.packages[i] EXCEPT
                !.architecture = rq_normalize_architecture(@),
                !.systems = rq_normalize_systems(@)]]]

is_better_candidate(candidate, currentBest) ==
    IF candidate.version # currentBest.version
    THEN candidate.version > currentBest.version
    ELSE IF candidate.release # currentBest.release
    THEN candidate.release > currentBest.release
    ELSE candidate.revision > currentBest.revision

(* The best entry of all indexes in their order; the first of equals.      *)
(* version 0 stands for "no version asked for".                            *)
resolve_package_impl(indexes, name, version, host, aliases) ==
    LET entries == FlattenSeq([i \in DOMAIN indexes |-> indexes[i].packages])
        eligible == {i \in DOMAIN entries :
                        /\ entries[i].name = name
                        /\ version = 0 \/ entries[i].version = version
                        /\ rq_architecture_matches(entries[i].architecture, host.architecture)
                        /\ rq_system_matches(entries[i].systems, host.systems, aliases)}
        best(i) == \A j \in eligible :
                      \/ is_better_candidate(entries[i], entries[j])
                      \/ i <= j /\ ~is_better_candidate(entries[j], entries[i])
    IN  IF \E i \in eligible : best(i) THEN entries[CHOOSE i \in eligible : best(i)]
        ELSE None
----------------------------------------------------------------------------
(* Metadata and hooks.                                                     *)

parse_metadata_json_impl(doc) ==
    IF ~doc.complete \/ doc.formatVersion # 1 THEN None
    ELSE [doc EXCEPT !.architecture = rq_normalize_architecture(@),
                     !.systems = rq_normalize_systems(@)]

(* What is written back: the optional fields, without the binaries.        *)
metadata_json_impl(metadata) ==
    [metadata EXCEPT !.architecture = rq_normalize_architecture(@),
                     !.systems = rq_normalize_systems(@),
                     !.optional = @ \ {"binaries"}]

(* The hooks of a reqpack.lua: a function from hook names to paths.        *)
parse_reqpack_hooks_impl(lua) ==
    IF ~lua.runs \/ lua.apiVersion # 1 \/ "install" \notin DOMAIN lua.hooks
    THEN None ELSE lua.hooks

(* Overrides are partial functions from fields to values.  One of the      *)
(* command line wins over one of the environment, where a release or       *)
(* revision that is not a number is ignored.                               *)
rq_pack_metadata_overrides_from_environment(overrides, environment, malformed) ==
    [f \in DOMAIN overrides \cup (DOMAIN environment \ malformed) |->
        IF f \in DOMAIN overrides THEN overrides[f] ELSE environment[f]]

rq_apply_pack_metadata_overrides(metadata, overrides) ==
    [f \in DOMAIN metadata |->
        IF f \in DOMAIN overrides THEN overrides[f] ELSE metadata[f]]
----------------------------------------------------------------------------
(* Archives.                                                               *)

path_has_invalid_segments(path) ==
    path = <<>> \/ \E i \in DOMAIN path : path[i] \in {"", ".", ".."}

validate_outer_entry_path(path) ==
    /\ ~path_has_invalid_segments(path)
    /\ path[1] \in {"metadata.json", "reqpack.lua", "hashes", "scripts", "payload", "bundle"}

validate_hook_files(hooks, tree) ==
    \A h \in DOMAIN hooks : /\ hooks[h] # <<>>
                            /\ validate_outer_entry_path(hooks[h])
                            /\ hooks[h] \in DOMAIN tree
                            /\ tree[hooks[h]].type = "0"

PathLength(path) ==
    IF path = <<>> THEN 0
    ELSE FoldLeft(LAMBDA n, s : n + SegLen(s), Len(path) - 1, path)

(* ustar: name of at most 100 bytes, prefix of at most 155; the split is   *)
(* the last separator that fits.                                           *)
split_tar_path_fields(path) ==
    LET fits(i) == /\ PathLength(SubSeq(path, 1, i)) <= 155
                   /\ PathLength(SubSeq(path, i + 1, Len(path))) <= 100
        splits == {i \in 1 .. Len(path) - 1 : fits(i)}
    IN  CASE PathLength(path) <= 100 -> [prefix |-> <<>>, name |-> path]
          [] PathLength(path) > 255 \/ (PathLength(path) > 100 /\ splits = {}) -> None
          [] OTHER -> LET i == CHOOSE j \in splits : \A k \in splits : k <= j
                      IN  [prefix |-> SubSeq(path, 1, i),
                           name |-> SubSeq(path, i + 1, Len(path))]

(* The header of an entry, or None when the entry does not fit into one.   *)
tar_header_for_entry(path, entry) ==
    IF \/ split_tar_path_fields(path) = None
       \/ entry.type = "2" /\ PathLength(entry.link) > 100
    THEN None
    ELSE [fields |-> split_tar_path_fields(path), entry |-> entry]

(* An archive is the function from the path fields to the entries.         *)
tar_bytes_from_entries(tree) ==
    IF \E p \in DOMAIN tree : tar_header_for_entry(p, tree[p]) = None THEN None
    ELSE [f \in {split_tar_path_fields(p) : p \in DOMAIN tree} |-> tree[f.prefix \o f.name]]

parse_tar_entries(bytes) ==
    LET header(p) == CHOOSE f \in DOMAIN bytes : f.prefix \o f.name = p
    IN  [p \in {f.prefix \o f.name : f \in DOMAIN bytes} |-> bytes[header(p)]]

(* An absolute link target starts with an empty segment.                   *)
validate_payload_symlink_target(link) == link # <<>> /\ link[1] # ""

validate_payload_entry(path, entry) ==
    /\ entry.type \in {"0", "5", "2"}
    /\ ~path_has_invalid_segments(path)
    /\ entry.type = "2" => validate_payload_symlink_target(entry.link)

validate_payload_archive_bytes(bytes) ==
    LET entries == parse_tar_entries(bytes)
    IN  \A p \in DOMAIN entries : validate_payload_entry(p, entries[p])

load_payload_hash(content) ==
    IF content.path # <<"payload", "payload.tar.zst">> THEN None ELSE content.hash

(* The payload entries of a source tree; None when one cannot be packed.   *)
collect_payload_tree_entries(tree) ==
    IF tree # None /\ \A p \in DOMAIN tree : validate_payload_entry(p, tree[p])
    THEN tree ELSE None

HashFile(bytes) == [hash |-> bytes, path |-> <<"payload", "payload.tar.zst">>]

build_payload_from_tree(tree) ==
    LET entries == collect_payload_tree_entries(tree)
        bytes == IF entries = None THEN None ELSE tar_bytes_from_entries(entries)
    IN  IF bytes = None THEN None
        ELSE [archiveBytes |-> bytes, hashContent |-> HashFile(bytes), metadata |-> "standard"]

build_payload_from_prebuilt(metadata, prebuilt) ==
    IF \/ metadata.payload # "standard"
       \/ prebuilt.bytes = None \/ prebuilt.hash = None
       \/ load_payload_hash(prebuilt.hash) # prebuilt.bytes
       \/ ~validate_payload_archive_bytes(prebuilt.bytes)
    THEN None
    ELSE [archiveBytes |-> prebuilt.bytes,
          hashContent |-> HashFile(prebuilt.bytes), metadata |-> "standard"]

SubtreeOf(tree, root) ==
    [p \in {Tail(q) : q \in {q \in DOMAIN tree : Len(q) > 1 /\ q[1] = root}} |->
        tree[<<root>> \o p]]

(* The files under a reserved directory, filed under relativeRoot.         *)
append_control_tree_files(tree, relativeRoot) ==
    IF \E p \in DOMAIN tree : \/ tree[p].type \notin {"0", "5"}
                              \/ ~validate_outer_entry_path(relativeRoot \o p)
    THEN None
    ELSE [q \in {relativeRoot \o p : p \in {p \in DOMAIN tree : tree[p].type = "0"}} |->
            tree[SubSeq(q, Len(relativeRoot) + 1, Len(q))]]

extract_tar_to_directory(bytes) == parse_tar_entries(bytes)
----------------------------------------------------------------------------
(* Reading a package.                                                      *)

MetadataPath == <<"metadata.json">>
ReqpackPath == <<"reqpack.lua">>
HashPath == <<"hashes", "payload.sha256">>
PayloadPath == <<"payload", "payload.tar.zst">>

(* The layout of a package that passes every check, None for the others.   *)
load_package_layout_impl(bytes, host, aliases, validateHostCompatibility) ==
    LET archive == parse_tar_entries(bytes)
        control == [p \in {q \in DOMAIN archive : archive[q].type = "0"} |-> archive[p]]
        has(p) == p \in DOMAIN control
        metadata == IF has(MetadataPath)
                    THEN parse_metadata_json_impl(control[MetadataPath].data) ELSE None
        hooks == IF has(ReqpackPath)
                 THEN parse_reqpack_hooks_impl(control[ReqpackPath].data) ELSE None
        payloadOk ==
            IF metadata.payload = "none" THEN ~has(PayloadPath) /\ ~has(HashPath)
            ELSE /\ metadata.payload = "standard"
                 /\ has(PayloadPath) /\ has(HashPath)
                 /\ load_payload_hash(control[HashPath].data) = control[PayloadPath].data
                 /\ validate_payload_archive_bytes(control[PayloadPath].data)
    IN  IF /\ \A p \in DOMAIN archive : /\ validate_outer_entry_path(p)
                                        /\ archive[p].type \in {"0", "5"}
           /\ metadata # None /\ hooks # None
           /\ validateHostCompatibility =>
                 /\ rq_architecture_matches(metadata.architecture, host.architecture)
                 /\ rq_system_matches(metadata.systems, host.systems, aliases)
           /\ validate_hook_files(hooks, control)
           /\ payloadOk
        THEN [metadata |-> metadata, hooks |-> hooks, control |-> control,
              payload |-> IF metadata.payload = "none" THEN EmptyTree
                          ELSE extract_tar_to_directory(control[PayloadPath].data)]
        ELSE None
----------------------------------------------------------------------------
(* Packing a project.                                                      *)

Failure(output) == [ok |-> FALSE, output |-> output]

(* The archive is written over the output first and validated after that.  *)
WriteAndValidate(entries, output, host, aliases) ==
    LET bytes == tar_bytes_from_entries(entries)
    IN  IF bytes = None THEN Failure(output)
        ELSE [ok |-> load_package_layout_impl(bytes, host, aliases, FALSE) # None,
              output |-> bytes]

(* A plugin bundle is packed as a package with hooks of its own.           *)
is_plugin_bundle_pack_project(project) ==
    /\ project.bundle # None
    /\ project.lua # None
    /\ parse_reqpack_hooks_impl(project.lua) = None

rq_metadata_from_plugin_bundle(bundle, overrides, host) ==
    LET metadata == rq_apply_pack_metadata_overrides(
            [bundle EXCEPT !.formatVersion = 1, !.release = 0, !.revision = 0,
                           !.architecture = rq_normalize_architecture(host.architecture),
                           !.systems = {bundle.name}, !.payload = "none"], overrides)
    IN  [metadata EXCEPT !.architecture = rq_normalize_architecture(@),
                         !.systems = rq_normalize_systems(@)]

build_plugin_bundle_package_impl(project, request, output, host, aliases) ==
    LET metadata == rq_metadata_from_plugin_bundle(project.bundle, request.overrides, host)
        install == <<"scripts", "install_plugin_bundle.lua">>
        remove == <<"scripts", "remove_plugin_bundle.lua">>
        lua == [runs |-> TRUE, apiVersion |-> 1,
                hooks |-> [h \in {"install", "remove"} |->
                              IF h = "install" THEN install ELSE remove]]
        fixed == [p \in {MetadataPath, ReqpackPath, install, remove} |->
                    File(CASE p = MetadataPath -> metadata_json_impl(metadata)
                           [] p = ReqpackPath -> lua
                           [] OTHER -> p)]
        tree == append_control_tree_files(project.tree, <<"bundle">>)
    IN  IF \/ output # None /\ ~request.overwrite
           \/ tree = None
        THEN Failure(output)
        ELSE WriteAndValidate([p \in DOMAIN fixed \cup DOMAIN tree |->
                IF p \in DOMAIN fixed THEN fixed[p] ELSE tree[p]], output, host, aliases)

(* request.overwrite: --force, or the answer to the prompt.                *)
build_package_impl(project, request, output, host, aliases) ==
    LET parsed == IF project.metadata = None THEN None
                  ELSE parse_metadata_json_impl(project.metadata)
        metadata == rq_apply_pack_metadata_overrides(parsed, request.overrides)
        hooks == IF project.lua = None THEN None ELSE parse_reqpack_hooks_impl(project.lua)
        external == request.payloadRoot # None
        embedded == project.payloadTree # None
        prebuilt == project.prebuilt # None
        ambiguous == embedded /\ (external \/ prebuilt)
        incomplete == prebuilt /\ project.prebuilt.dirs # {"payload", "hashes"}
        wanted == external \/ embedded \/ prebuilt
        payload == CASE external -> build_payload_from_tree(request.payloadRoot)
                     [] ~external /\ embedded -> build_payload_from_tree(project.payloadTree)
                     [] OTHER -> build_payload_from_prebuilt(metadata, project.prebuilt)
        scripts == append_control_tree_files(SubtreeOf(project.tree, "scripts"), <<"scripts">>)
        final == metadata_json_impl([metadata EXCEPT !.payload =
                    IF wanted THEN payload.metadata ELSE "none"])
        entries == [p \in {MetadataPath, ReqpackPath} \cup DOMAIN scripts
                          \cup (IF wanted THEN {HashPath, PayloadPath} ELSE {}) |->
                      CASE p = MetadataPath -> File(final)
                        [] p = ReqpackPath -> File(project.lua)
                        [] p = HashPath -> File(payload.hashContent)
                        [] p = PayloadPath -> File(payload.archiveBytes)
                        [] OTHER -> scripts[p]]
    IN  IF is_plugin_bundle_pack_project(project)
        THEN build_plugin_bundle_package_impl(project, request, output, host, aliases)
        ELSE IF \/ parsed = None \/ hooks = None
                \/ ~validate_hook_files(hooks, project.tree)
                \/ ambiguous \/ incomplete
                \/ wanted /\ payload = None
                \/ ~wanted /\ metadata.payload # "none"
                \/ output # None /\ ~request.overwrite
                \/ scripts = None
        THEN Failure(output)
        ELSE WriteAndValidate(entries, output, host, aliases)
=============================================================================
