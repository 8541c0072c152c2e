-------------------------- MODULE RegistryDatabase --------------------------
(***************************************************************************)
(* The registry database (src/src/ecosystem/registry/registry_database*.cpp*)
(* and registry_json_parser.cpp) as operators on its contents.             *)
(*                                                                         *)
(* A database is a function from the names it knows to records.  A source  *)
(* is [kind, url, ref]: a git repository (ref 0: none), a url, a local     *)
(* directory or a local file.  What a source holds is a number, 0 when it  *)
(* holds nothing valid, and a hash is the number it is the hash of; 0 is   *)
(* the empty string.  What reads a source also takes `env', the outside    *)
(* world: the contents of the sources, the repository cache, the network.  *)
(***************************************************************************)
EXTENDS Naturals, Sequences, FiniteSets, TLC

CONSTANTS
    Names,              \* names of plugins, aliases and packages
    Layout(_),          \* "bundle" or "script": what a source offers
    Tags(_),            \* source -> the tags of its repository, as listed;
                        \*   0 is a tag that is no version
    Explicit,           \* the sources of the configuration: name -> record
    RequireThinLayer,   \* security.requireThinLayer
    BadHash             \* a text that is no SHA-256

NoSource == [kind |-> "none", url |-> "", ref |-> 0]

(* A record has these fields, and a database records only.                 *)
IsRecord(r) ==
    r = [source |-> r.source, of |-> r.of, alias |-> r.alias, origin |-> r.origin,
         role |-> r.role, privilege |-> r.privilege, target |-> r.target, sha |-> r.sha,
         script |-> r.script, bundle |-> r.bundle]

IsDatabase(db) == db = [n \in DOMAIN db |-> db[n]] /\ \A n \in DOMAIN db : IsRecord(db[n])

(* The records of f, and those of g for the other names.                   *)
Over(f, g) == [n \in DOMAIN f \cup DOMAIN g |-> IF n \in DOMAIN f THEN f[n] ELSE g[n]]

(* What a document or a configuration says, before anything was fetched.   *)
Entry(source, of, origin, role, privilege, target, sha) ==
    [source |-> source, of |-> of, alias |-> of # "", origin |-> origin, role |-> role,
     privilege |-> privilege, target |-> target, sha |-> sha,
     script |-> 0, bundle |-> NoSource]
----------------------------------------------------------------------------
(* Documents: one file per plugin, called like the plugin.                 *)

build_main_record(file, doc) ==
    Entry(doc.source, "", file, doc.role, doc.privilege, doc.target, doc.sha)

build_alias_records(file, doc) ==
    [n \in doc.aliases |-> Entry(NoSource, file, file, "", "", "", 0)]

(* A document that does not parse has ok = FALSE: it throws.               *)
parse_registry_json_file(file, doc) ==
    Over(build_alias_records(file, doc), [n \in {file} |-> build_main_record(file, doc)])

(* The records of several files; no name is in two of them (see Registry). *)
ParseFiles(tree, files) ==
    LET parsed == [f \in files |-> parse_registry_json_file(f, tree[f])]
        claimed == UNION {DOMAIN parsed[f] : f \in files}
    IN  [n \in claimed |-> parsed[CHOOSE f \in files : n \in DOMAIN parsed[f]][n]]
----------------------------------------------------------------------------
(* What a record is, and whether it can be trusted.                        *)

registry_record_is_package_entry(record) == record.role = "package"

registry_record_target_system(record) ==
    IF record.target # "" THEN record.target
    ELSE IF registry_record_is_package_entry(record) THEN "rqp" ELSE ""

registry_record_can_materialize_plugin(record) ==
    ~record.alias /\ ~registry_record_is_package_entry(record)

registry_record_requires_script_hash(record) ==
    registry_record_can_materialize_plugin(record) /\ record.source.kind \in {"git", "url"}

ValidHash(sha) == sha \notin {0, BadHash}

registry_record_passes_thin_layer_trust(record) ==
    \/ ~RequireThinLayer \/ record.alias
    \/ /\ record.source # NoSource /\ record.role # "" /\ record.privilege # ""
       /\ registry_record_requires_script_hash(record) => ValidHash(record.sha)
       /\ record.source.kind = "git" => record.source.ref # 0

(* The bundle a record points to: a directory, or the repository's cache.  *)
BundleVersion(source, env) ==
    CASE source.kind = "dir" -> env.content[source]
      [] source.kind = "git" -> env.cache[source]
      [] OTHER -> 0

MutPayloadFiles(record, env) == record.script

(* What the hash is compared with: the bundle while it exists, else the    *)
(* script in the record.                                                   *)
registry_record_payload_files(record, env) ==
    IF BundleVersion(record.bundle, env) # 0 THEN BundleVersion(record.bundle, env)
    ELSE record.script

registry_record_matches_expected_hashes(record, env) ==
    \/ ~registry_record_can_materialize_plugin(record)
    \/ record.sha = 0
    \/ ValidHash(record.sha) /\ registry_record_payload_files(record, env) = record.sha
----------------------------------------------------------------------------
(* Payloads.                                                               *)

(* Where a bundle of this source is on this machine, NoSource if nowhere.  *)
resolve_bundle_path(source, env) ==
    IF Layout(source) = "bundle" /\ BundleVersion(source, env) # 0 THEN source ELSE NoSource

fetch_plugin_payload(source, env) ==
    IF source.kind \in {"git", "url"} /\ ~env.net THEN 0 ELSE env.content[source]

(* Fetching a git source syncs its cache; when that fails the cache is     *)
(* removed for a clone that fails as well.                                 *)
AfterFetch(source, env) ==
    IF source.kind # "git" THEN env
    ELSE [env EXCEPT !.cache[source] = fetch_plugin_payload(source, env)]

Unloaded(record) == [record EXCEPT !.script = 0, !.bundle = NoSource]
Loaded(record, version, source, env) ==
    [record EXCEPT !.script = version, !.bundle = resolve_bundle_path(source, env)]

(* The first of the highest versions among the tags.                       *)
latest_git_tag_for_source(source) ==
    LET tags == Tags(source)
        best(i) == tags[i] # 0 /\ \A j \in 1..Len(tags) :
                                    tags[j] < tags[i] \/ (tags[j] = tags[i] /\ i <= j)
    IN  IF \E i \in 1..Len(tags) : best(i)
        THEN tags[CHOOSE i \in 1..Len(tags) : best(i)] ELSE 0

registry_database_git_source_with_ref(source, ref) == [source EXCEPT !.ref = ref]

(* [ok, record, env]: the payload of this version is in the record.        *)
Fetched(loaded, version, env) ==
    [ok |-> version # 0 /\ registry_record_matches_expected_hashes(loaded, env),
     record |-> loaded, env |-> env]

FetchFrom(record, source, env) ==
    Fetched(Loaded(record, fetch_plugin_payload(source, env), source, AfterFetch(source, env)),
            fetch_plugin_payload(source, env), AfterFetch(source, env))

(* The source to refresh from: at the latest tag when that is asked for    *)
(* and the tags can be read.                                               *)
RefreshSource(source, preferLatestTag, env) ==
    IF /\ preferLatestTag /\ source.kind = "git" /\ env.net
       /\ latest_git_tag_for_source(source) # 0
    THEN registry_database_git_source_with_ref(source, latest_git_tag_for_source(source))
    ELSE source

(* [ok, record, env]: the record with its payload fetched again.           *)
refreshed_record_payload(record, preferLatestTag, env) ==
    CASE record.alias -> [ok |-> TRUE, record |-> record, env |-> env]
      [] ~record.alias /\ ~registry_record_can_materialize_plugin(record) ->
            [ok |-> TRUE, record |-> Unloaded(record), env |-> env]
      [] registry_record_can_materialize_plugin(record)
         /\ ~registry_record_passes_thin_layer_trust(record) ->
            [ok |-> FALSE, record |-> record, env |-> env]
      [] OTHER -> FetchFrom(record, RefreshSource(record.source, preferLatestTag, env), env)
----------------------------------------------------------------------------
(* Writing records.                                                        *)

(* An empty field keeps what is stored; the payload is kept while the      *)
(* source is the same.                                                     *)
Inherit(record, old) ==
    LET keep(new, was, empty) == IF new = empty THEN was ELSE new
        same == old.source = record.source /\ old.of = record.of /\ old.alias = record.alias
    IN  [record EXCEPT !.origin = keep(@, old.origin, ""),
                       !.role = keep(@, old.role, ""),
                       !.privilege = keep(@, old.privilege, ""),
                       !.target = keep(@, old.target, ""),
                       !.sha = keep(@, old.sha, 0),
                       !.script = IF same THEN old.script ELSE 0,
                       !.bundle = IF same THEN old.bundle ELSE NoSource]

(* One round of sync_records' loop, in its four stages: inherit and find   *)
(* the bundle, forget the payload of a record that is not trusted, fetch   *)
(* it again, forget a payload that is not the one expected.                *)
Located(record, env) ==
    IF registry_record_can_materialize_plugin(record) /\ record.bundle = NoSource
    THEN [record EXCEPT !.bundle = resolve_bundle_path(record.source, env)] ELSE record

Trusted(record) ==
    IF /\ registry_record_can_materialize_plugin(record)
       /\ ~registry_record_passes_thin_layer_trust(record)
    THEN Unloaded(record) ELSE record

Refetched(record, fetchPayloads, env) ==
    IF /\ fetchPayloads /\ registry_record_can_materialize_plugin(record)
       /\ record.script = 0 \/ ~registry_record_matches_expected_hashes(record, env)
    THEN IF fetch_plugin_payload(record.source, env) # 0
         THEN FetchFrom(record, record.source, env)
         ELSE [record |-> record, env |-> AfterFetch(record.source, env)]
    ELSE [record |-> record, env |-> env]

Expected(done) ==
    [record |-> IF /\ registry_record_can_materialize_plugin(done.record)
                   /\ done.record.script # 0
                   /\ ~registry_record_matches_expected_hashes(done.record, done.env)
                THEN Unloaded(done.record) ELSE done.record,
     env |-> done.env]

(* The record to store, and the world.                                     *)
desired_record(name, record, db, fetchPayloads, env) ==
    Expected(Refetched(Trusted(Located(IF name \in DOMAIN db THEN Inherit(record, db[name])
                                       ELSE record, env)),
                       fetchPayloads, env))

(* One transaction: first the deletions, then the records.                 *)
sync_records(db, records, replaceMissing, originPathsToDelete, env) ==
    LET namesToDelete == {n \in DOMAIN db : \/ replaceMissing /\ n \notin DOMAIN records
                                            \/ db[n].origin \in originPathsToDelete}
    IN  Over([n \in DOMAIN records |-> desired_record(n, records[n], db, FALSE, env).record],
             [n \in DOMAIN db \ namesToDelete |-> db[n]])

(* write_records: the explicit sources, with their payloads.  At most one  *)
(* of them is fetched from a repository, so the caches do not interfere.   *)
Overlaid(written, db, env) ==
    [db |-> Over([n \in DOMAIN Explicit |-> written[n].record], db),
     env |-> IF \A n \in DOMAIN Explicit : written[n].env = env THEN env
             ELSE written[CHOOSE n \in DOMAIN Explicit : written[n].env # env].env]

write_records(db, env) ==
    Overlaid([n \in DOMAIN Explicit |-> desired_record(n, Explicit[n], db, TRUE, env)], db, env)
----------------------------------------------------------------------------
(* Looking names up.                                                       *)

(* The name a chain of at most 16 aliases ends at.                         *)
ResolvedName(db, name) ==
    LET step[i \in 0..16] ==
            IF i = 0 THEN name
            ELSE LET n == step[i-1]
                 IN  IF n \in DOMAIN db /\ db[n].alias THEN db[n].of ELSE n
    IN  step[16]

(* The record, as a set with at most one element.                          *)
resolveRecord(db, name) ==
    {db[n] : n \in {ResolvedName(db, name)} \cap DOMAIN db}

resolvePluginName(db, name) ==
    IF name \notin DOMAIN db THEN name
    ELSE IF registry_record_target_system(db[name]) # ""
    THEN registry_record_target_system(db[name])
    ELSE IF db[name].alias THEN db[name].of ELSE name
=============================================================================
