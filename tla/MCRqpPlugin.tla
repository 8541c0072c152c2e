---------------------------- MODULE MCRqpPlugin ----------------------------
(* RqpPlugin on three versions of foo, of which "1.0" is a prefix of       *)
(* "1.0.1", and on bar, which shares a file with foo and which the index   *)
(* also lists under the name baz.                                          *)
EXTENDS RqpPlugin

Id(name, version) == [name |-> name, version |-> version]
MCIds == {Id("foo", 1), Id("foo", 2), Id("foo", 3), Id("bar", 1)}

MCSegLen(s) == 5
MCHost == [architecture |-> "x86_64", systems |-> {"linux", "debian"}]
MCAliases == rq_merged_system_aliases([a \in {} |-> {}])

NoProject == [metadata |-> None, lua |-> None, tree |-> EmptyTree, bundle |-> None,
              payloadTree |-> None, prebuilt |-> None]

Project(name, version) ==
    LET hook(h) == <<"scripts", h>>
    IN  [NoProject EXCEPT
            !.metadata = [complete |-> TRUE, formatVersion |-> 1, name |-> name,
                          version |-> version, release |-> 1, revision |-> 0,
                          architecture |-> "", systems |-> {"debian-family"},
                          optional |-> {"tags"}, payload |-> "none"],
            !.lua = [runs |-> TRUE, apiVersion |-> 1,
                     hooks |-> [h \in {"install", "remove"} |-> hook(h)]],
            !.tree = [p \in {hook("install"), hook("remove")} |-> File(p)]]

Pack(name, version) ==
    build_package_impl(Project(name, version),
        [overrides |-> [f \in {} |-> 0], payloadRoot |-> None, overwrite |-> FALSE],
        None, MCHost, MCAliases).output

MCEntries == {"foo1", "foo2", "foo3", "bar1", "baz1"}
MCCatalogue ==
    LET record(e, listed, name, version) ==
            [entry |-> e, complete |-> TRUE, name |-> listed, version |-> version,
             release |-> 1, revision |-> 0, architecture |-> "", systems |-> {},
             packageSha256 |-> "", bytes |-> Pack(name, version)]
    IN  [e \in MCEntries |->
            CASE e = "foo1" -> record(e, "foo", "foo", 1)
              [] e = "foo2" -> record(e, "foo", "foo", 2)
              [] e = "foo3" -> record(e, "foo", "foo", 3)
              [] e = "bar1" -> record(e, "bar", "bar", 1)
              [] e = "baz1" -> record(e, "baz", "bar", 1)]

MCHookFiles ==
    [id \in MCIds |-> IF id = Id("foo", 3) THEN <<"d", "d/b">> ELSE <<"d", "d/a">>]
MCInside(d) == {"d/a", "d/b"}
MCTextPrefix(v, w) == v = w \/ (v = 1 /\ w = 2)

MCRecords == {[name |-> "apt", alias |-> FALSE, target |-> ""],
              [name |-> "deb", alias |-> TRUE, target |-> "apt"],
              [name |-> "npm", alias |-> FALSE, target |-> ""]}

Req(name, version, exact) == [name |-> name, version |-> version, exact |-> exact]
MCRequests == {<<Req("foo", 0, FALSE)>>, <<Req("foo", 1, FALSE)>>, <<Req("foo", 1, TRUE)>>,
               <<Req("baz", 0, FALSE)>>, <<Req("bar", 0, FALSE), Req("foo", 2, FALSE)>>}

(* The repository of this instance keeps what the theorems ask of one.     *)
ASSUME MCIndexHonest == IndexHonest
=============================================================================
