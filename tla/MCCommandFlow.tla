--------------------------- MODULE MCCommandFlow ---------------------------
(* Package managers apt, pip and npm, proxies in a row (java, jdk, lang,   *)
(* sys, apt), a registry package tool, a security gateway guard.           *)
EXTENDS CommandFlow

Tools == {"apt", "pip", "npm", "gem", "rqp"}
A == Specifier("a", "")
B == Specifier("b", "1")
C == Specifier("c", "")
Bad == Specifier("bad", "1")
ToolPackage == Specifier("tool", "")

Plugin == [kind |-> "plugin", target |-> ""]
Package == [kind |-> "package", target |-> "apt"]
Cached == "npm" :> Plugin @@ "pip" :> Plugin @@ "tool" :> Package
Answer(target, renames, local) ==
    [answers |-> TRUE, target |-> target, renames |-> renames, local |-> local]
Silent == [Answer("apt", <<>>, NoTarget) EXCEPT !.answers = FALSE]

Path == <<"path", "x.deb">>
Sealed == <<"path", "x.gpg">>
Url == <<"url", "y.tar.gpg">>
Gone == <<"url", "z">>
File(content, layers, owners) ==
    [content |-> content, layers |-> layers, owners |-> owners, directory |-> FALSE]

Base ==
    [disk |-> {"apt", "pip", "sys", "lang", "jdk", "java"},
     cached |-> Cached, upstream |-> "gem" :> Plugin @@ Cached, git |-> TRUE,
     fetchable |-> {"npm", "gem", "pip"}, loads |-> Tools \cup {"sys", "lang", "jdk", "java"},
     alias |-> "pip3" :> "pip", gateways |-> {"guard"},
     proxy |-> "sys" :> Answer("apt", <<>>, NoTarget) @@ "lang" :> Answer("sys", <<>>, NoTarget)
               @@ "jdk" :> Answer("lang", <<A, B>>, NoTarget)
               @@ "java" :> Answer("jdk", <<>>, NoTarget),
     targets |-> "sys" :> {"apt"}, proxyExpansion |-> TRUE,
     missing |-> {<<"apt", "a">>, <<"apt", "tool">>, <<"pip", "c">>, <<"apt", "d">>},
     vulnerable |-> {Item("apt", Bad, NoTarget)},
     installed |-> [s \in Tools \cup {"sys", "lang", "jdk", "java"} |->
                      IF s = "apt" THEN {B, Specifier("", "")} ELSE IF s = "pip" THEN {B} ELSE {}],
     offered |-> [s \in Tools \cup {"sys", "lang", "jdk", "java"} |->
                    IF s = "apt" THEN {Specifier("a", "2"), B} ELSE {}],
     requires |-> "pip" :> {Item("apt", Specifier("d", ""), NoTarget)}
                  @@ "npm" :> {Item("pip", C, NoTarget)},
     ready |-> {}, skipMissing |-> FALSE, packs |-> {"pip"},
     served |-> Url :> File("y", <<"gpg", "tar">>, {"apt"}) @@ Gone :> File("z", <<>>, {"apt", "pip"}),
     files |-> Path :> File("x", <<>>, {"apt"}) @@ Sealed :> File("s", <<"gpg">>, {})]

MCWorlds ==
    {Base,
     [Base EXCEPT !.cached = <<>>, !.disk = {"apt", "sys"}, !.fetchable = {"npm"},
                  !.skipMissing = TRUE],
     [Base EXCEPT !.cached = <<>>, !.upstream = <<>>, !.disk = {}, !.git = FALSE],
     [Base EXCEPT !.disk = @ \cup {"npm"}, !.loads = @ \ {"pip"}, !.git = FALSE, !.ready = {"npm"},
                  !.vulnerable = @ \cup {Item("apt", B, NoTarget)}],
     [Base EXCEPT !.proxyExpansion = FALSE, !.gateways = {}],
     [Base EXCEPT !.proxy["sys"] = Answer("lang", <<>>, NoTarget),
                  !.targets = "sys" :> {"lang"} @@ "jdk" :> {"apt"},
                  !.missing = {<<"apt", "a">>}],
     [Base EXCEPT !.proxy["sys"] = Silent, !.proxy["lang"] = Answer("apt", <<>>, Path),
                  !.proxy["java"] = Answer("apt", <<C>>, Path)]}

Do(verb, system, packages, flags) == Request(verb, system, packages, NoTarget, flags)
Get(system, target) == Request("INSTALL", system, <<>>, target, {})

(* Requests that are put together in pairs, whatever their order.          *)
Installs ==
    {Do("INSTALL", "apt", <<A, B>>, {}), Do("INSTALL", "npm", <<C, ToolPackage>>, {}),
     Do("INSTALL", "pip3", <<C, Bad>>, {}), Do("INSTALL", "apt", <<Bad>>, {}),
     Do("INSTALL", "java", <<A>>, {}), Do("INSTALL", "jdk", <<C>>, {}),
     Do("INSTALL", "lang", <<A>>, {}), Do("INSTALL", "sys", <<C>>, {}),
     Do("INSTALL", "tool", <<>>, {}), Do("INSTALL", "npm", <<>>, {}),
     Do("INSTALL", "pip3", <<>>, {}),
     Get("", Path), Get("apt", Url), Get("", Url), Get("sys", Sealed), Get("", Gone)}
Removes ==
    {Do("REMOVE", "apt", <<A, B>>, {}), Do("REMOVE", "sys", <<C>>, {}), Do("REMOVE", "pip", <<>>, {}),
     Do("REMOVE", "sys", <<>>, {}), Do("REMOVE", "npm", <<>>, {})}
Updates ==
    {Do("UPDATE", "apt", <<B>>, {}), Do("UPDATE", "pip3", <<>>, {}), Do("UPDATE", "npm", <<>>, {}),
     Do("UPDATE", "apt", <<>>, {"all"}), Do("UPDATE", "gem", <<>>, {"all"}),
     Do("UPDATE", "pip3", <<>>, {"all"}), Do("UPDATE", "jdk", <<>>, {"all"}),
     Do("UPDATE", "java", <<>>, {"all"})}
Ensures == {Do("ENSURE", "npm", <<>>, {}), Do("ENSURE", "pip", <<>>, {}), Do("ENSURE", "apt", <<>>, {})}
Reports ==
    {Do("SBOM", "apt", <<A, B, C>>, {}), Do("SBOM", "sys", <<A, B>>, {}),
     Do("SBOM", "pip", <<>>, {})}

(* No two urls with one file name: the second would take the place of the  *)
(* first.                                                                  *)
Pairs(S) == {<<q>> : q \in S}
            \cup {<<q[1], q[2]>> : q \in {p \in S \X S : p[1] # p[2] /\ (p[1].target # p[2].target
                                                                 \/ p[1].target = NoTarget)}}

MCCommands ==
    Pairs(Installs) \cup Pairs(Removes) \cup Pairs(Updates) \cup Pairs(Ensures) \cup Pairs(Reports)
    \cup
    {<<Do("INSTALL", "guard", <<>>, {}), Do("INSTALL", "npm", <<>>, {}), Do("INSTALL", "pip", <<>>, {})>>,
     <<Do("UPDATE", "", <<>>, {"all", "refresh-all", "expand"})>>,
     <<Do("LIST", "apt", <<>>, {}), Do("LIST", "sys", <<B>>, {})>>,
     <<Do("OUTDATED", "pip", <<>>, {})>>, <<Do("INFO", "apt", <<A>>, {})>>,
     <<Do("SEARCH", "lang", <<A>>, {"interactive"})>>,
     <<Do("SNAPSHOT", "", <<>>, {})>>,
     <<Do("PACK", "", <<>>, {})>>, <<Do("PACK", "pip", <<>>, {"output"})>>,
     <<Do("AUDIT", "apt", <<>>, {})>>, <<Do("AUDIT", "apt", <<A, C>>, {"output"})>>}
=============================================================================
