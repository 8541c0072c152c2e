---------------------------- MODULE MCRegistry ----------------------------
(* A git plugin p, a plugin q from a url that the configuration overrides  *)
(* with a local directory, an alias x, an alias y that moves from p to q,  *)
(* an alias z that disappears, a package k.                                *)
EXTENDS Registry

MCNames == {"p", "q", "x", "y", "z", "k"}
Git(ref) == [kind |-> "git", url |-> "gp", ref |-> ref]
Url(name) == [kind |-> "url", url |-> name, ref |-> 0]
Dir == [kind |-> "dir", url |-> "dq", ref |-> 0]
MCSources == {Git(1), Git(2), Url("uq"), Url("uk"), Dir}
MCLayout(s) == IF s.kind \in {"git", "dir"} THEN "bundle" ELSE "script"
MCTags(s) == IF s.kind = "git" THEN <<0, 2>> ELSE <<>>
MCAsked == {"x", "k"}
MCBundleFiles == <<"run", "remove">>
MCMoving == {Git(2)}
MCExplicit == "q" :> Entry(Dir, "", "", "pm", "user", "", 0)

Doc(source, role, target, sha, aliases) ==
    [ok |-> TRUE, source |-> source, role |-> role, privilege |-> "user",
     target |-> target, sha |-> sha, aliases |-> aliases]
Broken(doc) == [doc EXCEPT !.ok = FALSE]
P(sha, aliases) == Doc(Git(1), "pm", "", sha, aliases)
Q(aliases) == Doc(Url("uq"), "pm", "", 1, aliases)
K == Doc(Url("uk"), "package", "apt", 2, {})
MCFirstTree == "p" :> P(1, {"x", "y", "z"}) @@ "k" :> K
MCTrees == {MCFirstTree,
            "p" :> P(2, {"x"}) @@ "q" :> Q({"y"}),
            "p" :> P(1, {"x"}) @@ "q" :> Broken(Q({"y"}))}
===========================================================================
