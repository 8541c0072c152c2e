---------------------------- MODULE MCPluginExec -----------------------------
(* Small programs, rules and commands for PluginExec. *)
EXTENDS PluginExec

Write(text) == [step |-> "write", to |-> "out", text |-> text]
WriteErr(text) == [step |-> "write", to |-> "err", text |-> text]
Ask == [step |-> "ask"]
Exit(code) == [step |-> "exit", code |-> code]

-----------------------------------------------------------------------------
(* Programs. *)

Builds == <<Write(<<"t", LF, LF>>), WriteErr(<<"t", "d">>), Exit(0)>>
Fails == <<Write(<<"t", LF, "d">>), Exit(1)>>
AsksTwice == <<Write(<<"t", LF, "p", "?">>), Ask, Write(<<"p", "?">>), Ask, Exit(0)>>
AsksAtOnce == <<Write(<<"p", "?", "p", "?">>), Ask, Ask, Write(<<"d">>), Exit(0)>>
AsksOnALine == <<Write(<<"p", "?", LF>>), Ask, Write(<<"d", LF>>), Exit(0)>>
Colours == <<Write(<<ESC, "[", "1", "m", "p", "?">>), Ask,
             Write(<<ESC, "]", "t", BEL, "d", "t", BS, CR>>), Exit(0)>>
Titles == <<Write(<<ESC, "]", "t", ESC, "\\", "t", BEL, ESC, "d", "d", LF>>), Exit(0)>>
Quiet == <<Exit(0)>>
Chatty == <<WriteErr(<<"t", "t", "t">>), Write(<<"d">>), WriteErr(<<"t">>), Exit(0)>>
Noisy == <<WriteErr(<<"t", "t", "t", "t", "t", "t">>), WriteErr(<<"t", "t", "t", "t", "t", "t", "t">>), Write(<<"d">>), Exit(0)>>

-----------------------------------------------------------------------------
(* Rules. *)

Event(name) == [type |-> "event", name |-> name]
Send(value) == [type |-> "send", value |-> value]
State(value) == [type |-> "state", value |-> value]

NoRules == [initial |-> "default", rules |-> << >>]
FollowLines == [initial |-> "default", rules |->
    <<[source |-> "line", regex |-> <<"t">>, anchor |-> "both", stop |-> TRUE, repeat |-> FALSE,
       state |-> "default", actions |-> <<Event("built"), State("tail"), [type |-> "status", code |-> "?"]>>],
      [source |-> "line", regex |-> << >>, anchor |-> "both",
       actions |-> <<[type |-> "progress", percent |-> "1", current |-> "?", currentUnit |-> "MB"],
                     [type |-> "progress", total |-> "1"], State("")>>],
      [source |-> "line", regex |-> <<"d">>, anchor |-> "end", state |-> "tail",
       actions |-> <<Event("")>>]>>]
AnswerScreen == [initial |-> "default", rules |->
    <<[source |-> "screen", regex |-> Prompt, actions |-> <<Send("y"), [type |-> "success"]>>],
      [source |-> "line", regex |-> <<"d">>, repeat |-> FALSE,
       actions |-> <<[type |-> "log", message |-> "d", level |-> "loud"], Send("")>>]>>]
AnswerInStates == [initial |-> "first", rules |->
    <<[source |-> "screen", regex |-> Prompt, anchor |-> "end", state |-> "first", repeat |-> FALSE, stop |-> TRUE,
       actions |-> <<Send("y"), State("second")>>],
      [source |-> "screen", regex |-> Prompt, state |-> "second", actions |-> <<Send("y")>>]>>]
AnswerLines == [initial |-> "default", rules |->
    <<[source |-> "line", regex |-> Prompt, actions |-> <<Send("y")>>]>>]

BadRules == {[initial |-> "default", rules |-> <<r>>] : r \in {
    [source |-> "line", regex |-> <<"t">>],
    [source |-> "line", regex |-> <<"t">>, actions |-> << >>],
    [source |-> "window", regex |-> <<"t">>, actions |-> <<Event("e")>>],
    [source |-> "line", regex |-> Uncompilable, actions |-> <<Event("e")>>],
    [source |-> "line", regex |-> <<"t">>, actions |-> <<Event("e")>>, colour |-> "red"],
    [source |-> "line", regex |-> <<"t">>, actions |-> <<[type |-> "event", payload |-> "e"]>>],
    [source |-> "line", regex |-> <<"t">>, actions |-> <<[type |-> "shout", message |-> "e"]>>]}}

-----------------------------------------------------------------------------
(* Commands, with what the shell does with them. *)

Path(absolute, parts) == [absolute |-> absolute, parts |-> parts]
NoPath == Path(FALSE, << >>)
Token(kind, program, path) == [kind |-> kind, program |-> program, path |-> path]
Program(name) == Token("word", name, Path(FALSE, <<name>>))
File(absolute, parts) == Token("word", "file", Path(absolute, parts))
Option == Token("option", "-p", Path(FALSE, <<"-p">>))
Assign == Token("assign", "A=1", Path(FALSE, <<"A=1">>))
Then == Token("boundary", "&&", NoPath)
Redirect == Token("redirect", ">", NoPath)

Command(tokens, writes, privileged) == [tokens |-> tokens, writes |-> writes, privileged |-> privileged]

Listing == Command(<<Program("apt"), Option, Redirect, File(TRUE, <<"dev", "null">>)>>, {}, FALSE)

Commands ==
    {Listing,
     Command(<<Program("mkdir"), Option, File(FALSE, <<"data", "x">>)>>, {<<"work", "data", "x">>}, FALSE),
     Command(<<Assign, Program("touch"), File(TRUE, <<"plugin", "data", "..", "x">>)>>, {<<"plugin", "x">>}, FALSE),
     Command(<<Program("cp"), File(TRUE, <<"usr", "a">>), File(TRUE, <<"tmp", "a">>), Then,
               Program("rm"), Option, File(TRUE, <<"usr", "a">>)>>, {<<"tmp", "a">>, <<"usr", "a">>}, FALSE),
     Command(<<Program("env"), Option, Assign, Program("sudo"), Option, Program("mv"),
               File(TRUE, <<"tmp", "a">>), File(TRUE, <<"usr", "a">>)>>, {<<"usr", "a">>}, TRUE),
     Command(<<Program("sudo"), Program("apt")>>, {}, TRUE),
     Command(<<Program("echo"), Redirect, File(FALSE, <<"pack", "x">>), Then, Program("env")>>,
             {<<"work", "pack", "x">>}, FALSE)}

Declared(capabilities, level, scopes) ==
    [capabilities |-> capabilities, privilegeLevel |-> level, writeScopes |-> scopes]
Scope(kind, value) == [kind |-> kind, value |-> value]

Metadata ==
    {Declared({}, "none", {}),
     Declared({"exec"}, "none", {Scope("read-only", << >>)}),
     Declared({"exec"}, "none", {Scope("plugin-data", <<"data">>), Scope("temp", << >>)}),
     Declared({"exec"}, "sudo", {Scope("system-package-paths", << >>), Scope("temp", << >>)}),
     Declared({"exec"}, "none", {Scope("plugin-data", << >>), Scope("user-home-subpath", <<"data">>)})}

MCWorkingDirectory == <<"work">>
MCPluginDirectory == <<"plugin">>
MCScopeBases == [kind \in {"temp", "user-home-subpath", "system-package-paths"} |->
    CASE kind = "temp" -> {<<"tmp">>}
      [] kind = "user-home-subpath" -> {<<"work">>}
      [] OTHER -> {<<"usr">>, <<"etc">>}]

-----------------------------------------------------------------------------
(* Calls. *)

Trusted == Declared({"exec"}, "sudo", {})

Call(api, command, metadata, roots, table, program) ==
    [api |-> api, tokens |-> command.tokens, writes |-> command.writes, privileged |-> command.privileged,
     metadata |-> metadata, enforced |-> TRUE, ticket |-> FALSE, roots |-> roots,
     table |-> table, program |-> program]

Policed == {Call("exec", c, m, roots, NoRules, Quiet) :
              c \in Commands, m \in Metadata, roots \in {{}, {<<"work", "pack">>}}}
Ruled == {Call("rules", Listing, Trusted, {}, t, p) :
              t \in {NoRules, FollowLines}, p \in {Builds, Fails}}
         \union {Call("rules", Listing, Trusted, {}, t, p) :
              t \in {AnswerScreen, AnswerInStates, AnswerLines},
              p \in {AsksTwice, AsksAtOnce, AsksOnALine, Colours}}
         \union {Call("rules", Listing, Trusted, {}, AnswerScreen, Titles)}
         \union {Call("rules", Listing, Trusted, {}, t, Quiet) : t \in BadRules}
Captured == {Call("capture", Listing, Trusted, {}, NoRules, p) : p \in {Builds, Fails, Chatty, Noisy}}
Unpoliced == {[Call("exec", c, m, {}, NoRules, Fails) EXCEPT !.enforced = FALSE, !.ticket = TRUE] :
                c \in Commands, m \in {Declared({}, "none", {})}}
             \union {Call("exec", Listing, Trusted, {}, NoRules, AsksTwice)}

MCCalls == Policed \union Ruled \union Captured \union Unpoliced
=============================================================================
