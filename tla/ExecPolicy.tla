----------------------------- MODULE ExecPolicy ------------------------------
(***************************************************************************)
(* The execution policy of the Lua plugin host: which shell commands a     *)
(* plugin may run, given the capabilities, the privilege level and the     *)
(* write scopes it declares.  The policy reads the command's words; it     *)
(* does not run it.                                                        *)
(*                                                                         *)
(* A command is the sequence of tokens tokenize_shell_command makes of it. *)
(* A token is a record with a kind: "boundary" (&&, ||, ; and |),          *)
(* "redirect" (>, >>, 2>), "option", "assign" (NAME=value) or "word"; a    *)
(* word has the name of the program it would run and the path it names.    *)
(* A path is absolute or not and a sequence of parts.                      *)
(***************************************************************************)
EXTENDS ExecRules

CONSTANTS WorkingDirectory,  \* the path the host runs in, as its parts
          PluginDirectory,   \* the directory of the plugin's script
          ScopeBases         \* the paths each kind of write scope stands for

-----------------------------------------------------------------------------
(* Reading the command. *)

\* The stretches of tokens between command boundaries.
Segments(tokens) ==
    LET Step(acc, t) == IF t.kind = "boundary" THEN Append(acc, << >>)
                        ELSE [acc EXCEPT ![Len(acc)] = Append(@, t)]
    IN  SelectSeq(Fold(Step, << << >> >>, tokens), LAMBDA s : s # << >>)

\* Splits a segment into its words and the targets of its redirections.
SplitRedirections(segment) ==
    LET Step(acc, t) ==
            IF acc.pending THEN [acc EXCEPT !.pending = FALSE, !.targets = @ \union {t.path}]
            ELSE IF t.kind = "redirect" THEN [acc EXCEPT !.pending = TRUE]
            ELSE [acc EXCEPT !.words = Append(@, t)]
    IN  Fold(Step, [words |-> << >>, targets |-> {}, pending |-> FALSE], segment)

\* The words from the first one that is of none of these kinds.
After(words, kinds) ==
    LET first == SelectInSeq(words, LAMBDA w : w.kind \notin kinds)
    IN  IF first = 0 THEN << >> ELSE SubSeq(words, first, Len(words))

IsCommand(words, names) == words # << >> /\ Head(words).program \in names

MutWithoutEnv(words) == words

\* The words from the program that runs: past assignments, `env' with its
\* options and assignments, and sudo or doas with their options.
WithoutEnv(words) ==
    IF IsCommand(words, {"env"}) THEN After(Tail(words), {"option", "assign"}) ELSE words

Privileged(words) == IsCommand(WithoutEnv(After(words, {"assign"})), {"sudo", "doas"})

ProgramWords(words) ==
    LET WithoutSudo(ws) == IF IsCommand(ws, {"sudo", "doas"}) THEN After(Tail(ws), {"option"}) ELSE ws
    IN  With(WithoutEnv(After(words, {"assign"})), WithoutSudo)

\* collect_write_targets_from_command_words: every operand of mkdir, touch and
\* rm, the last one of cp and mv, none of another program.
collect_write_targets_from_command_words(words) ==
    IF ~IsCommand(words, {"mkdir", "touch", "rm", "cp", "mv"}) THEN {}
    ELSE LET operands == SelectSeq(Tail(words), LAMBDA w : w.kind # "option")
         IN  IF operands = << >> THEN {}
             ELSE IF Head(words).program \in {"cp", "mv"} THEN {Last(operands).path}
             ELSE {operands[k].path : k \in DOMAIN operands}

inspect_shell_command(tokens) ==
    LET splits == {SplitRedirections(s) : s \in ToSet(Segments(tokens))}
    IN  [requestsPrivilege |-> \E s \in splits : Privileged(s.words),
         writeTargets |-> UNION {s.targets \union With(ProgramWords(s.words), collect_write_targets_from_command_words)
                                 : s \in splits}]

-----------------------------------------------------------------------------
(* Where a path lies. *)

\* The parts of a path with its dots taken out.
LexicallyNormal(parts) ==
    LET Step(acc, p) == IF p = "." THEN acc
                        ELSE IF p = ".." THEN (IF acc = << >> THEN acc ELSE Front(acc))
                        ELSE Append(acc, p)
    IN  Fold(Step, << >>, parts)

normalize_exec_path(path) ==
    LexicallyNormal(IF path.absolute THEN path.parts ELSE WorkingDirectory \o path.parts)

path_has_prefix(parts, prefix) == IsPrefix(prefix, parts)

is_safe_redirection_sink(parts) == parts \in {<<"dev", s>> : s \in {"null", "stdout", "stderr"}}

\* A scope is its kind and a value that narrows the plugin's own data and the
\* user's home.  Read-only and unknown kinds have no bases.
write_scope_allows_path(scope, parts) ==
    LET narrowed == scope.kind \in {"plugin-data", "user-home-subpath"}
        bases == IF scope.kind = "plugin-data" THEN {PluginDirectory}
                 ELSE IF scope.kind \in DOMAIN ScopeBases THEN ScopeBases[scope.kind] ELSE {}
    IN  \E base \in bases :
            path_has_prefix(parts, LexicallyNormal(IF narrowed THEN base \o scope.value ELSE base))

-----------------------------------------------------------------------------

\* LuaBridgeExecutionPolicy::validate.  roots are the directories a running
\* pack operation opened.
validate(metadata, tokens, roots) ==
    \E inspection \in {inspect_shell_command(tokens)} :
        /\ "exec" \in metadata.capabilities
        /\ inspection.requestsPrivilege => metadata.privilegeLevel = "sudo"
        /\ \A path \in inspection.writeTargets :
             LET parts == normalize_exec_path(path)
             IN  \/ path.parts = << >> \/ is_safe_redirection_sink(parts)
                 \/ \E root \in roots : path_has_prefix(parts, root)
                 \/ \E scope \in metadata.writeScopes : write_scope_allows_path(scope, parts)
=============================================================================
