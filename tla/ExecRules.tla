------------------------------ MODULE ExecRules ------------------------------
(***************************************************************************)
(* The exec rules of the Lua plugin host: the rules a plugin hands to      *)
(* context.exec.run(command, rules) to follow the output of a command and  *)
(* to answer its prompts.  This module holds the pure part: what a rules   *)
(* table must look like, how a terminal's output is cleaned, how output is *)
(* cut into lines, and which actions a piece of output sets off.  It has   *)
(* no state; PluginExec runs it against a child process.                   *)
(*                                                                         *)
(* Text is a sequence of symbols, one per byte or word the rules can tell  *)
(* apart.  A regular expression is the sequence of symbols it looks for,   *)
(* with an anchor: "none", "end" (`x$') or "both" (`^x$').                 *)
(***************************************************************************)
EXTENDS Naturals, Sequences, SequencesExt, FiniteSetsExt

\* Op(value), with the value computed once and not wherever Op uses it.
With(value, Op(_)) == CHOOSE r \in {Op(v) : v \in {value}} : TRUE

\* FoldLeft, with every intermediate result computed once.
Fold(Op(_, _), base, seq) ==
    LET Over(s) ==
            LET after[k \in 0..Len(s)] ==
                    IF k = 0 THEN base ELSE With(after[k - 1], LAMBDA before : Op(before, s[k]))
            IN  after[Len(s)]
    IN  With(seq, Over)

\* The sequences of a sequence, one after the other.
Flatten(seqs) == Fold(LAMBDA a, b : a \o b, << >>, seqs)

LF == "LF"
CR == "CR"
BS == "BS"
BEL == "BEL"
ESC == "ESC"

\* The symbols of a terminal control sequence whose code is 0x40..0x7e, which
\* end a CSI sequence; digits, `?' and spaces do not.
EndsSequence(c) == c \notin {LF, CR, BS, BEL, ESC, "1", "?"}

-----------------------------------------------------------------------------
(* Parsing a rules table. *)

ActionTypes == {"send", "state", "log", "status", "progress", "begin_step",
                "success", "failed", "event", "artifact"}

\* validate_action_fields: one of these fields must be given.
RequiredFields == [type \in ActionTypes |->
    CASE type \in {"send", "state"}   -> {"value"}
      [] type \in {"log", "failed"}   -> {"message"}
      [] type = "status"              -> {"code"}
      [] type = "progress"            -> {"percent", "current", "total", "speed"}
      [] type = "begin_step"          -> {"label"}
      [] type = "event"               -> {"name"}
      [] type = "artifact"            -> {"payload"}
      [] type = "success"             -> {"type"}]

\* An action is a record with a type and the fields it needs.
parse_action(a) ==
    /\ "type" \in DOMAIN a
    /\ a.type \in ActionTypes
    /\ RequiredFields[a.type] \intersect DOMAIN a # {}

RuleKeys == {"state", "source", "regex", "anchor", "actions", "repeat", "stop"}

Uncompilable == <<"(">>

parse_rule(r) ==
    /\ DOMAIN r \subseteq RuleKeys
    /\ {"source", "regex", "actions"} \subseteq DOMAIN r
    /\ r.source \in {"line", "screen"}
    /\ r.regex # Uncompilable
    /\ r.actions # << >>
    /\ \A a \in ToSet(r.actions) : parse_action(a)

parse_exec_rules(table) == \A r \in ToSet(table.rules) : parse_rule(r)

Given(r, key, default) == IF key \in DOMAIN r THEN r[key] ELSE default

\* The fields a rule leaves out have the defaults of struct ExecRule; state ""
\* stands for a rule without a state, which is active in all of them.
Rule(r) == [state   |-> Given(r, "state", ""),
            source  |-> r.source,
            regex   |-> r.regex,
            anchor  |-> Given(r, "anchor", "none"),
            actions |-> r.actions,
            repeat  |-> Given(r, "repeat", TRUE),
            stop    |-> Given(r, "stop", FALSE)]

Rules(table) == [i \in DOMAIN table.rules |-> Rule(table.rules[i])]

requiresPty(rules) ==
    \E r \in ToSet(rules) :
        r.source = "screen" \/ \E a \in ToSet(r.actions) : a.type = "send"

determine_exec_rule_runner_mode(rules) ==
    IF rules = << >> THEN "plain" ELSE IF requiresPty(rules) THEN "pty" ELSE "line"

-----------------------------------------------------------------------------
(* Cleaning what a pseudo terminal gave. *)

\* One symbol of normalize_exec_rule_pty_chunk.  `at' is where in a control
\* sequence the symbol stands: "text", after "ESC", inside a "csi" or an "osc",
\* after an escape inside an osc, or after a carriage return.
NormalizeSymbol(s, c) ==
    CASE s.at = "esc" ->
            [s EXCEPT !.at = IF c = "[" THEN "csi" ELSE IF c = "]" THEN "osc" ELSE "text"]
      [] s.at = "csi" -> [s EXCEPT !.at = IF EndsSequence(c) THEN "text" ELSE "csi"]
      [] s.at \in {"osc", "oscEsc"} ->
            [s EXCEPT !.at = IF c = BEL \/ (c = "\\" /\ s.at = "oscEsc") THEN "text"
                             ELSE IF c = ESC THEN "oscEsc" ELSE "osc"]
      [] s.at = "cr" /\ c = LF -> [s EXCEPT !.at = "text"]
      [] s.at \in {"text", "cr"} /\ c = ESC -> [s EXCEPT !.at = "esc"]
      [] s.at \in {"text", "cr"} /\ c = CR -> [at |-> "cr", text |-> Append(s.text, LF)]
      [] s.at \in {"text", "cr"} /\ c = BS ->
            [at |-> "text", text |-> IF s.text = << >> THEN << >> ELSE Front(s.text)]
      [] s.at \in {"text", "cr"} /\ c = BEL -> [s EXCEPT !.at = "text"]
      [] OTHER -> [at |-> "text", text |-> Append(s.text, c)]

\* Every chunk starts in plain text: what an earlier chunk left open is not
\* remembered.
normalize_exec_rule_pty_chunk(chunk) ==
    Fold(NormalizeSymbol, [at |-> "text", text |-> << >>], chunk).text

-----------------------------------------------------------------------------
(* Cutting text into lines. *)

MutAccumulateSymbol(acc, c) ==
    IF c = LF /\ acc.buffer # << >>
    THEN [lines |-> Append(acc.lines, acc.buffer), buffer |-> << >>]
    ELSE [acc EXCEPT !.buffer = Append(@, c)]

AccumulateSymbol(acc, c) ==
    IF c = LF THEN [lines |-> Append(acc.lines, acc.buffer), buffer |-> << >>]
    ELSE [acc EXCEPT !.buffer = Append(@, c)]

MutLineAccumulator(buffer, text) ==
    Fold(AccumulateSymbol, [lines |-> << >>, buffer |-> << >>], text)

\* LineAccumulator::append: the lines that text completes, after what is in
\* the buffer, and what is in the buffer then.
LineAccumulator(buffer, text) ==
    Fold(AccumulateSymbol, [lines |-> << >>, buffer |-> buffer], text)

-----------------------------------------------------------------------------
(* Evaluating the rules. *)

\* Where std::regex_search(text) ends its leftmost match, as the set of that
\* one end; the empty set when there is none.
regex_search(rule, text) ==
    LET n == Len(rule.regex)
        starts == {k \in 0..Len(text) :
                     /\ k + n <= Len(text)
                     /\ SubSeq(text, k + 1, k + n) = rule.regex
                     /\ rule.anchor # "none" => k + n = Len(text)
                     /\ rule.anchor = "both" => k = 0}
    IN  {k + n : k \in {k \in starts : \A other \in starts : k <= other}}

make_exec_rule_runtime_state(rules, initial) ==
    [current  |-> initial,
     disabled |-> [i \in DOMAIN rules |-> FALSE],
     cursor   |-> [i \in DOMAIN rules |-> 0]]

rule_active(rule, runtime, i) ==
    ~runtime.disabled[i] /\ rule.state \in {"", runtime.current}

\* The text a rule is tried on: a line, or what the screen shows after the
\* rule's last match.
TriedOn(source, runtime, i, text) ==
    IF source = "line" THEN text
    ELSE SubSeq(text, Min({runtime.cursor[i], Len(text)}) + 1, Len(text))

\* The values the actions of a type give, those that resolve to nothing left out.
Values(actions, type) ==
    Flatten([k \in DOMAIN actions |->
               IF actions[k].type = type /\ actions[k].value # "" THEN <<actions[k].value>> ELSE << >>])

\* The state after the actions of a rule: a state action that resolves to an
\* empty value changes nothing.
StateAfter(actions, current) ==
    IF Values(actions, "state") = << >> THEN current ELSE Last(Values(actions, "state"))

MutCursorAfter(source, cursor, shown, end) ==
    IF source = "line" THEN cursor ELSE end

\* The cursor after a match that ended at position `end' of the text tried.
CursorAfter(source, cursor, shown, end) ==
    IF source = "line" THEN cursor ELSE Min({cursor, shown}) + end

\* One rule tried on a line or on the transcript.  acc is what the rules before
\* it did; a state set by one of them counts for this one.
TryRule(source, rules, text, acc, i) ==
    LET ends == regex_search(rules[i], TriedOn(source, acc.runtime, i, text))
    IN  IF \/ acc.stopped \/ rules[i].source # source
           \/ ~rule_active(rules[i], acc.runtime, i)
           \/ ends = {}
        THEN acc
        ELSE [runtime |->
                [current  |-> StateAfter(rules[i].actions, acc.runtime.current),
                 disabled |-> [acc.runtime.disabled EXCEPT ![i] = ~rules[i].repeat],
                 cursor   |-> [acc.runtime.cursor EXCEPT ![i] =
                                 CursorAfter(source, @, Len(text), CHOOSE e \in ends : TRUE)]],
              fired   |-> Append(acc.fired, i),
              stopped |-> rules[i].stop]

\* evaluate_rules_for_source: the rules in order, on one line or on the
\* transcript.
evaluate_rules_for_source(source, rules, runtime, text) ==
    Fold(LAMBDA acc, i : TryRule(source, rules, text, acc, i),
         [runtime |-> runtime, fired |-> << >>, stopped |-> FALSE],
         [i \in DOMAIN rules |-> i])

\* The actions of the rules that fired, in the order they are carried out.
ActionsOf(rules, fired) == Flatten([k \in DOMAIN fired |-> rules[fired[k]].actions])

-----------------------------------------------------------------------------
(* Carrying out an action. *)

\* The value "?" is one that is no number, and the unit "?" one that is none.
UnitOf == [current |-> "currentUnit", total |-> "totalUnit", speed |-> "speedUnit"]

\* parse_progress_bytes: a number of bytes without its unit counts as not given.
parse_progress_bytes(a, field) ==
    IF ~{field, UnitOf[field]} \subseteq DOMAIN a THEN << >>
    ELSE IF "?" \in {a[field], a[UnitOf[field]]} THEN <<"warning">> ELSE <<"metric">>

\* A warning for each field that cannot be used, and the progress that the
\* others tell, if any.
build_progress_metrics(a) ==
    LET percent == IF "percent" \notin DOMAIN a THEN << >>
                   ELSE IF a.percent = "?" THEN <<"warning">> ELSE <<"metric">>
        metrics == percent \o parse_progress_bytes(a, "current")
                     \o parse_progress_bytes(a, "total") \o parse_progress_bytes(a, "speed")
    IN  SelectSeq(metrics, LAMBDA m : m = "warning")
          \o IF "metric" \in ToSet(metrics) THEN <<"progress">> ELSE << >>

\* Values that cannot be used: an empty name, a code that is no number, an
\* unknown log level.
Unusable(a) ==
    \/ a.type = "event" /\ a.name = ""
    \/ a.type = "status" /\ a.code = "?"
    \/ a.type = "log" /\ Given(a, "level", "info") \notin {"", "info", "debug", "warn", "error"}

\* What an action shows: state and send show nothing unless they are empty,
\* anything unusable becomes a warning.
dispatch_resolved_action(a, hasTerminal) ==
    CASE a.type = "send"  -> IF hasTerminal /\ a.value # "" THEN << >> ELSE <<"warning">>
      [] a.type = "state" -> IF a.value = "" THEN <<"warning">> ELSE << >>
      [] a.type = "progress" -> build_progress_metrics(a)
      [] Unusable(a)      -> <<"warning">>
      [] OTHER            -> <<a.type>>

\* What the actions of an evaluation send to the child.
Sent(actions, hasTerminal) == IF hasTerminal THEN Values(actions, "send") ELSE << >>

\* dispatch_evaluation_result: what the actions show, one after the other.
Shown(actions, hasTerminal) ==
    Flatten([k \in DOMAIN actions |-> dispatch_resolved_action(actions[k], hasTerminal)])
=============================================================================
