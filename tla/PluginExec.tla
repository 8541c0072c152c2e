----------------------------- MODULE PluginExec ------------------------------
(***************************************************************************)
(* One command run by the plugin host, with the child process it talks to. *)
(*                                                                         *)
(*   exec    context.exec.run(command): the policy, then a shell whose     *)
(*           output and errors share one pipe and whose input is empty;    *)
(*   rules   context.exec.run(command, rules): the same, following the     *)
(*           output with rules; on a pseudo terminal when a rule looks at  *)
(*           the screen or sends something;                                *)
(*   capture reqpack_run_process_capture: output and errors on two pipes,  *)
(*           read one after the other (git and the archive tools).         *)
(*                                                                         *)
(* The host reads what the child wrote in chunks of any size.  Faults: the *)
(* process is not started, a read fails, waitpid fails.                    *)
(***************************************************************************)
EXTENDS ExecPolicy

CONSTANTS Calls,         \* the calls a plugin or the host makes
          PipeCapacity,  \* what a pipe holds before its writer has to wait
          Faults         \* which of "spawn", "read", "wait" may fail

ASSUME FaultsAssumption == Faults \subseteq {"spawn", "read", "wait"}
ASSUME CapacityAssumption == PipeCapacity \in Nat \ {0}

\* What a program does: it writes, asks for input and exits.
ProgramSteps == [step : {"write"}, to : {"out", "err"}, text : Seq(STRING)]
                  \union [step : {"ask"}] \union [step : {"exit"}, code : 0..255]

\* A rules table that parses is one of text.
TextTable(table) ==
    /\ table.initial \in STRING
    /\ table.rules \in Seq(ToSet(table.rules))
    /\ \A r \in ToSet(table.rules) :
         /\ r.regex \in Seq(STRING) /\ r.actions \in Seq(ToSet(r.actions))
         /\ Given(r, "repeat", TRUE) \in BOOLEAN /\ Given(r, "stop", FALSE) \in BOOLEAN
         /\ \A a \in ToSet(r.actions) : a.type \in {"send", "state"} => a.value \in STRING

ASSUME CallsAssumption ==
    \A c \in Calls :
        /\ c.program \in Seq(ProgramSteps)
        /\ c.api = "rules" /\ parse_exec_rules(c.table) => TextTable(c.table)

VARIABLES
    call,        \* the call being made
    pc,          \* where the host is in it
    rules,       \* the parsed rules
    runtime,     \* the rules' state, which are used up, and their cursors
    buffer,      \* the start of a line that is not complete yet
    transcript,  \* the cleaned output of a terminal
    child,       \* the child: its next step, whether it runs, its exit code
    out, err,    \* what the child wrote and the host has not read
    typed,       \* what the rules sent and the child has not read
    result,      \* ExecResult
    suspended,   \* the progress display is suspended
    shown,       \* the events, progress and warnings the rules showed
    seen,        \* (history) the lines the rules were tried on
    fired,       \* (history) the rules that fired
    written,     \* (history) all that was written to `out'
    failed       \* (history) the faults that happened

host == <<call, rules, runtime, buffer, transcript, suspended, shown, seen, fired>>
vars == <<host, pc, child, out, err, typed, result, written, failed>>

NoResult == [success |-> FALSE, exit |-> 1, stdout |-> << >>, stderr |-> << >>]
Message == <<"message">>
Killed == 256  \* the code of a program that a signal ended, apart from all exit codes

mode == IF call.api = "capture" THEN "capture"
        ELSE IF call.api = "exec" THEN "plain"
        ELSE determine_exec_rule_runner_mode(rules)

Init ==
    /\ call \in Calls
    /\ pc = "called"
    /\ rules = << >>
    /\ runtime = make_exec_rule_runtime_state(<< >>, "default")
    /\ buffer = << >> /\ transcript = << >>
    /\ child = [at |-> 1, status |-> "none", code |-> 0]
    /\ out = << >> /\ err = << >> /\ typed = << >>
    /\ result = NoResult
    /\ suspended = FALSE
    /\ shown = << >> /\ seen = << >> /\ fired = << >> /\ written = << >>
    /\ failed = {}

-----------------------------------------------------------------------------
(* Before the process runs. *)

shouldEnforceExecutionPolicy == call.api # "capture" /\ call.enforced

Permitted == shouldEnforceExecutionPolicy => validate(call.metadata, call.tokens, call.roots)

shell_command_needs_tty_progress_suspend ==
    /\ call.api # "capture" /\ ~call.ticket
    /\ \E k \in DOMAIN call.tokens : call.tokens[k].program \in {"sudo", "doas"}

\* A refused command gives exit code 126 and is not run.
denyExecution ==
    /\ pc = "called"
    /\ ~Permitted
    /\ pc' = "returned"
    /\ result' = [NoResult EXCEPT !.exit = 126, !.stderr = Message]
    /\ UNCHANGED <<host, child, out, err, typed, written, failed>>

\* Rules that do not parse: an error, and nothing is run.
RejectRules ==
    /\ pc = "called"
    /\ Permitted
    /\ call.api = "rules" /\ ~parse_exec_rules(call.table)
    /\ pc' = "returned"
    /\ result' = [NoResult EXCEPT !.stderr = Message]
    /\ UNCHANGED <<host, child, out, err, typed, written, failed>>

Prepare ==
    /\ pc = "called"
    /\ Permitted
    /\ call.api = "rules" => parse_exec_rules(call.table)
    /\ rules' = IF call.api = "rules" THEN Rules(call.table) ELSE << >>
    /\ runtime' = make_exec_rule_runtime_state(rules', IF call.api = "rules" THEN call.table.initial ELSE "default")
    /\ suspended' = shell_command_needs_tty_progress_suspend
    /\ pc' = "spawn"
    /\ UNCHANGED <<call, buffer, transcript, child, out, err, typed, result, shown, seen, fired, written, failed>>

\* No pipe, no terminal or no process: the display is resumed on every way out.
SpawnFails ==
    /\ pc = "spawn"
    /\ "spawn" \in Faults
    /\ pc' = "returned"
    /\ result' = [NoResult EXCEPT !.stderr = Message]
    /\ suspended' = FALSE
    /\ failed' = failed \union {"spawn"}
    /\ UNCHANGED <<call, rules, runtime, buffer, transcript, child, out, err, typed, shown, seen, fired, written>>

Spawn ==
    /\ pc = "spawn"
    /\ pc' = "read"
    /\ child' = [child EXCEPT !.status = "running"]
    /\ UNCHANGED <<host, out, err, typed, result, written, failed>>

-----------------------------------------------------------------------------
(* The child process. *)

Step == call.program[child.at]

Running(step) == /\ child.status = "running"
                 /\ child.at <= Len(call.program)
                 /\ Step.step = step

\* Nobody reads the child's output any more, so writing kills it.
Unread == pc \in {"wait", "flush", "returned"} \/ (pc = "readErr" /\ Step.to = "out")

\* A terminal puts a carriage return before every newline.
OnTheTerminal(text) ==
    Flatten([k \in DOMAIN text |-> IF text[k] = LF THEN <<CR, LF>> ELSE <<text[k]>>])

\* Output and errors share a pipe or a terminal, except for a capture.  A
\* full pipe makes the child wait.
ChildWrites ==
    /\ Running("write")
    /\ ~Unread
    /\ LET text == IF mode = "pty" THEN OnTheTerminal(Step.text) ELSE Step.text
       IN  IF mode = "capture" /\ Step.to = "err"
           THEN /\ Len(err) + Len(text) <= PipeCapacity
                /\ err' = err \o text
                /\ UNCHANGED <<out, written>>
           ELSE /\ Len(out) + Len(text) <= PipeCapacity
                /\ out' = out \o text
                /\ written' = written \o text
                /\ UNCHANGED err
    /\ child' = [child EXCEPT !.at = @ + 1]
    /\ UNCHANGED <<host, pc, typed, result, failed>>

\* Without a terminal the child's input is empty; on one it waits for an answer.
ChildReads ==
    /\ Running("ask")
    /\ \/ mode # "pty" /\ UNCHANGED typed
       \/ mode = "pty" /\ typed # << >> /\ typed' = Tail(typed)
    /\ child' = [child EXCEPT !.at = @ + 1]
    /\ UNCHANGED <<host, pc, out, err, result, written, failed>>

ChildExits ==
    /\ Running("exit")
    /\ child' = [child EXCEPT !.status = "exited", !.code = Step.code]
    /\ UNCHANGED <<host, pc, out, err, typed, result, written, failed>>

\* A write to a closed pipe, or the loss of its terminal, kills the child.
ChildKilled ==
    /\ child.status = "running"
    /\ IF mode = "pty" THEN pc \in {"wait", "returned"} ELSE Running("write") /\ Unread
    /\ child' = [child EXCEPT !.status = "exited", !.code = Killed]
    /\ UNCHANGED <<host, pc, out, err, typed, result, written, failed>>

-----------------------------------------------------------------------------
(* Following the output. *)

\* The rules on a line or on the screen, after what acc has of earlier ones.
Evaluate(source, acc, text) ==
    LET e == evaluate_rules_for_source(source, rules, acc.runtime, text)
    IN  [runtime |-> e.runtime, fired |-> acc.fired \o e.fired]

\* The rules on a sequence of lines, one after the other.
EvaluateLines(rt, lines) ==
    Fold(LAMBDA acc, line : Evaluate("line", acc, line), [runtime |-> rt, fired |-> << >>], lines)

MutScreen(chunk) == chunk

\* What the screen rules are tried on: all the terminal has shown.
Screen(chunk) == transcript \o chunk

EvaluateScreen(acc, chunk) == Evaluate("screen", acc, Screen(chunk))

\* dispatch_evaluation_result: what the rules that fired show and send.  The
\* terminal echoes what is sent as long as the child has it open.
Dispatch(evaluation, rest) ==
    \E acc \in {evaluation} :
    LET actions == ActionsOf(rules, acc.fired)
        sent == Sent(actions, mode = "pty")
        echo == IF child.status # "running" THEN << >>
                ELSE Flatten([k \in DOMAIN sent |-> <<sent[k], CR, LF>>])
    IN  /\ runtime' = acc.runtime
        /\ fired' = fired \o acc.fired
        /\ shown' = shown \o Shown(actions, mode = "pty")
        /\ typed' = typed \o sent
        /\ out' = rest \o echo
        /\ written' = written \o echo

\* One read of the output.
Read ==
    /\ pc = "read"
    /\ \E n \in 1..Len(out) :
         LET chunk == SubSeq(out, 1, n)
             rest  == SubSeq(out, n + 1, Len(out))
         IN
         \E text  \in {IF mode = "pty" THEN normalize_exec_rule_pty_chunk(chunk) ELSE chunk} :
         \E cut   \in {LineAccumulator(buffer, text)} :
         \E lines \in {EvaluateLines(runtime, cut.lines)} :
             /\ result' = [result EXCEPT !.stdout = @ \o chunk]
             /\ IF mode \in {"line", "pty"} /\ text # << >>
                THEN /\ seen' = seen \o cut.lines
                     /\ buffer' = cut.buffer
                     /\ transcript' = IF mode = "pty" THEN transcript \o text ELSE transcript
                     /\ Dispatch(IF mode = "pty" THEN EvaluateScreen(lines, text) ELSE lines, rest)
                ELSE /\ out' = rest
                     /\ UNCHANGED <<seen, buffer, transcript, runtime, fired, shown, typed, written>>
    /\ UNCHANGED <<call, pc, rules, suspended, child, err, failed>>

MutAtEnd(pipe) == child.status \in {"exited", "reaped"}

\* The end of the output: nothing is left and nobody can write more.
AtEnd(pipe) == pipe = << >> /\ child.status \in {"exited", "reaped"}

\* The last line, when it has no newline.
Remainder == IF buffer = << >> THEN << >> ELSE <<buffer>>

\* On a terminal the last line and the screen are looked at before the terminal
\* is closed; for line rules that happens after the child is waited for.
ReadEnds ==
    /\ pc = "read"
    /\ AtEnd(out)
    /\ pc' = IF mode = "capture" THEN "readErr" ELSE "wait"
    /\ IF mode = "pty"
       THEN /\ seen' = seen \o Remainder
            /\ buffer' = << >>
            /\ Dispatch(EvaluateScreen(EvaluateLines(runtime, Remainder), << >>), out)
       ELSE UNCHANGED <<seen, buffer, runtime, fired, shown, typed, out, written>>
    /\ UNCHANGED <<call, rules, transcript, suspended, child, err, result, failed>>

ReadFails ==
    /\ pc \in {"read", "readErr"}
    /\ "read" \in Faults \ failed
    /\ failed' = failed \union {"read"}
    /\ pc' = IF pc = "read" /\ mode = "capture" THEN "readErr" ELSE "wait"
    /\ result' = [result EXCEPT !.stderr = Message]
    /\ IF mode = "pty"
       THEN /\ seen' = seen \o Remainder
            /\ buffer' = << >>
            /\ Dispatch(EvaluateScreen(EvaluateLines(runtime, Remainder), << >>), out)
       ELSE UNCHANGED <<seen, buffer, runtime, fired, shown, typed, out, written>>
    /\ UNCHANGED <<call, rules, transcript, suspended, child, err>>

\* A capture reads the errors after the output.
ReadErrors ==
    /\ pc = "readErr"
    /\ \/ \E n \in 1..Len(err) :
            /\ result' = [result EXCEPT !.stderr = @ \o SubSeq(err, 1, n)]
            /\ err' = SubSeq(err, n + 1, Len(err))
            /\ UNCHANGED pc
       \/ /\ AtEnd(err)
          /\ pc' = "wait"
          /\ UNCHANGED <<result, err>>
    /\ UNCHANGED <<host, child, out, typed, written, failed>>

-----------------------------------------------------------------------------
(* After the child. *)

AfterWait == IF mode = "line" THEN "flush" ELSE "returned"

\* The exit code decides; a failed command without an error text has its output
\* for one, and a capture says that a signal ended the program.  A display that was suspended is resumed.
Wait ==
    /\ pc = "wait"
    /\ child.status = "exited"
    /\ child' = [child EXCEPT !.status = "reaped"]
    /\ pc' = AfterWait
    /\ result' = [result EXCEPT
           !.exit = child.code,
           !.success = child.code = 0,
           !.stderr = IF mode = "capture" THEN (IF child.code = Killed THEN @ \o Message ELSE @)
                      ELSE IF child.code # 0 /\ @ = << >> THEN result.stdout ELSE @]
    /\ suspended' = FALSE
    /\ UNCHANGED <<call, rules, runtime, buffer, transcript, out, err, typed, shown, seen, fired, written, failed>>

WaitFails ==
    /\ pc = "wait"
    /\ "wait" \in Faults
    /\ failed' = failed \union {"wait"}
    /\ pc' = AfterWait
    /\ result' = [result EXCEPT !.exit = 1, !.success = FALSE, !.stderr = Message]
    /\ suspended' = FALSE
    /\ UNCHANGED <<call, rules, runtime, buffer, transcript, child, out, err, typed, shown, seen, fired, written>>

\* run_line_command tries the rules on a last line without a newline.
Flush ==
    /\ pc = "flush"
    /\ pc' = "returned"
    /\ seen' = seen \o Remainder
    /\ buffer' = << >>
    /\ Dispatch(EvaluateLines(runtime, Remainder), out)
    /\ UNCHANGED <<call, rules, transcript, suspended, child, err, result, failed>>

-----------------------------------------------------------------------------

Host == denyExecution \/ RejectRules \/ Prepare \/ Spawn \/ Read \/ ReadEnds \/ ReadErrors
          \/ Wait \/ Flush
Child == ChildWrites \/ ChildReads \/ ChildExits \/ ChildKilled
Fault == SpawnFails \/ ReadFails \/ WaitFails

Next == Host \/ Child \/ Fault

\* The host's thread runs on, and a program that can take its next step does.
\* No fault has to happen.
Spec == Init /\ [][Next]_vars /\ WF_vars(Host) /\ WF_vars(Child)

-----------------------------------------------------------------------------
(* Properties. *)

Joined(lines) == Flatten([k \in DOMAIN lines |-> Append(lines[k], LF)])

\* The same for the lines that are not empty.
JoinedNonEmpty(lines) ==
    Flatten([k \in DOMAIN lines |-> IF lines[k] = << >> THEN << >> ELSE Append(lines[k], LF)])

WithoutReturns(text) ==
    Flatten([k \in DOMAIN text |-> IF text[k] = CR THEN << >> ELSE <<text[k]>>])

\* A program that writes no empty line and no control symbol of its own.
PlainProgram(program) ==
    \A k \in DOMAIN program : program[k].step = "write" =>
        LET text == program[k].text
        IN  /\ ToSet(text) \intersect {CR, BS, BEL, ESC} = {}
            /\ \A i \in DOMAIN text : text[i] = LF => i > 1 /\ text[i - 1] # LF

(***************************************************************************)
(* However the output is cut into chunks, line rules are tried on the      *)
(* lines the command printed, all of them, each once, none joined with the *)
(* next one; when the call returns, the last one too although it has no    *)
(* newline, and nothing stays in the buffer (exec_rules.cpp,               *)
(* LineAccumulator, run_line_command).                                     *)
(***************************************************************************)
LinesExact ==
    /\ \A k \in DOMAIN seen : LF \notin ToSet(seen[k])
    /\ mode = "line" /\ pc # "called" =>
         result.stdout = IF pc = "returned" /\ result.stdout # << >> /\ Last(result.stdout) # LF
                         THEN Joined(Front(seen)) \o Last(seen)
                         ELSE Joined(seen) \o buffer
    /\ pc = "returned" => buffer = << >>

\* Rules whose answers are one line without control symbols.
PlainAnswers ==
    \A i \in DOMAIN rules : \A a \in ToSet(rules[i].actions) :
        a.type = "send" => a.value \notin {LF, CR, BS, BEL, ESC}

(***************************************************************************)
(* On a terminal the rules are tried on the lines that were printed and    *)
(* echoed, of programs and rules that send no control sequences, apart     *)
(* from empty lines: a chunk that ends between a carriage return and its   *)
(* newline ends the line at once and adds an empty one with the next       *)
(* chunk, and one that ends inside a control sequence leaves the rest of   *)
(* it in the text (exec_rules.cpp, normalize_exec_rule_pty_chunk).         *)
(***************************************************************************)
TerminalLinesExact ==
    mode = "pty" /\ PlainProgram(call.program) /\ PlainAnswers /\ pc = "read" =>
        LET printed == WithoutReturns(result.stdout)
        IN  JoinedNonEmpty(seen) \o buffer =
                IF result.stdout # << >> /\ Last(result.stdout) = CR
                THEN Append(printed, LF) ELSE printed

\* How often a sequence of symbols occurs in a text.
Occurrences(word, text) ==
    Cardinality({k \in 0..Len(text) : k + Len(word) <= Len(text) /\ SubSeq(text, k + 1, k + Len(word)) = word})

(***************************************************************************)
(* A screen rule reacts to a piece of the screen once: it has fired no     *)
(* more often than what it looks for has been shown, although the whole    *)
(* screen is searched again after every chunk and prompts arrive cut in    *)
(* two.  So a prompt is not answered twice by the same rule                *)
(* (exec_rules_engine.cpp, screenCursor).                                  *)
(***************************************************************************)
NeverAnsweredTwice ==
    \A i \in DOMAIN rules :
        rules[i].source = "screen" =>
            Cardinality({k \in DOMAIN fired : fired[k] = i})
                <= Occurrences(rules[i].regex, transcript)

(***************************************************************************)
(* What a call that has returned left behind and says: the progress        *)
(* display goes on, no child is left unless waitpid failed, a refused      *)
(* command or one with bad rules never started one, and success without an *)
(* error text means that the program ended with 0 and that the caller has  *)
(* all it wrote, also what it wrote just before it ended                   *)
(* (run_shell_command, run_pty_command, reqpack_run_process_capture).      *)
(***************************************************************************)
CallComplete ==
    pc = "returned" =>
        /\ ~suspended
        /\ child.status \in {"none", "reaped"} \/ "wait" \in failed
        /\ ~Permitted \/ (call.api = "rules" /\ ~parse_exec_rules(call.table)) =>
              child.status = "none" /\ ~result.success
        /\ result.success => child.code = 0 /\ child.status = "reaped"
        /\ result.success /\ result.stderr = << >> => result.stdout = written

(***************************************************************************)
(* A command that ran although the policy is enforced did only what the    *)
(* plugin declares: its program writes inside the declared scopes or a     *)
(* directory opened for packing, and it asks for privileges only with the  *)
(* level "sudo".  call.writes and call.privileged say what the shell       *)
(* really does with the command, whatever the inspection makes of it.      *)
(***************************************************************************)
PolicyRespected ==
    child.status # "none" /\ shouldEnforceExecutionPolicy =>
        /\ "exec" \in call.metadata.capabilities
        /\ call.privileged => call.metadata.privilegeLevel = "sudo"
        /\ \A parts \in call.writes :
             \/ \E root \in call.roots : path_has_prefix(parts, root)
             \/ \E scope \in call.metadata.writeScopes : write_scope_allows_path(scope, parts)

\* The rules answer every prompt of the program: whatever the state, a rule
\* that is never used up looks for the prompt on the screen and sends something.
Prompt == <<"p", "?">>

Answers(table) ==
    \E r \in ToSet(Rules(table)) :
        /\ r.source = "screen" /\ r.regex = Prompt /\ r.anchor = "none"
        /\ r.state = "" /\ r.repeat
        /\ \E a \in ToSet(r.actions) : a.type = "send" /\ a.value # ""
        /\ \A s \in ToSet(Rules(table)) : ~s.stop

Asks(program) == \E k \in DOMAIN program : program[k].step = "ask"

\* The errors a captured program writes fit the pipe.
ErrorsFit(program) ==
    LET errors == SelectSeq(program, LAMBDA s : s.step = "write" /\ s.to = "err")
    IN  Len(Flatten([k \in DOMAIN errors |-> errors[k].text])) <= PipeCapacity

WillEnd ==
    CASE call.api = "rules"   -> parse_exec_rules(call.table) =>
                                   \/ ~Asks(call.program) \/ Answers(call.table)
                                   \/ ~requiresPty(Rules(call.table))
      [] call.api = "capture" -> ErrorsFit(call.program)
      [] OTHER                -> TRUE

(***************************************************************************)
(* A call returns: host and child do not wait for each other for ever, if  *)
(* the rules answer each prompt (wherever the chunks cut it) and if what a *)
(* captured program writes to its errors fits a pipe.  The second          *)
(* condition is needed: a capture reads the output to its end before it    *)
(* looks at the errors.                                                    *)
(***************************************************************************)
Terminates == WillEnd => <>(pc = "returned")
=============================================================================
