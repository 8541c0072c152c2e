---------------------------- MODULE RemoteServer ----------------------------
(***************************************************************************)
(* The remote server (workflows/remote/serve_remote*.cpp): one thread that *)
(* accepts connections, one detached thread per session that reads lines,  *)
(* authenticates and executes commands, and a state they share under       *)
(* state.mutex.  Commands that reach the orchestrator are serialised by    *)
(* commandMutex; everything before it, the readonly decision included, is  *)
(* made on a snapshot of the state taken earlier.  An administrator may    *)
(* edit the configuration and the user file at any time; reload-config     *)
(* brings them in.                                                         *)
(*                                                                         *)
(* A line is reduced to its form (text or a JSON object), the class of its *)
(* command and the credential it carries.  The model ends when             *)
(* run_remote_serve returns: the process exits and takes the detached      *)
(* threads with it.                                                        *)
(***************************************************************************)
EXTENDS Naturals, Sequences, FiniteSets

CONSTANTS Clients,          \* connections that may be made
          NoClient,
          ConfigFiles,      \* contents the configuration file has, one after the other
          UserFiles,        \* contents of the user file: credential -> isAdmin
          Credentials,      \* what clients may offer
          Fallback,         \* credentials given on the command line, perhaps none
          Explicit,         \* options given on the command line, which a reload keeps
          ServerProtocol,   \* "text" or "json"
          ClientLines       \* the lines clients send

Options == {"readonly", "maxConnections"}

NoCredential == "none"

OptionValues == [readonly : BOOLEAN, maxConnections : Nat]

\* A user registry: who is in it, and who of them is an administrator.
Registries == UNION {[known -> BOOLEAN] : known \in SUBSET Credentials}

ASSUME RemoteServerAssumption ==
    /\ NoClient \notin Clients
    /\ ConfigFiles \in Seq(OptionValues) /\ ConfigFiles # <<>>
    /\ UserFiles \in Seq(Registries) /\ UserFiles # <<>>
    /\ Explicit \subseteq Options
    /\ NoCredential \notin Credentials /\ Fallback \subseteq Credentials

\* What a line asks for.  "export" is a query that writes a file on the server,
\* "fast" the commands answered without the orchestrator, "unparsable" what the
\* command line parser rejects.
Commands == {"auth", "empty", "quit", "shutdown", "connections", "reload", "query",
             "mutate", "export", "nested", "fast", "unparsable", "upload",
             "badUpload"}

\* A text line carries a credential if it is an auth line; a JSON request may
\* have one beside any command.
Lines ==
    {l \in [form : {"text", "json"}, cmd : Commands,
            cred : Credentials \cup {NoCredential}] :
        l.form = "text" => (l.cmd = "auth" <=> l.cred # NoCredential)}

ASSUME ClientAssumption == ClientLines \subseteq Lines

VARIABLES
    configDisk, usersDisk,              \* the version each file on disk has
    options, users, sessions,           \* RemoteServerState
    serverFd, shutdownRequested,
    listening,                          \* the listening socket is open
    signalled,                          \* g_remote_signal_shutdown_requested
    acceptPc, accepted, limit,          \* the accepting thread and its locals
    conn,                               \* the connections
    pc, protocol, identity, line,       \* session threads and their locals
    readonly, draft, closing,
    commandMutex,
    unread,                             \* upload payload not read off the socket yet
    writable    \* history: not readonly at some time since the request was complete

files == <<configDisk, usersDisk>>
shared == <<options, users, sessions, serverFd, shutdownRequested>>
accepting == <<acceptPc, accepted, limit>>
request == <<line, readonly, closing, writable>>
session == <<protocol, identity, draft>>
vars == <<files, shared, listening, signalled, accepting, conn, pc, session, request,
          commandMutex, unread>>

Returned == acceptPc = "returned"

Goto(c, label) == pc' = [pc EXCEPT ![c] = label]

Nobody == [authenticated |-> FALSE, isAdmin |-> FALSE]
Anonymous == [authenticated |-> TRUE, isAdmin |-> FALSE]
NoDraft == [options |-> ConfigFiles[1], users |-> UserFiles[1]]
NoLine == [form |-> "text", cmd |-> "empty", cred |-> NoCredential]

Init ==
    /\ configDisk = 1 /\ usersDisk = 1
    /\ options = ConfigFiles[1]
    /\ users = UserFiles[1]
    /\ sessions = {}
    /\ serverFd = TRUE
    /\ shutdownRequested = FALSE
    /\ listening = TRUE
    /\ signalled = FALSE
    /\ acceptPc = "test" /\ accepted = NoClient /\ limit = 0
    /\ conn = [c \in Clients |-> "off"]
    /\ pc = [c \in Clients |-> "none"]
    /\ protocol = [c \in Clients |-> "text"]
    /\ identity = [c \in Clients |-> Nobody]
    /\ line = [c \in Clients |-> NoLine]
    /\ readonly = [c \in Clients |-> FALSE]
    /\ draft = [c \in Clients |-> NoDraft]
    /\ closing = [c \in Clients |-> FALSE]
    /\ commandMutex = NoClient
    /\ unread = [c \in Clients |-> FALSE]
    /\ writable = [c \in Clients |-> FALSE]
-----------------------------------------------------------------------------
(* The administrator and the operating system.                             *)

EditConfig ==
    /\ ~Returned
    /\ configDisk < Len(ConfigFiles)
    /\ configDisk' = configDisk + 1
    /\ UNCHANGED <<usersDisk, shared, listening, signalled, accepting, conn, pc,
                   session, request, commandMutex, unread>>

EditUsers ==
    /\ ~Returned
    /\ usersDisk < Len(UserFiles)
    /\ usersDisk' = usersDisk + 1
    /\ UNCHANGED <<configDisk, shared, listening, signalled, accepting, conn, pc,
                   session, request, commandMutex, unread>>

\* SIGTERM or SIGINT: the handler closes the listening socket itself.
Signal ==
    /\ ~Returned /\ ~signalled
    /\ signalled' = TRUE
    /\ listening' = FALSE
    /\ UNCHANGED <<files, shared, accepting, conn, pc, session, request,
                   commandMutex, unread>>

Connect(c) ==
    /\ listening /\ ~Returned
    /\ conn[c] = "off" /\ pc[c] = "none"
    /\ conn' = [conn EXCEPT ![c] = "connecting"]
    /\ UNCHANGED <<files, shared, listening, signalled, accepting, pc, session,
                   request, commandMutex, unread>>
-----------------------------------------------------------------------------
(* The accepting thread.                                                   *)

Stopping == shutdownRequested \/ signalled

\* The loop's condition, and what follows the loop.
LoopTest ==
    /\ acceptPc = "test"
    /\ acceptPc' = IF Stopping THEN "returned" ELSE "accept"
    /\ UNCHANGED <<files, shared, listening, signalled, accepted, limit, conn, pc,
                   session, request, commandMutex, unread>>

\* accept() fails because the socket was closed.
AcceptFails ==
    /\ acceptPc = "accept"
    /\ ~listening
    /\ acceptPc' = IF Stopping THEN "returned" ELSE "test"
    /\ UNCHANGED <<files, shared, listening, signalled, accepted, limit, conn, pc,
                   session, request, commandMutex, unread>>

\* accept() returns a connection, and the state is copied.
Accept(c) ==
    /\ acceptPc = "accept"
    /\ listening
    /\ conn[c] = "connecting"
    /\ conn' = [conn EXCEPT ![c] = "accepted"]
    /\ accepted' = c
    /\ limit' = options.maxConnections
    /\ acceptPc' = "count"
    /\ UNCHANGED <<files, shared, listening, signalled, pc, session, request,
                   commandMutex, unread>>

\* active_connection_count(state) >= snapshot.options.maxConnections
Full == Cardinality(sessions) >= limit

\* Answered with "max connections reached".
Reject ==
    /\ acceptPc = "count"
    /\ Full
    /\ conn' = [conn EXCEPT ![accepted] = "off"]
    /\ accepted' = NoClient
    /\ limit' = 0
    /\ acceptPc' = "test"
    /\ UNCHANGED <<files, shared, listening, signalled, pc, session, request,
                   commandMutex, unread>>

Admit ==
    /\ acceptPc = "count"
    /\ ~Full
    /\ acceptPc' = "register"
    /\ UNCHANGED <<files, shared, listening, signalled, accepted, limit, conn, pc,
                   session, request, commandMutex, unread>>

\* Register that clears its local before it uses it.
RegisterCleared ==
    /\ acceptPc = "register"
    /\ accepted' = NoClient
    /\ sessions' = sessions \cup {accepted'}
    /\ conn' = [conn EXCEPT ![accepted] = "connected"]
    /\ pc' = [pc EXCEPT ![accepted] = "first"]
    /\ limit' = 0
    /\ acceptPc' = "test"
    /\ UNCHANGED <<files, options, users, serverFd, shutdownRequested, listening,
                   signalled, session, request, commandMutex, unread>>

\* The session is entered under a lock of its own and its thread started.
Register ==
    /\ acceptPc = "register"
    /\ sessions' = sessions \cup {accepted}
    /\ conn' = [conn EXCEPT ![accepted] = "connected"]
    /\ pc' = [pc EXCEPT ![accepted] = "first"]
    /\ accepted' = NoClient
    /\ limit' = 0
    /\ acceptPc' = "test"
    /\ UNCHANGED <<files, options, users, serverFd, shutdownRequested, listening,
                   signalled, session, request, commandMutex, unread>>

AcceptStep ==
    LoopTest \/ AcceptFails \/ Reject \/ Admit \/ Register \/ \E c \in Clients : Accept(c)
-----------------------------------------------------------------------------
(* Reading and authenticating, in handle_text_client and                   *)
(* handle_json_client.                                                     *)

auth_required == DOMAIN users # {} \/ Fallback # {}

\* The line arrives.  A text upload announces a payload that follows it.
Arrives(c, l) ==
    /\ line' = [line EXCEPT ![c] = l]
    /\ unread' = [unread EXCEPT ![c] = l.form = "text" /\ l.cmd \in {"upload", "badUpload"}]

\* The first line decides the protocol of the session.
ReadFirst(c) ==
    /\ pc[c] = "first"
    /\ \E l \in ClientLines :
          /\ Arrives(c, l)
          /\ protocol' = [protocol EXCEPT ![c] =
                 IF ServerProtocol = "json" THEN "json" ELSE l.form]
    /\ Goto(c, "greet")
    /\ UNCHANGED <<files, shared, listening, signalled, accepting, conn, identity,
                   draft, readonly, closing, writable, commandMutex>>

\* A server that asks for no credentials makes the session anonymous at once.
Greet(c) ==
    /\ pc[c] = "greet"
    /\ identity' = [identity EXCEPT ![c] = IF auth_required THEN Nobody ELSE Anonymous]
    /\ Goto(c, "authenticate")
    /\ UNCHANGED <<files, shared, listening, signalled, accepting, conn, protocol,
                   draft, request, commandMutex, unread>>

ReadLine(c) ==
    /\ pc[c] = "read"
    /\ \E l \in ClientLines : Arrives(c, l)
    /\ Goto(c, "authenticate")
    /\ UNCHANGED <<files, shared, listening, signalled, accepting, conn, session,
                   readonly, closing, writable, commandMutex>>

\* The client closes its end instead.
Hangup(c) ==
    /\ pc[c] \in {"first", "read"}
    /\ Goto(c, "close")
    /\ UNCHANGED <<files, shared, listening, signalled, accepting, conn, session,
                   request, commandMutex, unread>>

\* The handler has its answer, and whether to end the session after it; what
\* else it knew of the request goes out of scope.
Reply(c, close) ==
    /\ closing' = [closing EXCEPT ![c] = close]
    /\ line' = [line EXCEPT ![c] = NoLine]
    /\ readonly' = [readonly EXCEPT ![c] = FALSE]
    /\ writable' = [writable EXCEPT ![c] = FALSE]
    /\ Goto(c, "reply")

\* The handler goes on with the request.
Continue(c, label) == Goto(c, label) /\ UNCHANGED request

\* An identity from the user registry, or, without one, from the command line.
Known(cred) == IF DOMAIN users # {} THEN cred \in DOMAIN users ELSE cred \in Fallback
IsAdmin(cred) == DOMAIN users # {} /\ users[cred]

\* The line offers a credential in the way its protocol has for it.
Offers(c) ==
    IF protocol[c] = "json" THEN line[c].cred # NoCredential
    ELSE line[c].form = "text" /\ line[c].cmd = "auth" /\ line[c].cred # NoCredential

\* RefusedCloses of a server that keeps the connection of a refused upload.
RefusedClosesNever(c) == FALSE

\* A refused upload ends the session, because its payload follows.
RefusedCloses(c) ==
    protocol[c] = "text" /\ line[c].form = "text" /\ line[c].cmd \in {"upload", "badUpload"}

\* authenticate_text_command and authenticate_json_command.  A JSON request goes
\* on to its command, a text session answers the auth line first.
Authenticate(c) ==
    /\ pc[c] = "authenticate"
    /\ IF protocol[c] = "json" /\ line[c].form # "json"
       THEN Reply(c, FALSE) /\ UNCHANGED identity
       ELSE IF identity[c].authenticated
       THEN Continue(c, "command") /\ UNCHANGED identity
       ELSE IF ~auth_required
       THEN /\ identity' = [identity EXCEPT ![c] = Anonymous]
            /\ Continue(c, "command")
       ELSE IF Offers(c) /\ Known(line[c].cred)
       THEN /\ identity' = [identity EXCEPT ![c] =
                  [authenticated |-> TRUE, isAdmin |-> IsAdmin(line[c].cred)]]
            /\ IF protocol[c] = "json" THEN Continue(c, "command") ELSE Reply(c, FALSE)
       ELSE Reply(c, RefusedCloses(c)) /\ UNCHANGED identity
    /\ UNCHANGED <<files, shared, listening, signalled, accepting, conn, protocol,
                   draft, commandMutex, unread>>
-----------------------------------------------------------------------------
(* execute_command and execute_upload_install_command.                     *)

\* What the command of a line is to the handler of the session: a JSON line in
\* a text session, or an auth line after the login, is no known command.
CommandOf(c) ==
    IF \/ line[c].form # protocol[c]
       \/ line[c].cmd = "auth"
       \/ protocol[c] = "json" /\ line[c].cmd \in {"upload", "badUpload"}
    THEN "unparsable" ELSE line[c].cmd

AdminCommands == {"shutdown", "connections", "reload"}

\* Commands that change something on the server's machine.
Mutating == {"mutate", "export", "upload"}

\* command_line_blocked_in_readonly_mode, before the line is parsed.
Blocked(cmd) == cmd \in {"mutate", "upload", "nested"}

\* AllowedReadonly without the test of Request::outputPath.
AllowedReadonlyExports(cmd) == cmd \in {"query", "export"}

\* requests_allowed_in_readonly_mode, once it is.
AllowedReadonly(cmd) == cmd = "query"

\* The commands the server answers by itself.
Answer(c) ==
    /\ pc[c] = "command"
    /\ \/ CommandOf(c) = "empty" /\ Reply(c, FALSE) /\ UNCHANGED shutdownRequested
       \/ CommandOf(c) = "quit" /\ Reply(c, TRUE) /\ UNCHANGED shutdownRequested
       \/ /\ CommandOf(c) \in AdminCommands
          /\ ~identity[c].isAdmin \/ CommandOf(c) = "connections"
          /\ Reply(c, FALSE)
          /\ UNCHANGED shutdownRequested
       \/ /\ CommandOf(c) = "shutdown"
          /\ identity[c].isAdmin
          /\ shutdownRequested' = TRUE
          /\ Reply(c, TRUE)
    /\ UNCHANGED <<files, options, users, sessions, serverFd, listening, signalled,
                   accepting, conn, session, commandMutex, unread>>

\* An upload is refused before its payload is taken: the request is malformed,
\* or the server is readonly and reads the payload to throw it away.
RefuseUpload(c) ==
    /\ pc[c] = "command"
    /\ \/ /\ CommandOf(c) = "badUpload"
          /\ Reply(c, TRUE)
          /\ UNCHANGED unread
       \/ /\ CommandOf(c) = "upload" /\ options.readonly
          /\ \E complete \in BOOLEAN : Reply(c, ~complete)
          /\ unread' = [unread EXCEPT ![c] = FALSE]
    /\ UNCHANGED <<files, shared, listening, signalled, accepting, conn, session,
                   commandMutex>>

AcceptUpload(c) ==
    /\ pc[c] = "command"
    /\ CommandOf(c) = "upload" /\ ~options.readonly
    /\ Continue(c, "payload")
    /\ UNCHANGED <<files, shared, listening, signalled, accepting, conn, session,
                   commandMutex, unread>>

\* The request is complete and reaches the snapshot on which the rest is decided;
\* the history variable starts here.
Complete(c) ==
    /\ Goto(c, "prepare")
    /\ writable' = [writable EXCEPT ![c] = ~options.readonly]
    /\ UNCHANGED <<line, readonly, closing>>

\* write_uploaded_file_to_temp: the payload is read to its end, whatever becomes
\* of the file; a failure is answered, a success goes on to the command.
ReadPayload(c) ==
    /\ pc[c] = "payload"
    /\ unread' = [unread EXCEPT ![c] = FALSE]
    /\ Reply(c, FALSE) \/ Complete(c)
    /\ UNCHANGED <<files, shared, listening, signalled, accepting, conn, session,
                   commandMutex>>

\* Every other command.
Prepare(c) ==
    /\ pc[c] = "command"
    /\ CommandOf(c) \notin AdminCommands \cup {"empty", "quit", "upload", "badUpload"}
    /\ Complete(c)
    /\ UNCHANGED <<files, shared, listening, signalled, accepting, conn, session,
                   commandMutex, unread>>

TakeSnapshot(c) ==
    /\ pc[c] = "prepare"
    /\ readonly' = [readonly EXCEPT ![c] = options.readonly]
    /\ Goto(c, "decide")
    /\ UNCHANGED <<files, shared, listening, signalled, accepting, conn, session,
                   line, closing, writable, commandMutex, unread>>

\* The readonly rules and the parser, all on the snapshot.
Decide(c) ==
    /\ pc[c] = "decide"
    /\ LET cmd == CommandOf(c) IN
       IF \/ readonly[c] /\ (Blocked(cmd) \/ ~AllowedReadonly(cmd))
          \/ cmd \in {"nested", "fast", "unparsable"}
       THEN Reply(c, FALSE)
       ELSE Continue(c, "lock")
    /\ UNCHANGED <<files, shared, listening, signalled, accepting, conn, session,
                   commandMutex, unread>>

LockCommand(c) ==
    /\ pc[c] = "lock"
    /\ commandMutex = NoClient
    /\ commandMutex' = c
    /\ Goto(c, "run")
    /\ UNCHANGED <<files, shared, listening, signalled, accepting, conn, session,
                   request, unread>>

\* Orchestrator::run, its output captured; then the lock is given back.
RunCommand(c) ==
    /\ pc[c] = "run"
    /\ commandMutex' = NoClient
    /\ Reply(c, FALSE)
    /\ UNCHANGED <<files, shared, listening, signalled, accepting, conn, session,
                   unread>>
-----------------------------------------------------------------------------
(* reload_remote_state, without commandMutex.                              *)

Merged(current, file) ==
    [readonly |-> IF "readonly" \in Explicit THEN current.readonly ELSE file.readonly,
     maxConnections |-> IF "maxConnections" \in Explicit THEN current.maxConnections
                        ELSE file.maxConnections]

\* The configuration file is loaded, which may fail, and joined with a copy of the
\* options of the moment.
LoadConfig(c) ==
    /\ pc[c] = "command"
    /\ CommandOf(c) = "reload" /\ identity[c].isAdmin
    /\ \/ Reply(c, FALSE) /\ UNCHANGED draft
       \/ /\ draft' = [draft EXCEPT ![c].options =
                          Merged(options, ConfigFiles[configDisk])]
          /\ Continue(c, "loadUsers")
    /\ UNCHANGED <<files, shared, listening, signalled, accepting, conn, protocol,
                   identity, commandMutex, unread>>

LoadUsers(c) ==
    /\ pc[c] = "loadUsers"
    /\ draft' = [draft EXCEPT ![c].users = UserFiles[usersDisk]]
    /\ Goto(c, "store")
    /\ UNCHANGED <<files, shared, listening, signalled, accepting, conn, protocol,
                   identity, request, commandMutex, unread>>

\* Requests that have not been executed yet see a server that was writable.
StoreReload(c) ==
    /\ pc[c] = "store"
    /\ options' = draft[c].options
    /\ users' = draft[c].users
    /\ draft' = [draft EXCEPT ![c] = NoDraft]
    /\ writable' = [d \in Clients |->
                       /\ pc[d] \in {"prepare", "decide", "lock", "run"}
                       /\ writable[d] \/ ~draft[c].options.readonly]
    /\ closing' = [closing EXCEPT ![c] = FALSE]
    /\ line' = [line EXCEPT ![c] = NoLine]
    /\ Goto(c, "reply")
    /\ UNCHANGED <<files, sessions, serverFd, shutdownRequested, listening,
                   signalled, accepting, conn, protocol, identity, readonly,
                   commandMutex, unread>>
-----------------------------------------------------------------------------
(* The answer, and the end of a session.                                   *)

\* send_all succeeds: on to the next line, or to the end of the session.
ReplySent(c) ==
    /\ pc[c] = "reply"
    /\ Goto(c, IF ~closing[c] THEN "read"
               ELSE IF shutdownRequested THEN "stop" ELSE "close")
    /\ closing' = [closing EXCEPT ![c] = FALSE]
    /\ UNCHANGED <<files, shared, listening, signalled, accepting, conn, session,
                   line, readonly, writable, commandMutex, unread>>

\* The client is gone: the handler returns, and does nothing else.
ReplyFails(c) ==
    /\ pc[c] = "reply"
    /\ Goto(c, "close")
    /\ closing' = [closing EXCEPT ![c] = FALSE]
    /\ UNCHANGED <<files, shared, listening, signalled, accepting, conn, session,
                   line, readonly, writable, commandMutex, unread>>

\* StopServer that leaves the listening socket open.
StopServerFlagOnly(c) ==
    /\ pc[c] = "stop"
    /\ serverFd' = FALSE
    /\ Goto(c, "close")
    /\ UNCHANGED <<files, options, users, sessions, shutdownRequested, listening,
                   signalled, accepting, conn, session, request, commandMutex,
                   unread>>

\* request_server_shutdown
StopServer(c) ==
    /\ pc[c] = "stop"
    /\ listening' = (listening /\ ~serverFd)
    /\ serverFd' = FALSE
    /\ Goto(c, "close")
    /\ UNCHANGED <<files, options, users, sessions, shutdownRequested, signalled,
                   accepting, conn, session, request, commandMutex, unread>>

\* The socket is closed and the session erased; what was not read is lost.
CloseSession(c) ==
    /\ pc[c] = "close"
    /\ conn' = [conn EXCEPT ![c] = "off"]
    /\ sessions' = sessions \ {c}
    /\ unread' = [unread EXCEPT ![c] = FALSE]
    /\ protocol' = [protocol EXCEPT ![c] = "text"]
    /\ identity' = [identity EXCEPT ![c] = Nobody]
    /\ Goto(c, "none")
    /\ UNCHANGED <<files, options, users, serverFd, shutdownRequested, listening,
                   signalled, accepting, draft, request, commandMutex>>
-----------------------------------------------------------------------------

\* What a session does on its own, without waiting for its client.
SessionStep(c) ==
    /\ ~Returned
    /\ \/ Greet(c) \/ Authenticate(c) \/ Answer(c) \/ RefuseUpload(c)
       \/ AcceptUpload(c) \/ ReadPayload(c) \/ Prepare(c) \/ TakeSnapshot(c)
       \/ Decide(c)
       \/ LockCommand(c) \/ RunCommand(c) \/ LoadConfig(c) \/ LoadUsers(c)
       \/ StoreReload(c) \/ ReplySent(c) \/ ReplyFails(c) \/ StopServer(c)
       \/ CloseSession(c)

ClientStep(c) == ~Returned /\ (ReadFirst(c) \/ ReadLine(c) \/ Hangup(c))

\* run_remote_serve has returned and the process exits.
Finished == Returned /\ UNCHANGED vars

Next ==
    \/ EditConfig \/ EditUsers \/ Signal
    \/ AcceptStep
    \/ \E c \in Clients : Connect(c) \/ ClientStep(c) \/ SessionStep(c)
    \/ Finished

Spec == Init /\ [][Next]_vars

\* The threads keep running; clients, the administrator and signals may do nothing
\* for ever, and commandMutex need not be fair.
Fairness ==
    /\ WF_vars(AcceptStep)
    /\ \A c \in Clients : WF_vars(SessionStep(c))

FairSpec == Spec /\ Fairness
-----------------------------------------------------------------------------
(* Properties.                                                             *)

Labels == {"none", "first", "greet", "read", "authenticate", "command", "payload",
           "prepare", "decide", "lock", "run", "loadUsers", "store", "reply",
           "stop", "close"}

\* Every variable of the server and of its threads keeps its type.
TypeOK ==
    /\ configDisk \in DOMAIN ConfigFiles /\ usersDisk \in DOMAIN UserFiles
    /\ options \in OptionValues
    /\ users \in Registries
    /\ sessions \subseteq Clients
    /\ serverFd \in BOOLEAN /\ shutdownRequested \in BOOLEAN
    /\ listening \in BOOLEAN /\ signalled \in BOOLEAN
    /\ acceptPc \in {"test", "accept", "count", "register", "returned"}
    /\ accepted \in Clients \cup {NoClient}
    /\ limit \in Nat
    /\ conn \in [Clients -> {"off", "connecting", "accepted", "connected"}]
    /\ pc \in [Clients -> Labels]
    /\ protocol \in [Clients -> {"text", "json"}]
    /\ identity \in [Clients -> [authenticated : BOOLEAN, isAdmin : BOOLEAN]]
    /\ line \in [Clients -> Lines]
    /\ readonly \in [Clients -> BOOLEAN]
    /\ draft \in [Clients -> [options : OptionValues, users : Registries]]
    /\ closing \in [Clients -> BOOLEAN]
    /\ commandMutex \in Clients \cup {NoClient}
    /\ unread \in [Clients -> BOOLEAN]
    /\ writable \in [Clients -> BOOLEAN]

\* A command that changes something runs only if the server was writable at some
\* time since its request was complete: a reload to readonly may be overtaken by
\* the commands already waiting for commandMutex, never by a later one.
MutationsPermitted ==
    \A c \in Clients : pc[c] = "run" /\ CommandOf(c) \in Mutating => writable[c]

\* In a text session the payload of an upload is never read as a command line:
\* every path out of an upload request reads the payload or ends the session.
PayloadNeverCommand ==
    \A c \in Clients : pc[c] = "read" /\ protocol[c] = "text" => ~unread[c]

\* Once the answer to a shutdown was sent, run_remote_serve returns, wherever the
\* accepting thread was at that time.
ShutdownCompletes ==
    \A c \in Clients : pc[c] = "stop" ~> Returned
-----------------------------------------------------------------------------
(* The inductive invariant behind the safety properties.                   *)

\* The accepting thread holds a connection from accept() to its registration, and
\* no session thread has it yet.
AcceptInv ==
    /\ acceptPc \in {"count", "register"} =>
           accepted \in Clients /\ conn[accepted] = "accepted"
    /\ \A c \in Clients : conn[c] \in {"connecting", "accepted"} => pc[c] = "none"

\* What the handler of a session has decided on its snapshot is still backed by
\* the history of the options, whatever was reloaded in between; and a command
\* that changes something passed the decision on a writable snapshot only.
DecisionBacked(c) ==
    /\ pc[c] = "prepare" /\ ~options.readonly => writable[c]
    /\ pc[c] \in {"decide", "lock", "run"} /\ ~readonly[c] => writable[c]
    /\ pc[c] \in {"lock", "run"} /\ CommandOf(c) \in Mutating => ~readonly[c]

\* The payload of a text upload is outstanding only while the request is on its
\* way to the handler that reads it, or the session is about to end.
PayloadTracked(c) ==
    protocol[c] = "text" /\ unread[c] =>
        \/ /\ pc[c] \in {"greet", "authenticate", "command"}
           /\ line[c].form = "text" /\ line[c].cmd \in {"upload", "badUpload"}
        \/ pc[c] \in {"payload", "stop", "close"}
        \/ pc[c] = "reply" /\ closing[c]

\* commandMutex belongs to the session that runs a command.
MutexHeld(c) == pc[c] = "run" <=> commandMutex = c

\* Every step of every thread preserves these facts together.
ServerInv ==
    /\ TypeOK
    /\ AcceptInv
    /\ \A c \in Clients : DecisionBacked(c) /\ PayloadTracked(c) /\ MutexHeld(c)
=============================================================================
