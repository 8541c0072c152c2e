------------------------- MODULE RemoteServerProofs -------------------------
(***************************************************************************)
(* Proofs about RemoteServer for every number of clients, every sequence   *)
(* of configuration and user files and every set of lines that clients     *)
(* send.                                                                   *)
(***************************************************************************)
EXTENDS RemoteServer, TLAPS

\* The constants the initial state and the handlers use have their types.
LEMMA ConstantTypes ==
    /\ NoLine \in Lines
    /\ ClientLines \subseteq Lines
    /\ \A i \in DOMAIN ConfigFiles : ConfigFiles[i] \in OptionValues
    /\ \A i \in DOMAIN UserFiles : UserFiles[i] \in Registries
    /\ 1 \in DOMAIN ConfigFiles /\ 1 \in DOMAIN UserFiles
    /\ NoDraft \in [options : OptionValues, users : Registries]
    /\ NoClient \notin Clients
<1>1. NoLine \in Lines
  BY DEF NoLine, Lines, Commands
<1>2. \A i \in DOMAIN ConfigFiles : ConfigFiles[i] \in OptionValues
  BY RemoteServerAssumption
<1>3. \A i \in DOMAIN UserFiles : UserFiles[i] \in Registries
  BY RemoteServerAssumption
<1>4. 1 \in DOMAIN ConfigFiles /\ 1 \in DOMAIN UserFiles
  BY RemoteServerAssumption
<1> QED
  BY <1>1, <1>2, <1>3, <1>4, ClientAssumption, RemoteServerAssumption DEF NoDraft

\* A reload leaves options of the right type.
LEMMA MergedType ==
    ASSUME NEW current \in OptionValues, NEW file \in OptionValues
    PROVE  Merged(current, file) \in OptionValues
BY DEF Merged, OptionValues

LEMMA InitType == Init => TypeOK
<1> SUFFICES ASSUME Init PROVE TypeOK
  OBVIOUS
<1>1. /\ configDisk \in DOMAIN ConfigFiles /\ usersDisk \in DOMAIN UserFiles
      /\ options \in OptionValues /\ users \in Registries
      /\ draft \in [Clients -> [options : OptionValues, users : Registries]]
      /\ line \in [Clients -> Lines]
  BY ConstantTypes DEF Init
<1>2. /\ pc \in [Clients -> Labels]
      /\ identity \in [Clients -> [authenticated : BOOLEAN, isAdmin : BOOLEAN]]
  BY DEF Init, Labels, Nobody
<1> QED
  BY <1>1, <1>2 DEF Init, TypeOK

LEMMA AcceptType ==
    ASSUME TypeOK, AcceptInv, AcceptStep PROVE TypeOK'
<1> USE DEF files, shared, accepting, request, session
<1>1. CASE LoopTest \/ AcceptFails \/ Admit
  BY <1>1 DEF TypeOK, LoopTest, AcceptFails, Admit
<1>2. CASE Reject
  BY <1>2 DEF TypeOK, Reject
<1>3. CASE Register
  BY <1>3 DEF TypeOK, AcceptInv, Register, Labels
<1>4. ASSUME NEW c \in Clients, Accept(c) PROVE TypeOK'
  BY <1>4 DEF TypeOK, Accept, OptionValues
<1> QED
  BY <1>1, <1>2, <1>3, <1>4 DEF AcceptStep

LEMMA ReadType ==
    ASSUME TypeOK, NEW c \in Clients,
           ReadFirst(c) \/ Greet(c) \/ ReadLine(c) \/ Hangup(c) \/ Connect(c)
    PROVE  TypeOK'
<1> USE DEF files, shared, accepting, request, session, Goto, Labels
<1>1. CASE ReadFirst(c)
  <2>1. PICK l \in ClientLines :
          /\ Arrives(c, l)
          /\ protocol' = [protocol EXCEPT ![c] =
                 IF ServerProtocol = "json" THEN "json" ELSE l.form]
    BY <1>1 DEF ReadFirst
  <2>2. l \in Lines /\ l.form \in {"text", "json"}
    BY ClientAssumption DEF Lines
  <2> QED
    BY <1>1, <2>1, <2>2 DEF TypeOK, ReadFirst, Arrives
<1>2. CASE Greet(c)
  BY <1>2 DEF TypeOK, Greet, Nobody, Anonymous
<1>3. CASE ReadLine(c)
  BY <1>3, ClientAssumption DEF TypeOK, ReadLine, Arrives
<1>4. CASE Hangup(c)
  BY <1>4 DEF TypeOK, Hangup
<1>5. CASE Connect(c)
  BY <1>5 DEF TypeOK, Connect
<1> QED
  BY <1>1, <1>2, <1>3, <1>4, <1>5

\* What Reply and Continue leave of a request has its type.
LEMMA ReplyType ==
    ASSUME TypeOK, NEW c \in Clients, NEW close \in BOOLEAN, Reply(c, close)
    PROVE  /\ closing' \in [Clients -> BOOLEAN]
           /\ line' \in [Clients -> Lines]
           /\ readonly' \in [Clients -> BOOLEAN]
           /\ writable' \in [Clients -> BOOLEAN]
           /\ pc' \in [Clients -> Labels]
BY ConstantTypes DEF TypeOK, Reply, Goto, Labels

LEMMA ContinueType ==
    ASSUME TypeOK, NEW c \in Clients, NEW label \in Labels,
           Continue(c, label) \/ (label = "prepare" /\ Complete(c))
    PROVE  /\ closing' \in [Clients -> BOOLEAN]
           /\ line' \in [Clients -> Lines]
           /\ readonly' \in [Clients -> BOOLEAN]
           /\ writable' \in [Clients -> BOOLEAN]
           /\ pc' \in [Clients -> Labels]
<1>1. CASE Continue(c, label)
  BY <1>1 DEF TypeOK, Continue, Goto, request
<1>2. CASE label = "prepare" /\ Complete(c)
  BY <1>2 DEF TypeOK, Complete, Goto
<1> QED
  BY <1>1, <1>2

LEMMA AuthenticateType ==
    ASSUME TypeOK, NEW c \in Clients, Authenticate(c) PROVE TypeOK'
<1> USE DEF files, shared, accepting, session
<1>1. identity' \in [Clients -> [authenticated : BOOLEAN, isAdmin : BOOLEAN]]
  <2>1. CASE UNCHANGED identity
    BY <2>1 DEF TypeOK
  <2>2. CASE identity' = [identity EXCEPT ![c] = Anonymous]
    BY <2>2 DEF TypeOK, Anonymous
  <2>3. CASE /\ Known(line[c].cred)
             /\ identity' = [identity EXCEPT ![c] =
                   [authenticated |-> TRUE, isAdmin |-> IsAdmin(line[c].cred)]]
    <3>1. IsAdmin(line[c].cred) \in BOOLEAN
      BY <2>3 DEF IsAdmin
    <3> QED
      BY <2>3, <3>1 DEF TypeOK
  <2> QED
    BY <2>1, <2>2, <2>3 DEF Authenticate
<1>2. /\ closing' \in [Clients -> BOOLEAN]
      /\ line' \in [Clients -> Lines]
      /\ readonly' \in [Clients -> BOOLEAN]
      /\ writable' \in [Clients -> BOOLEAN]
      /\ pc' \in [Clients -> Labels]
  <2>1. RefusedCloses(c) \in BOOLEAN
    BY DEF RefusedCloses
  <2>2. CASE Reply(c, FALSE) \/ Reply(c, RefusedCloses(c))
    BY <2>1, <2>2, ReplyType
  <2>3. CASE Continue(c, "command")
    BY <2>3, ContinueType DEF Labels
  <2> QED
    BY <2>2, <2>3 DEF Authenticate
<1> QED
  BY <1>1, <1>2 DEF TypeOK, Authenticate

LEMMA CommandType ==
    ASSUME TypeOK, NEW c \in Clients,
           Answer(c) \/ RefuseUpload(c) \/ AcceptUpload(c) \/ ReadPayload(c)
             \/ Prepare(c) \/ Decide(c) \/ LockCommand(c) \/ RunCommand(c)
    PROVE  TypeOK'
<1> USE DEF files, shared, accepting, session
<1>1. \/ \E close \in BOOLEAN : Reply(c, close)
      \/ \E label \in Labels :
            Continue(c, label) \/ (label = "prepare" /\ Complete(c))
  BY DEF Answer, RefuseUpload, AcceptUpload, ReadPayload, Prepare, Decide,
         LockCommand, RunCommand, Labels, Continue
<1>2. /\ closing' \in [Clients -> BOOLEAN]
      /\ line' \in [Clients -> Lines]
      /\ readonly' \in [Clients -> BOOLEAN]
      /\ writable' \in [Clients -> BOOLEAN]
      /\ pc' \in [Clients -> Labels]
  BY <1>1, ReplyType, ContinueType
<1>3. CASE Answer(c)
  BY <1>2, <1>3 DEF TypeOK, Answer
<1>4. CASE RefuseUpload(c)
  BY <1>2, <1>4 DEF TypeOK, RefuseUpload
<1>5. CASE AcceptUpload(c) \/ Prepare(c) \/ Decide(c)
  BY <1>2, <1>5 DEF TypeOK, AcceptUpload, Prepare, Decide
<1>6. CASE ReadPayload(c)
  BY <1>2, <1>6 DEF TypeOK, ReadPayload
<1>7. CASE LockCommand(c) \/ RunCommand(c)
  BY <1>2, <1>7 DEF TypeOK, LockCommand, RunCommand
<1> QED
  BY <1>3, <1>4, <1>5, <1>6, <1>7

LEMMA ReloadType ==
    ASSUME TypeOK, NEW c \in Clients,
           LoadConfig(c) \/ LoadUsers(c) \/ StoreReload(c) \/ TakeSnapshot(c)
    PROVE  TypeOK'
<1> USE DEF files, shared, accepting, session, Goto, Labels
<1>1. CASE LoadConfig(c)
  <2>1. CASE Reply(c, FALSE) /\ UNCHANGED draft
    BY <1>1, <2>1, ReplyType, ZenonT(60) DEF TypeOK, LoadConfig
  <2>2. CASE /\ draft' = [draft EXCEPT ![c].options =
                             Merged(options, ConfigFiles[configDisk])]
             /\ Continue(c, "loadUsers")
    <3>1. Merged(options, ConfigFiles[configDisk]) \in OptionValues
      BY MergedType, ConstantTypes DEF TypeOK
    <3>2. draft' \in [Clients -> [options : OptionValues, users : Registries]]
      BY <2>2, <3>1 DEF TypeOK
    <3> QED
      BY <1>1, <2>2, <3>2, ContinueType DEF TypeOK, LoadConfig
  <2> QED
    BY <1>1, <2>1, <2>2 DEF LoadConfig
<1>2. CASE LoadUsers(c)
  <2>1. UserFiles[usersDisk] \in Registries
    BY ConstantTypes DEF TypeOK
  <2>2. draft' \in [Clients -> [options : OptionValues, users : Registries]]
    BY <1>2, <2>1 DEF TypeOK, LoadUsers
  <2> QED
    BY <1>2, <2>2 DEF TypeOK, LoadUsers, request
<1>3. CASE StoreReload(c)
  <2>1. draft[c].options \in OptionValues /\ draft[c].users \in Registries
    BY DEF TypeOK
  <2>2. draft[c].options.readonly \in BOOLEAN
    BY <2>1 DEF OptionValues
  <2>3. draft' \in [Clients -> [options : OptionValues, users : Registries]]
    BY <1>3, ConstantTypes DEF TypeOK, StoreReload
  <2>4. writable' \in [Clients -> BOOLEAN]
    BY <1>3, <2>2 DEF TypeOK, StoreReload
  <2> QED
    BY <1>3, <2>1, <2>3, <2>4, ConstantTypes DEF TypeOK, StoreReload
<1>4. CASE TakeSnapshot(c)
  BY <1>4 DEF TypeOK, TakeSnapshot, OptionValues
<1> QED
  BY <1>1, <1>2, <1>3, <1>4

LEMMA EndType ==
    ASSUME TypeOK, NEW c \in Clients,
           ReplySent(c) \/ ReplyFails(c) \/ StopServer(c) \/ CloseSession(c)
    PROVE  TypeOK'
<1> USE DEF files, shared, accepting, session, request, Goto, Labels
<1>1. CASE ReplySent(c) \/ ReplyFails(c)
  BY <1>1 DEF TypeOK, ReplySent, ReplyFails
<1>2. CASE StopServer(c)
  BY <1>2 DEF TypeOK, StopServer
<1>3. CASE CloseSession(c)
  BY <1>3 DEF TypeOK, CloseSession, Nobody
<1> QED
  BY <1>1, <1>2, <1>3

LEMMA EnvironmentType ==
    ASSUME TypeOK, EditConfig \/ EditUsers \/ Signal \/ Finished PROVE TypeOK'
<1> USE DEF files, shared, accepting, session, request
<1>1. CASE EditConfig
  BY <1>1, RemoteServerAssumption DEF TypeOK, EditConfig
<1>2. CASE EditUsers
  BY <1>2, RemoteServerAssumption DEF TypeOK, EditUsers
<1>3. CASE Signal
  BY <1>3 DEF TypeOK, Signal
<1>4. CASE Finished
  BY <1>4 DEF TypeOK, Finished, vars
<1> QED
  BY <1>1, <1>2, <1>3, <1>4

LEMMA NextType == TypeOK /\ AcceptInv /\ [Next]_vars => TypeOK'
<1> SUFFICES ASSUME TypeOK, AcceptInv, [Next]_vars PROVE TypeOK'
  OBVIOUS
<1>1. CASE UNCHANGED vars
  BY <1>1 DEF TypeOK, vars, files, shared, accepting, session, request
<1>2. CASE EditConfig \/ EditUsers \/ Signal \/ Finished \/ AcceptStep
  BY <1>2, EnvironmentType, AcceptType
<1>3. ASSUME NEW c \in Clients, Connect(c) \/ ClientStep(c) \/ SessionStep(c)
      PROVE  TypeOK'
  BY <1>3, ReadType, AuthenticateType, CommandType, ReloadType, EndType
  DEF ClientStep, SessionStep
<1> QED
  BY <1>1, <1>2, <1>3 DEF Next

-----------------------------------------------------------------------------
(* The decisions, the payloads and the mutex.                              *)

LEMMA InitInv == Init => ServerInv
<1> SUFFICES ASSUME Init PROVE ServerInv
  OBVIOUS
<1>1. TypeOK
  BY InitType
<1>2. AcceptInv /\ \A c \in Clients : DecisionBacked(c) /\ PayloadTracked(c)
  BY DEF Init, AcceptInv, DecisionBacked, PayloadTracked
<1>3. \A c \in Clients : MutexHeld(c)
  BY ConstantTypes DEF Init, MutexHeld
<1> QED
  BY <1>1, <1>2, <1>3 DEF ServerInv

\* The facts about one session depend on the options and on its own variables.
LEMMA SessionFrame ==
    ASSUME NEW d \in Clients, options' = options,
           pc'[d] = pc[d], line'[d] = line[d], protocol'[d] = protocol[d],
           readonly'[d] = readonly[d], writable'[d] = writable[d],
           closing'[d] = closing[d], unread'[d] = unread[d],
           commandMutex' = d <=> commandMutex = d,
           DecisionBacked(d), PayloadTracked(d), MutexHeld(d)
    PROVE  DecisionBacked(d)' /\ PayloadTracked(d)' /\ MutexHeld(d)'
<1>1. DecisionBacked(d)'
  BY DEF DecisionBacked, CommandOf
<1>2. PayloadTracked(d)' /\ MutexHeld(d)'
  BY DEF PayloadTracked, MutexHeld
<1> QED
  BY <1>1, <1>2

\* A step that changes neither the options nor anything a session has decided.
LEMMA QuietInv ==
    ASSUME ServerInv, TypeOK', AcceptInv',
           UNCHANGED <<options, pc, session, request, commandMutex, unread>>
    PROVE  ServerInv'
BY SessionFrame DEF ServerInv, session, request

\* A step of session c that touches nothing of the others: what is left to show
\* are the facts about c.
LEMMA LocalInv ==
    ASSUME ServerInv, TypeOK', NEW c \in Clients,
           UNCHANGED <<options, acceptPc, accepted>>,
           pc[c] # "none", conn'[c] \in {conn[c], "off"},
           \A d \in Clients \ {c} :
              /\ conn'[d] = conn[d]
              /\ pc'[d] = pc[d] /\ line'[d] = line[d] /\ protocol'[d] = protocol[d]
              /\ readonly'[d] = readonly[d] /\ writable'[d] = writable[d]
              /\ closing'[d] = closing[d] /\ unread'[d] = unread[d]
              /\ commandMutex' = d <=> commandMutex = d,
           DecisionBacked(c)', PayloadTracked(c)', MutexHeld(c)'
    PROVE  ServerInv'
<1>1. AcceptInv'
  BY DEF ServerInv, AcceptInv, TypeOK
<1>2. ASSUME NEW d \in Clients
      PROVE  DecisionBacked(d)' /\ PayloadTracked(d)' /\ MutexHeld(d)'
  <2>1. CASE d = c
    BY <2>1
  <2>2. CASE d # c
    BY <2>2, SessionFrame DEF ServerInv
  <2> QED
    BY <2>1, <2>2
<1> QED
  BY <1>1, <1>2 DEF ServerInv

LEMMA AcceptStepInv ==
    ASSUME ServerInv, TypeOK', AcceptStep PROVE ServerInv'
<1> USE DEF files, shared, accepting, session, request
<1>1. CASE LoopTest \/ AcceptFails \/ Admit
  <2>1. AcceptInv'
    BY <1>1 DEF ServerInv, AcceptInv, LoopTest, AcceptFails, Admit
  <2> QED
    BY <1>1, <2>1, QuietInv DEF LoopTest, AcceptFails, Admit
<1>2. CASE Reject
  <2>1. AcceptInv'
    BY <1>2 DEF ServerInv, AcceptInv, TypeOK, Reject
  <2> QED
    BY <1>2, <2>1, QuietInv DEF Reject
<1>3. ASSUME NEW c \in Clients, Accept(c) PROVE ServerInv'
  <2>1. AcceptInv'
    BY <1>3 DEF ServerInv, AcceptInv, TypeOK, Accept
  <2> QED
    BY <1>3, <2>1, QuietInv DEF Accept
<1>4. CASE Register
  <2>1. PICK c \in Clients : c = accepted /\ pc[c] = "none"
    BY <1>4 DEF ServerInv, AcceptInv, Register
  <2>2. /\ pc'[c] = "first" /\ conn'[c] = "connected"
        /\ \A d \in Clients \ {c} : pc'[d] = pc[d] /\ conn'[d] = conn[d]
    BY <1>4, <2>1 DEF ServerInv, TypeOK, Register
  <2>3. AcceptInv'
    BY <1>4, <2>2 DEF ServerInv, AcceptInv, Register
  <2>4. DecisionBacked(c)' /\ PayloadTracked(c)' /\ MutexHeld(c)'
    BY <1>4, <2>1, <2>2
    DEF ServerInv, DecisionBacked, PayloadTracked, MutexHeld, Register
  <2>5. \A d \in Clients \ {c} :
           DecisionBacked(d)' /\ PayloadTracked(d)' /\ MutexHeld(d)'
    BY <1>4, <2>2, SessionFrame DEF ServerInv, Register
  <2> QED
    BY <2>3, <2>4, <2>5 DEF ServerInv
<1> QED
  BY <1>1, <1>2, <1>3, <1>4 DEF AcceptStep

LEMMA EnvironmentInv ==
    ASSUME ServerInv, TypeOK',
           EditConfig \/ EditUsers \/ Signal \/ Finished \/ UNCHANGED vars
             \/ \E c \in Clients : Connect(c)
    PROVE  ServerInv'
<1> USE DEF files, shared, accepting, session, request
<1>1. CASE EditConfig \/ EditUsers \/ Signal \/ Finished \/ UNCHANGED vars
  <2>1. UNCHANGED <<options, pc, session, request, commandMutex, unread, conn, accepting>>
    BY <1>1 DEF EditConfig, EditUsers, Signal, Finished, vars
  <2>2. AcceptInv'
    BY <2>1 DEF ServerInv, AcceptInv
  <2> QED
    BY <2>1, <2>2, QuietInv
<1>2. ASSUME NEW c \in Clients, Connect(c) PROVE ServerInv'
  <2>1. AcceptInv'
    BY <1>2 DEF ServerInv, AcceptInv, TypeOK, Connect
  <2> QED
    BY <1>2, <2>1, QuietInv DEF Connect
<1> QED
  BY <1>1, <1>2

\* The steps of session c that stay within it: each shows the facts about c after
\* the step, and LocalInv does the rest.
LEMMA ReadInv ==
    ASSUME ServerInv, TypeOK', NEW c \in Clients,
           ReadFirst(c) \/ Greet(c) \/ ReadLine(c) \/ Hangup(c)
    PROVE  ServerInv'
<1> USE DEF files, shared, accepting, session, request, Goto, ServerInv
<1>1. TypeOK /\ MutexHeld(c) /\ PayloadTracked(c)
  OBVIOUS
<1>2. /\ pc[c] # "none" /\ pc[c] # "run"
      /\ pc'[c] \in {"greet", "authenticate", "close"}
      /\ \A d \in Clients \ {c} :
            /\ pc'[d] = pc[d] /\ line'[d] = line[d] /\ protocol'[d] = protocol[d]
            /\ unread'[d] = unread[d]
      /\ UNCHANGED <<options, acceptPc, accepted, conn, commandMutex, readonly, writable,
                     closing>>
  BY <1>1 DEF TypeOK, ReadFirst, Greet, ReadLine, Hangup, Arrives
<1>3. DecisionBacked(c)' /\ MutexHeld(c)'
  BY <1>1, <1>2 DEF DecisionBacked, MutexHeld
<1>4. PayloadTracked(c)'
  <2>1. CASE ReadFirst(c) \/ ReadLine(c)
    <3>1. PICK l \in ClientLines : Arrives(c, l)
      BY <2>1 DEF ReadFirst, ReadLine
    <3>2. /\ line'[c] = l
          /\ unread'[c] <=> l.form = "text" /\ l.cmd \in {"upload", "badUpload"}
      BY <1>1, <3>1 DEF TypeOK, Arrives
    <3>3. pc'[c] \in {"greet", "authenticate"}
      BY <1>1, <2>1 DEF TypeOK, ReadFirst, ReadLine
    <3> QED
      BY <3>2, <3>3 DEF PayloadTracked
  <2>2. CASE Greet(c) \/ Hangup(c)
    BY <1>1, <1>2, <2>2 DEF TypeOK, PayloadTracked, Greet, Hangup
  <2> QED
    BY <2>1, <2>2
<1> QED
  BY <1>2, <1>3, <1>4, LocalInv

\* An answer of session c, from any place where it does not run a command: only
\* the payload must be accounted for.
LEMMA ReplyInv ==
    ASSUME ServerInv, TypeOK', NEW c \in Clients, NEW close \in BOOLEAN,
           Reply(c, close), pc[c] # "none",
           UNCHANGED <<options, acceptPc, accepted, conn, protocol>>,
           pc[c] = "run" => commandMutex' = NoClient,
           pc[c] # "run" => commandMutex' = commandMutex,
           unread' \in {unread, [unread EXCEPT ![c] = FALSE]},
           protocol[c] = "text" /\ unread'[c] => close
    PROVE  ServerInv'
<1>1. TypeOK /\ \A d \in Clients : MutexHeld(d)
  BY DEF ServerInv
<1>2. /\ pc'[c] = "reply" /\ closing'[c] = close
      /\ \A d \in Clients \ {c} :
            /\ pc'[d] = pc[d] /\ line'[d] = line[d] /\ readonly'[d] = readonly[d]
            /\ writable'[d] = writable[d] /\ closing'[d] = closing[d]
            /\ unread'[d] = unread[d]
  BY <1>1 DEF TypeOK, Reply, Goto
<1>3. /\ commandMutex' # c
      /\ \A d \in Clients \ {c} : commandMutex' = d <=> commandMutex = d
  BY <1>1, ConstantTypes DEF MutexHeld
<1>4. DecisionBacked(c)' /\ PayloadTracked(c)' /\ MutexHeld(c)'
  BY <1>2, <1>3 DEF DecisionBacked, PayloadTracked, MutexHeld
<1> QED
  BY <1>2, <1>3, <1>4, LocalInv

\* The handler goes on with the request of session c, outside the readonly decision.
LEMMA ContinueInv ==
    ASSUME ServerInv, TypeOK', NEW c \in Clients,
           NEW label \in {"command", "payload", "loadUsers"},
           Continue(c, label), pc[c] \in {"authenticate", "command"},
           protocol[c] = "text" /\ unread[c] => label # "loadUsers",
           UNCHANGED <<options, acceptPc, accepted, conn, protocol, commandMutex, unread>>
    PROVE  ServerInv'
<1>1. TypeOK /\ MutexHeld(c) /\ PayloadTracked(c)
  BY DEF ServerInv
<1>2. /\ pc'[c] = label /\ UNCHANGED <<line, readonly, writable, closing>>
      /\ \A d \in Clients \ {c} : pc'[d] = pc[d]
  BY <1>1 DEF TypeOK, Continue, Goto, request
<1>3. DecisionBacked(c)' /\ MutexHeld(c)'
  BY <1>1, <1>2 DEF DecisionBacked, MutexHeld
<1>4. PayloadTracked(c)'
  BY <1>1, <1>2 DEF PayloadTracked
<1> QED
  BY <1>2, <1>3, <1>4, LocalInv

LEMMA AuthenticateInv ==
    ASSUME ServerInv, TypeOK', NEW c \in Clients, Authenticate(c)
    PROVE  ServerInv'
<1> USE DEF shared, accepting, session
<1>1. /\ pc[c] = "authenticate"
      /\ UNCHANGED <<options, acceptPc, accepted, conn, protocol, commandMutex, unread>>
  BY DEF Authenticate
<1>2. CASE Continue(c, "command")
  BY <1>1, <1>2, ContinueInv
<1>3. CASE Reply(c, FALSE) /\ (protocol[c] = "json" \/ Offers(c))
  <2>1. protocol[c] = "text" => ~unread[c]
    BY <1>1, <1>3 DEF ServerInv, PayloadTracked, Offers
  <2> QED
    BY <1>1, <1>3, <2>1, ReplyInv
<1>4. CASE Reply(c, RefusedCloses(c))
  <2>1. protocol[c] = "text" /\ unread[c] => RefusedCloses(c)
    BY <1>1 DEF ServerInv, PayloadTracked, RefusedCloses
  <2>2. RefusedCloses(c) \in BOOLEAN
    BY DEF RefusedCloses
  <2> QED
    BY <1>1, <1>4, <2>1, <2>2, ReplyInv
<1> QED
  BY <1>2, <1>3, <1>4 DEF Authenticate

LEMMA CommandInv ==
    ASSUME ServerInv, TypeOK', NEW c \in Clients,
           Answer(c) \/ RefuseUpload(c) \/ AcceptUpload(c) \/ LoadConfig(c)
    PROVE  ServerInv'
<1> USE DEF shared, accepting, session
<1>1. /\ pc[c] = "command"
      /\ UNCHANGED <<options, acceptPc, accepted, conn, protocol, commandMutex>>
  BY DEF Answer, RefuseUpload, AcceptUpload, LoadConfig
<1>2. protocol[c] = "text" /\ unread[c] => CommandOf(c) \in {"upload", "badUpload"}
  BY <1>1 DEF ServerInv, PayloadTracked, CommandOf
<1>3. CASE Answer(c)
  <2>1. CommandOf(c) \notin {"upload", "badUpload"} /\ UNCHANGED unread
    BY <1>3 DEF Answer, AdminCommands
  <2>2. Reply(c, FALSE) \/ Reply(c, TRUE)
    BY <1>3 DEF Answer
  <2> QED
    BY <1>1, <1>2, <2>1, <2>2, ReplyInv
<1>4. CASE RefuseUpload(c)
  <2>1. CASE Reply(c, TRUE) /\ UNCHANGED unread
    BY <1>1, <2>1, ReplyInv
  <2>2. ASSUME NEW complete \in BOOLEAN, Reply(c, ~complete),
               unread' = [unread EXCEPT ![c] = FALSE]
        PROVE  ServerInv'
    <3>1. ~unread'[c]
      BY <2>2 DEF ServerInv, TypeOK
    <3> QED
      BY <1>1, <2>2, <3>1, ReplyInv
  <2> QED
    BY <1>4, <2>1, <2>2 DEF RefuseUpload
<1>5. CASE AcceptUpload(c)
  BY <1>1, <1>5, ContinueInv DEF AcceptUpload
<1>6. CASE LoadConfig(c)
  <2>1. ~(protocol[c] = "text" /\ unread[c]) /\ UNCHANGED unread
    BY <1>2, <1>6 DEF LoadConfig
  <2>2. CASE Reply(c, FALSE)
    BY <1>1, <2>1, <2>2, ReplyInv
  <2>3. CASE Continue(c, "loadUsers")
    BY <1>1, <2>1, <2>3, ContinueInv
  <2> QED
    BY <1>6, <2>2, <2>3 DEF LoadConfig
<1> QED
  BY <1>3, <1>4, <1>5, <1>6

\* The path to the orchestrator: the history starts with the options of the moment,
\* the snapshot is taken later, and the decision is made on the snapshot.
LEMMA DecisionInv ==
    ASSUME ServerInv, TypeOK', NEW c \in Clients,
           ReadPayload(c) \/ Prepare(c) \/ TakeSnapshot(c) \/ Decide(c)
             \/ LockCommand(c) \/ RunCommand(c)
    PROVE  ServerInv'
<1> USE DEF shared, accepting, session
<1>1. /\ TypeOK /\ DecisionBacked(c) /\ PayloadTracked(c)
      /\ \A d \in Clients : MutexHeld(d)
  BY DEF ServerInv
<1>2. UNCHANGED <<options, acceptPc, accepted, conn, protocol>>
  BY DEF ReadPayload, Prepare, TakeSnapshot, Decide, LockCommand, RunCommand
<1>3. CASE ReadPayload(c) \/ Prepare(c)
  <2>1. /\ pc[c] \in {"payload", "command"} /\ UNCHANGED commandMutex
        /\ protocol[c] = "text" => ~unread'[c]
        /\ unread' \in {unread, [unread EXCEPT ![c] = FALSE]}
    BY <1>1, <1>3 DEF TypeOK, PayloadTracked, CommandOf, ReadPayload, Prepare
  <2>2. CASE Reply(c, FALSE)
    BY <1>2, <2>1, <2>2, ReplyInv
  <2>3. CASE Complete(c)
    <3>1. /\ pc'[c] = "prepare" /\ writable'[c] = ~options.readonly
          /\ UNCHANGED <<line, readonly, closing>>
          /\ \A d \in Clients \ {c} :
                pc'[d] = pc[d] /\ writable'[d] = writable[d] /\ unread'[d] = unread[d]
      BY <1>1, <2>1, <2>3 DEF TypeOK, Complete, Goto
    <3>2. DecisionBacked(c)' /\ PayloadTracked(c)' /\ MutexHeld(c)'
      BY <1>1, <1>2, <2>1, <3>1 DEF DecisionBacked, PayloadTracked, MutexHeld
    <3> QED
      BY <1>2, <2>1, <3>1, <3>2, LocalInv
  <2> QED
    BY <1>3, <2>2, <2>3 DEF ReadPayload, Prepare
<1>4. CASE TakeSnapshot(c)
  <2>1. /\ pc[c] = "prepare" /\ pc'[c] = "decide" /\ readonly'[c] = options.readonly
        /\ UNCHANGED <<line, closing, writable, unread, commandMutex>>
        /\ \A d \in Clients \ {c} : pc'[d] = pc[d] /\ readonly'[d] = readonly[d]
    BY <1>1, <1>4 DEF TypeOK, TakeSnapshot, Goto
  <2>2. DecisionBacked(c)' /\ PayloadTracked(c)' /\ MutexHeld(c)'
    BY <1>1, <1>2, <2>1 DEF DecisionBacked, PayloadTracked, MutexHeld
  <2> QED
    BY <1>2, <2>1, <2>2, LocalInv
<1>5. CASE Decide(c)
  <2>1. /\ pc[c] = "decide" /\ UNCHANGED <<unread, commandMutex>>
        /\ protocol[c] = "text" => ~unread[c]
    BY <1>1, <1>5 DEF PayloadTracked, Decide
  <2>2. CASE Reply(c, FALSE)
    BY <1>2, <2>1, <2>2, ReplyInv
  <2>3. CASE /\ Continue(c, "lock")
             /\ ~(readonly[c] /\ ~AllowedReadonly(CommandOf(c)))
    <3>1. /\ pc'[c] = "lock" /\ UNCHANGED <<line, readonly, closing, writable>>
          /\ \A d \in Clients \ {c} : pc'[d] = pc[d]
      BY <1>1, <2>1, <2>3 DEF TypeOK, Continue, request, Goto
    <3>2. CommandOf(c)' = CommandOf(c)
      BY <1>2, <3>1 DEF CommandOf
    <3>3. CommandOf(c) \in Mutating => ~readonly[c]
      BY <2>3 DEF AllowedReadonly, Mutating
    <3>4. DecisionBacked(c)' /\ PayloadTracked(c)' /\ MutexHeld(c)'
      BY <1>1, <1>2, <2>1, <3>1, <3>2, <3>3
      DEF DecisionBacked, PayloadTracked, MutexHeld
    <3> QED
      BY <1>2, <2>1, <3>1, <3>4, LocalInv
  <2> QED
    BY <1>5, <2>2, <2>3 DEF Decide
<1>6. CASE LockCommand(c)
  <2>1. /\ pc[c] = "lock" /\ pc'[c] = "run"
        /\ commandMutex = NoClient /\ commandMutex' = c
        /\ UNCHANGED <<line, readonly, closing, writable, unread>>
        /\ \A d \in Clients \ {c} : pc'[d] = pc[d]
    BY <1>1, <1>6 DEF TypeOK, LockCommand, Goto, request
  <2>2. CommandOf(c)' = CommandOf(c)
    BY <1>2, <2>1 DEF CommandOf
  <2>3. DecisionBacked(c)' /\ PayloadTracked(c)' /\ MutexHeld(c)'
    BY <1>1, <1>2, <2>1, <2>2 DEF DecisionBacked, PayloadTracked, MutexHeld
  <2> QED
    BY <1>2, <2>1, <2>3, LocalInv, ConstantTypes
<1>7. CASE RunCommand(c)
  <2>1. protocol[c] = "text" => ~unread[c]
    BY <1>1, <1>7 DEF PayloadTracked, RunCommand
  <2> QED
    BY <1>2, <1>7, <2>1, ReplyInv DEF RunCommand
<1> QED
  BY <1>3, <1>4, <1>5, <1>6, <1>7

\* A reload changes the options under the other sessions: a request on its way to
\* the orchestrator keeps a history that covers its snapshot.
LEMMA ReloadInv ==
    ASSUME ServerInv, TypeOK', NEW c \in Clients, LoadUsers(c) \/ StoreReload(c)
    PROVE  ServerInv'
<1> USE DEF shared, accepting, session
<1>1. /\ TypeOK /\ AcceptInv
      /\ \A d \in Clients : DecisionBacked(d) /\ PayloadTracked(d) /\ MutexHeld(d)
  BY DEF ServerInv
<1>2. CASE LoadUsers(c)
  <2>1. /\ pc[c] = "loadUsers" /\ pc'[c] = "store"
        /\ UNCHANGED <<options, acceptPc, accepted, conn, protocol, line, readonly,
                       closing, writable, unread, commandMutex>>
        /\ \A d \in Clients \ {c} : pc'[d] = pc[d]
    BY <1>1, <1>2 DEF TypeOK, LoadUsers, Goto, request
  <2>2. DecisionBacked(c)' /\ PayloadTracked(c)' /\ MutexHeld(c)'
    BY <1>1, <2>1 DEF DecisionBacked, PayloadTracked, MutexHeld
  <2> QED
    BY <2>1, <2>2, LocalInv
<1>3. CASE StoreReload(c)
  <2>1. /\ pc[c] = "store" /\ pc'[c] = "reply"
        /\ UNCHANGED <<acceptPc, accepted, conn, protocol, readonly, unread, commandMutex>>
        /\ \A d \in Clients \ {c} :
              pc'[d] = pc[d] /\ line'[d] = line[d] /\ closing'[d] = closing[d]
    BY <1>1, <1>3 DEF TypeOK, StoreReload, Goto
  <2>2. AcceptInv'
    BY <1>1, <2>1 DEF AcceptInv
  <2>3. ASSUME NEW d \in Clients
        PROVE  DecisionBacked(d)' /\ PayloadTracked(d)' /\ MutexHeld(d)'
    <3>1. CASE d = c
      BY <1>1, <2>1, <3>1 DEF DecisionBacked, PayloadTracked, MutexHeld
    <3>2. CASE d # c
      <4>1. CommandOf(d)' = CommandOf(d)
        BY <2>1, <3>2 DEF CommandOf
      <4>2. /\ options' = draft[c].options
            /\ pc[d] \in {"prepare", "decide", "lock", "run"} =>
                  writable'[d] <=> writable[d] \/ ~options'.readonly
        BY <1>3 DEF StoreReload
      <4>3. DecisionBacked(d)'
        BY <1>1, <2>1, <3>2, <4>1, <4>2 DEF DecisionBacked
      <4>4. PayloadTracked(d)' /\ MutexHeld(d)'
        BY <1>1, <2>1, <3>2 DEF PayloadTracked, MutexHeld
      <4> QED
        BY <4>3, <4>4
    <3> QED
      BY <3>1, <3>2
  <2> QED
    BY <2>2, <2>3 DEF ServerInv
<1> QED
  BY <1>2, <1>3

LEMMA EndInv ==
    ASSUME ServerInv, TypeOK', NEW c \in Clients,
           ReplySent(c) \/ ReplyFails(c) \/ StopServer(c) \/ CloseSession(c)
    PROVE  ServerInv'
<1> USE DEF shared, accepting, session, request, Goto
<1>1. TypeOK /\ PayloadTracked(c) /\ MutexHeld(c)
  BY DEF ServerInv
<1>2. /\ pc[c] \in {"reply", "stop", "close"}
      /\ pc'[c] \in {"read", "stop", "close", "none"}
      /\ conn'[c] \in {conn[c], "off"}
      /\ UNCHANGED <<options, acceptPc, accepted, line, readonly, writable, commandMutex>>
      /\ \A d \in Clients \ {c} :
            /\ conn'[d] = conn[d] /\ pc'[d] = pc[d] /\ protocol'[d] = protocol[d]
            /\ closing'[d] = closing[d] /\ unread'[d] = unread[d]
  BY <1>1 DEF TypeOK, ReplySent, ReplyFails, StopServer, CloseSession
<1>3. DecisionBacked(c)' /\ MutexHeld(c)'
  BY <1>1, <1>2 DEF DecisionBacked, MutexHeld
<1>4. PayloadTracked(c)'
  BY <1>1, <1>2
  DEF PayloadTracked, TypeOK, ReplySent, ReplyFails, StopServer, CloseSession
<1> QED
  BY <1>2, <1>3, <1>4, LocalInv

LEMMA NextInv == ServerInv /\ [Next]_vars => ServerInv'
<1> SUFFICES ASSUME ServerInv, [Next]_vars PROVE ServerInv'
  OBVIOUS
<1>1. TypeOK'
  BY NextType DEF ServerInv
<1>2. CASE EditConfig \/ EditUsers \/ Signal \/ Finished \/ UNCHANGED vars
  BY <1>1, <1>2, EnvironmentInv
<1>3. CASE AcceptStep
  BY <1>1, <1>3, AcceptStepInv
<1>4. ASSUME NEW c \in Clients, Connect(c) \/ ClientStep(c) \/ SessionStep(c)
      PROVE  ServerInv'
  BY <1>1, <1>4, EnvironmentInv, ReadInv, AuthenticateInv, CommandInv, DecisionInv,
     ReloadInv, EndInv
  DEF ClientStep, SessionStep
<1> QED
  BY <1>2, <1>3, <1>4 DEF Next

-----------------------------------------------------------------------------
(* The theorems.                                                           *)

\* The inductive invariant holds whatever clients send, however the administrator
\* edits and reloads, and wherever the threads are.
THEOREM ServerInvariant == Spec => []ServerInv
<1>1. Init => ServerInv
  BY InitInv
<1>2. ServerInv /\ [Next]_vars => ServerInv'
  BY NextInv
<1> QED
  BY <1>1, <1>2, PTL DEF Spec

\* Every variable of the server keeps its type.
THEOREM TypeCorrect == Spec => []TypeOK
<1>1. ServerInv => TypeOK
  BY DEF ServerInv
<1> QED
  BY <1>1, ServerInvariant, PTL

\* No command that changes something runs on a server that was readonly all the time
\* since the request was complete (the readonly tests of execute_command on a snapshot).
THEOREM MutationsArePermitted == Spec => []MutationsPermitted
<1>1. ServerInv => MutationsPermitted
  BY DEF ServerInv, DecisionBacked, MutationsPermitted
<1> QED
  BY <1>1, ServerInvariant, PTL

\* The payload of a text upload is never taken for a command line.
THEOREM PayloadsAreRead == Spec => []PayloadNeverCommand
<1>1. ServerInv => PayloadNeverCommand
  BY DEF ServerInv, PayloadTracked, PayloadNeverCommand
<1> QED
  BY <1>1, ServerInvariant, PTL

\* commandMutex serialises the commands: no two sessions are in Orchestrator::run.
THEOREM CommandsSerialised ==
    Spec => [](\A c, d \in Clients : pc[c] = "run" /\ pc[d] = "run" => c = d)
<1>1. ServerInv => \A c, d \in Clients : pc[c] = "run" /\ pc[d] = "run" => c = d
  BY DEF ServerInv, MutexHeld
<1> QED
  BY <1>1, ServerInvariant, PTL
=============================================================================
