--------------------------- MODULE MCRemoteServer ---------------------------
(* A small instance of the remote server.                                  *)
EXTENDS RemoteServer

\* A writable server for one session becomes a readonly one for two.
TwoConfigs == <<[readonly |-> FALSE, maxConnections |-> 1],
                [readonly |-> TRUE, maxConnections |-> 2]>>

\* A registry with an administrator is replaced by one without users.
TwoRegistries == <<[u \in {"root"} |-> TRUE], [u \in {} |-> FALSE]>>

Line(form, cmd, cred) == [form |-> form, cmd |-> cmd, cred |-> cred]

\* A login, and one line for each path through the handlers.
EveryPath ==
    {Line("text", cmd, IF cmd = "auth" THEN "root" ELSE NoCredential) :
        cmd \in {"auth", "empty", "quit", "shutdown", "reload", "export", "upload",
                 "badUpload"}}
    \cup {Line("json", "mutate", "root")}
=============================================================================
