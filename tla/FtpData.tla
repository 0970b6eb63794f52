------------------------------ MODULE FtpData ------------------------------
(***************************************************************************)
(* The data connections of the FTP backend: choosing between PASV, EPSV,   *)
(* PORT and EPRT (g_vfs_ftp_task_setup_data_connection), starting the      *)
(* transfer and accepting or encrypting the data connection.  The method   *)
(* that worked is kept in backend->method, which all tasks share.          *)
(***************************************************************************)
EXTENDS Integers, Sequences, SequencesExt, FiniteSets

CONSTANTS Task, MaxTransfers, MaxChanges

AnyMethod == "any"
Methods == {"pasv", "epsv", "port", "eprt"}
Active == {"port", "eprt"}
\* funcs_ordered of g_vfs_ftp_task_setup_data_connection_any
Ordered == <<"pasv", "epsv", "port", "eprt">>

VARIABLES family,     \* the address family of the control connection
          advertised, \* EPSV and EPRT as far as FEAT lists them
          works,      \* methods that work on the server now
          method,     \* backend->method
          task,       \* per task: pc, methods left to try, tried, method, data connection
          transfers, changes

vars == <<family, advertised, works, method, task, transfers, changes>>

Idle == [pc |-> "idle", left |-> <<>>, first |-> AnyMethod, tried |-> {}, method |-> AnyMethod, data |-> "none",
         error |-> FALSE]

Init == /\ family \in {"ipv4", "ipv6"} /\ advertised \in SUBSET {"epsv", "eprt"}
        /\ works \in {{}, {"epsv"}, {"pasv"}, {"eprt"}, {"pasv", "port"}}
        /\ family = "ipv6" => works \cap {"pasv", "port"} = {}
        /\ method = AnyMethod /\ task = [t \in Task |-> Idle] /\ transfers = 0 /\ changes = 0

\* g_vfs_ftp_task_open_data_connection_method_is_supported
IsSupported(m) == /\ m \in {"epsv", "eprt"} => m \in advertised
                  /\ m \in {"pasv", "port"} => family = "ipv4"

\* The order of ..._any: what is advertised first, then the rest.
TryOrder == SelectSeq(Ordered, IsSupported)
            \o SelectSeq(Ordered, LAMBDA m : ~IsSupported(m))

Static == UNCHANGED <<family, advertised>>
-----------------------------------------------------------------------------
\* g_vfs_ftp_task_setup_data_connection reads backend->method.
Setup(t) ==
    /\ task[t].pc = "idle" /\ transfers < MaxTransfers
    /\ transfers' = transfers + 1
    /\ task' = [task EXCEPT ![t] = [Idle EXCEPT !.pc = "try", !.first = method,
                                     !.left = IF method = AnyMethod THEN TryOrder ELSE <<method>>]]
    /\ UNCHANGED <<works, method, changes>> /\ Static

\* One of ..._pasv, _epsv, _port, _eprt works: the passive ones connect, the
\* active ones listen and tell the server where.  The method is remembered.
MethodWorks(t) ==
    LET m == Head(task[t].left) IN
    /\ task[t].pc = "try" /\ task[t].left /= <<>> /\ m \in works
    /\ task' = [task EXCEPT ![t].pc = "transfer", ![t].method = m, ![t].tried = @ \cup {m},
                            ![t].data = IF m \in Active THEN "none" ELSE "open"]
    /\ method' = m
    /\ UNCHANGED <<works, transfers, changes>> /\ Static

\* It does not.  Within ..._any the error is cleared and the next one is tried;
\* a remembered method gives way to ..._any only when it failed without an
\* error.  Only EPSV does: on a 5xx reply, or one that names no port, but not on
\* another reply nor when the server's port cannot be connected to.
MethodFails(t) == \E refused \in BOOLEAN :
    LET m == Head(task[t].left)
        single == task[t].first /= AnyMethod /\ task[t].tried = {}
        fallback == single /\ refused
    IN
    /\ task[t].pc = "try" /\ task[t].left /= <<>> /\ m \notin works
    /\ refused => m = "epsv"
    /\ task' = [task EXCEPT ![t].tried = @ \cup {m},
                            ![t].left = IF fallback THEN TryOrder ELSE Tail(@),
                            ![t].pc = IF single /\ ~fallback THEN "answer" ELSE @,
                            ![t].error = single /\ ~fallback]
    \* result is G_VFS_FTP_METHOD_ANY and differs from the remembered method
    /\ method' = IF single /\ ~fallback THEN AnyMethod ELSE method
    /\ UNCHANGED <<works, transfers, changes>> /\ Static

\* ..._any gives up without an error; the transfer command will be refused.
GivesUp(t) ==
    /\ task[t].pc = "try" /\ task[t].left = <<>>
    /\ method' = AnyMethod
    /\ task' = [task EXCEPT ![t].pc = "transfer", ![t].method = AnyMethod]
    /\ UNCHANGED <<works, transfers, changes>> /\ Static

\* RETR, STOR or LIST: 150, or 425 when there is no data connection.
Transfer(t) ==
    /\ task[t].pc = "transfer"
    /\ task' = [task EXCEPT ![t].pc = IF task[t].method = AnyMethod THEN "answer" ELSE "open",
                            ![t].error = task[t].method = AnyMethod]
    /\ UNCHANGED <<works, method, transfers, changes>> /\ Static

\* g_vfs_ftp_task_open_data_connection: an active method accepts the server's
\* connection (which may not come within 30 seconds), then TLS is started.
OpenDataConnection(t) ==
    /\ task[t].pc = "open"
    /\ \/ task' = [task EXCEPT ![t].pc = "answer", ![t].data = "open"]
       \/ task[t].method \in Active /\ task' = [task EXCEPT ![t].pc = "answer", ![t].error = TRUE]
    /\ UNCHANGED <<works, method, transfers, changes>> /\ Static

\* The data is transferred and the task ends.
Finish(t) ==
    /\ task[t].pc = "answer"
    /\ task' = [task EXCEPT ![t] = Idle]
    /\ UNCHANGED <<works, method, transfers, changes>> /\ Static

\* A router or the server's configuration changes which methods work.
ServerChanges ==
    /\ changes < MaxChanges /\ changes' = changes + 1
    /\ works' \in {{"epsv"}, {"eprt"}} \cup (IF family = "ipv4" THEN {{"pasv"}, {"port"}} ELSE {})
    /\ UNCHANGED <<method, task, transfers>> /\ Static

Next == \/ \E t \in Task : \/ Setup(t) \/ MethodWorks(t) \/ MethodFails(t) \/ GivesUp(t)
                           \/ Transfer(t) \/ OpenDataConnection(t) \/ Finish(t)
        \/ ServerChanges

Spec == Init /\ [][Next]_vars
-----------------------------------------------------------------------------
TypeOK == /\ method \in Methods \cup {AnyMethod} /\ works \subseteq Methods
          /\ \A t \in Task : /\ Range(task[t].left) \subseteq Methods
                             /\ task[t].tried \subseteq Methods
                             /\ task[t].data \in {"none", "open"}

\* A transfer that succeeds has a data connection, of the method it chose.
TransferHasData == \A t \in Task : task[t].pc = "answer" /\ ~task[t].error => task[t].data = "open"

\* A task that finds no method has tried every one, each while it did not work,
\* or only the one remembered (which may fail with an error; gvfsftptask.c:1129).
AnyTriesAll ==
    \A t \in Task : task[t].pc = "answer" /\ task[t].error /\ task[t].method = AnyMethod =>
        \/ task[t].tried = Methods
        \/ task[t].first /= AnyMethod /\ task[t].tried = {task[t].first}

=============================================================================
