------------------------------ MODULE FtpLogin ------------------------------
(***************************************************************************)
(* Mounting an FTP server (do_mount of gvfsbackendftp.c) and opening       *)
(* further connections to it later (g_vfs_ftp_task_acquire_connection):    *)
(* connect, TLS, FEAT before or after the login, the keyring and the       *)
(* password dialog.  Each command with its reply is one action.  The       *)
(* certificates are ones that fail verification, for which the callbacks   *)
(* are called.                                                             *)
(***************************************************************************)
EXTENDS Integers, Sequences

CONSTANTS MaxPrompts,  \* bound: how often the user answers the dialog
          MaxDrops     \* bound: connections the server drops or refuses

\* The account of the server; every other user name or password is refused.
Bob == [user |-> "bob", password |-> "secret"]
Anonymous == [user |-> "anonymous", password |-> ""]
NoAccount == [user |-> "none", password |-> ""]
Answers == {Bob, [Bob EXCEPT !.password = "wrong"], Anonymous}

VARIABLES
    server,     \* how the server behaves: [anonymous, featAfterLogin, closesOnFeat]
    tlsMode,    \* ftp->tls_mode
    initialUser,\* ftp->has_initial_user
    account,    \* ftp->user and ftp->password
    keyring,    \* the password the keyring knows
    saved,      \* what was written to the keyring
    pc,         \* where do_mount is
    conn,       \* the control connection: [open, tls, auth, cert]
    workaround, \* G_VFS_FTP_WORKAROUND_FEAT_AFTER_LOGIN
    features,   \* "unknown", "server", "default" or "none"
    prompted,   \* prompt /= NULL
    accepted,   \* ftp->certificate: what the user accepted at mount time
    present,    \* the certificate the server presents now
    exposed,    \* a password went over a connection without TLS or with a foreign certificate
    prompts, drops

vars == <<server, tlsMode, initialUser, account, keyring, saved, pc, conn, workaround,
          features, prompted, accepted, present, exposed, prompts, drops>>

Closed == [open |-> FALSE, tls |-> FALSE, auth |-> NoAccount, cert |-> "none"]

\* try_mount has set up the backend from the mount spec.
Init == /\ server \in [anonymous : BOOLEAN, featAfterLogin : BOOLEAN, closesOnFeat : BOOLEAN]
        /\ tlsMode \in {"none", "explicit", "implicit"}
        /\ account \in {NoAccount, [Bob EXCEPT !.password = ""], Anonymous}
        /\ initialUser = (account /= NoAccount)
        /\ keyring \in {NoAccount, Bob, [Bob EXCEPT !.password = "wrong"]}
        /\ saved = NoAccount /\ pc = "connect" /\ conn = Closed /\ workaround = FALSE
        /\ features = "unknown" /\ prompted = FALSE /\ accepted = "none" /\ present = "cert1"
        /\ exposed = FALSE /\ prompts = 0 /\ drops = 0

Static == UNCHANGED <<server, tlsMode, initialUser, keyring, present>>
Login == UNCHANGED <<account, saved, prompted, prompts, exposed>>

\* The server drops the connection, or refuses it: the command fails.
Drop(next) == /\ drops < MaxDrops /\ drops' = drops + 1
              /\ conn' = Closed /\ pc' = next
-----------------------------------------------------------------------------
\* g_vfs_ftp_connection_new; failing fast before any password is asked for.
Connect ==
    /\ pc = "connect"
    /\ \/ conn' = [Closed EXCEPT !.open = TRUE] /\ pc' = "handshake" /\ UNCHANGED drops
       \/ Drop("failed")
    /\ UNCHANGED <<workaround, features, accepted>> /\ Static /\ Login

\* g_vfs_ftp_task_initial_handshake: the greeting, AUTH TLS, the handshake, PBSZ
\* and PROT; initial_certificate_cb stores the certificate and asks the user.
Handshake ==
    /\ pc = "handshake"
    /\ \/ /\ conn' = [conn EXCEPT !.tls = tlsMode /= "none", !.cert = IF tlsMode = "none" THEN "none" ELSE present]
          /\ accepted' = IF tlsMode = "none" THEN accepted ELSE present
          /\ pc' = IF workaround THEN "keyring" ELSE "feat"
          /\ UNCHANGED drops
       \/ tlsMode /= "none" /\ pc' = "failed" /\ conn' = Closed /\ accepted' = present /\ UNCHANGED drops
       \/ Drop("failed") /\ UNCHANGED accepted
    /\ UNCHANGED <<workaround, features>> /\ Static /\ Login

\* gvfs_backend_ftp_determine_features before the login: a server that refuses
\* is asked again after it; one that closes the connection is connected anew.
Feat ==
    /\ pc = "feat"
    /\ \/ /\ ~server.featAfterLogin /\ features' = "server" /\ pc' = "keyring"
          /\ UNCHANGED <<workaround, conn, drops>>
       \/ /\ server.featAfterLogin /\ workaround' = TRUE /\ features' = "none"
          /\ IF server.closesOnFeat THEN conn' = Closed /\ pc' = "connect"
                                    ELSE conn' = conn /\ pc' = "keyring"
          /\ UNCHANGED drops
       \/ Drop("connect") /\ workaround' = TRUE /\ features' = "none"
    /\ UNCHANGED accepted /\ Static /\ Login

\* The anonymous user of the mount spec and a password from the keyring are
\* tried without asking.
Keyring ==
    /\ pc = "keyring"
    /\ \/ account = Anonymous /\ pc' = "login" /\ UNCHANGED account
       \/ /\ account /= Anonymous /\ keyring /= NoAccount
          /\ initialUser => keyring.user = account.user
          /\ account' = keyring /\ pc' = "login"
       \/ /\ account /= Anonymous
          /\ keyring = NoAccount \/ (initialUser /\ keyring.user /= account.user)
          /\ pc' = "ask" /\ UNCHANGED account
    /\ UNCHANGED <<conn, workaround, features, accepted, saved, prompted, prompts, exposed, drops>>
    /\ Static

\* g_mount_source_ask_password; the user name is the one of the spec if it had
\* one.  Cancelling the dialog ends the mount.
AskPassword ==
    /\ pc = "ask"
    /\ prompted' = TRUE
    /\ \/ /\ prompts < MaxPrompts /\ prompts' = prompts + 1 /\ pc' = "login"
          /\ \E a \in Answers :
              /\ initialUser => a /= Anonymous
              /\ account' = IF initialUser THEN [a EXCEPT !.user = account.user] ELSE a
       \/ pc' = "failed" /\ UNCHANGED <<prompts, account>>
    /\ UNCHANGED <<conn, workaround, features, accepted, saved, exposed, drops>> /\ Static

Accepts(a) == a = Bob \/ (a = Anonymous /\ server.anonymous)

\* g_vfs_ftp_task_login: USER and PASS.  Only a refused password is asked for
\* again, and never that of a user who was anonymous from the start.
TryLogin ==
    /\ pc = "login"
    /\ exposed' = (exposed \/ (account /= Anonymous /\ tlsMode /= "none" /\ ~conn.tls))
    /\ \/ /\ Accepts(account) /\ conn' = [conn EXCEPT !.auth = account] /\ pc' = "postlogin"
          /\ UNCHANGED <<account, drops>>
       \/ /\ ~Accepts(account) /\ UNCHANGED <<conn, drops>>
          /\ pc' = IF account = Anonymous /\ initialUser THEN "failed" ELSE "ask"
          /\ account' = IF account = Anonymous /\ ~initialUser THEN NoAccount ELSE account
       \/ Drop("failed") /\ UNCHANGED account
    /\ UNCHANGED <<workaround, features, accepted, saved, prompted, prompts>> /\ Static

\* FEAT when it was put off; TYPE I, without which the mount fails.
PostLogin ==
    /\ pc = "postlogin"
    /\ \/ features' = (IF workaround THEN "server" ELSE features) /\ pc' = "probe" /\ UNCHANGED <<conn, drops>>
       \/ workaround /\ features' = "default" /\ pc' = "probe" /\ UNCHANGED <<conn, drops>>
       \/ Drop("failed") /\ UNCHANGED features
    /\ UNCHANGED <<workaround, accepted>> /\ Static /\ Login

\* SYST, SITE HELP and PWD may fail; the address of this connection is pinned.
Probe ==
    /\ pc = "probe"
    /\ pc' = "save"
    /\ UNCHANGED <<conn, workaround, features, accepted, drops>> /\ Static /\ Login

\* A password that was asked for is saved; the connection becomes the pool.
SavePassword ==
    /\ pc = "save"
    /\ saved' = IF prompted /\ account.user /= "anonymous" THEN account ELSE saved
    /\ pc' = "mounted"
    /\ UNCHANGED <<account, prompted, prompts, exposed, conn, workaround, features, accepted, drops>>
    /\ Static

\* A further connection: reconnect_certificate_cb allows only the certificate of
\* the initial connection; the login uses what do_mount stored.
Reconnect_AnyCertificate ==
    /\ pc = "mounted"
    /\ \/ /\ conn' = [open |-> TRUE, tls |-> tlsMode /= "none", auth |-> IF Accepts(account) THEN account ELSE NoAccount,
                      cert |-> IF tlsMode = "none" THEN "none" ELSE present]
          /\ exposed' = (exposed \/ (account /= Anonymous /\ tlsMode /= "none" /\ present /= accepted))
          /\ UNCHANGED <<pc, drops>>
       \/ Drop("mounted") /\ UNCHANGED exposed
    /\ UNCHANGED <<account, prompted, prompts, saved, workaround, features, accepted>> /\ Static

Reconnect ==
    /\ pc = "mounted"
    /\ \/ /\ tlsMode = "none" \/ present = accepted
          /\ conn' = [open |-> TRUE, tls |-> tlsMode /= "none", auth |-> IF Accepts(account) THEN account ELSE NoAccount,
                      cert |-> IF tlsMode = "none" THEN "none" ELSE present]
          /\ UNCHANGED <<pc, drops>>
       \/ /\ tlsMode /= "none" /\ present /= accepted
          /\ conn' = Closed /\ UNCHANGED <<pc, drops>>
       \/ Drop("mounted")
    /\ UNCHANGED <<account, exposed, prompted, prompts, saved, workaround, features, accepted>> /\ Static

\* Somebody else answers under the server's address.
CertificateChanges ==
    /\ present = "cert1" /\ present' = "cert2"
    /\ UNCHANGED <<server, tlsMode, initialUser, account, keyring, saved, pc, conn, workaround,
                   features, prompted, accepted, exposed, prompts, drops>>

Step == \/ Connect \/ Handshake \/ Feat \/ Keyring \/ AskPassword \/ TryLogin
        \/ PostLogin \/ Probe \/ SavePassword

Next == Step \/ Reconnect \/ CertificateChanges

\* The user answers or cancels the dialog, the server answers or the connection
\* breaks.
Spec == Init /\ [][Next]_vars /\ WF_vars(Step)
-----------------------------------------------------------------------------
TypeOK == /\ pc \in {"connect", "handshake", "feat", "keyring", "ask", "login", "postlogin",
                     "probe", "save", "mounted", "failed"}
          /\ features \in {"unknown", "server", "default", "none"}
          /\ conn.open \in BOOLEAN /\ conn.tls \in BOOLEAN
          /\ pc \in {"keyring", "login", "postlogin"} => conn.open

\* With ftps and ftpis no user name or password is sent before the connection is
\* encrypted, nor later to a server with another certificate than the one that
\* was accepted at mount time.
NeverExposed == ~exposed

\* A mounted server has features: its own, or the default set; the empty set
\* that the workaround leaves behind is never used.
FeaturesKnown == pc = "mounted" => features \in {"server", "default"}

\* Only a password that the server accepted is saved, never the anonymous one.
SavedWorks == saved /= NoAccount => saved = Bob

\* The user and password kept for further connections are the ones the initial
\* connection logged in with.
PoolCanLogin == pc = "mounted" => Accepts(account)

=============================================================================
