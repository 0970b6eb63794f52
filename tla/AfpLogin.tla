------------------------------ MODULE AfpLogin ------------------------------
(***************************************************************************)
(* Mounting an AFP volume: the login of daemon/gvfsafpserver.c, which asks *)
(* for a password until the server takes it, and the mount and unmount of  *)
(* daemon/gvfsbackendafp.c around it.  The mount job runs in a thread and  *)
(* every command is sent synchronously, so that its steps alternate with   *)
(* the server's replies, the user's answers and failures.                  *)
(***************************************************************************)
EXTENDS Naturals, FiniteSets

CONSTANTS Uams,        \* the sets of authentication methods servers may offer
          Rings,       \* what the keyring may hold at first
          MaxAsks,     \* bound: password prompts the user answers before cancelling
          MaxFaults    \* bound: replies that are lost, malformed or refusals

Users == {"anonymous", "u", "v"}
None == "none"
Passwords == {"p", "mid", "long", "wrong"}   \* "mid": more than 64 characters, "long": more than 256
AfpLoginAssumption == /\ Uams \subseteq SUBSET {"dhx2", "dhx", "nouser"} /\ MaxAsks \in Nat /\ MaxFaults \in Nat
                      /\ Rings \subseteq [user : Users \cup {None}, pw : Passwords \cup {None}]

VARIABLES
    account,   \* the server: the password of its user "u" (no other is known)
    uams,      \* the methods it offers
    version,   \* it speaks AFP 3.0 or later
    initial,   \* the user named in the mount spec
    pc,        \* what the mount job does next
    conns,     \* connections that are open at the server, by what they proved
    conn,      \* priv->conn: it is open, with a nonce of the server that was checked
    user, pw, anon, olduser,      \* the credentials being tried
    prompted,  \* a prompt was made (prompt # NULL)
    save,      \* the user asked to save the password
    keyring,   \* what the keyring holds for the server
    err,       \* the error of the last try
    answer,    \* how the mount job was answered
    asks, faults,
    sent,      \* ghost: the passwords sent, with the state of the connection
    tried      \* ghost: the credentials given to the server, in tries that ended
vars == <<account, uams, version, initial, pc, conns, conn, user, pw, anon, olduser, prompted, save, keyring, err, answer, asks, faults, sent, tried>>
server == <<account, uams, version, initial>>
creds == <<user, pw, anon>>
ghosts == <<sent, tried>>

NoConn == [open |-> FALSE, proven |-> FALSE, as |-> None]
Init == /\ account \in {"p", "mid"} /\ uams \in Uams /\ version \in BOOLEAN /\ initial \in Users \cup {None}
        /\ keyring \in Rings
        /\ pc = "info" /\ conns = 0 /\ conn = NoConn /\ user = None /\ pw = None /\ anon = FALSE /\ olduser = initial
        /\ prompted = FALSE /\ save = FALSE /\ err = None /\ answer = None /\ asks = 0 /\ faults = 0 /\ sent = {} /\ tried = {}

-----------------------------------------------------------------------------
\* g_vfs_job_failed_from_error
Failed(e) == pc' = "failed" /\ answer' = e
Go(p) == pc' = p /\ UNCHANGED answer
\* What may be wrong with a reply: there is none, it cannot be read, or the
\* server refuses with some other code.  All of them are errors that are not
\* PERMISSION_DENIED.
Fault == faults < MaxFaults /\ faults' = faults + 1
Sound == UNCHANGED faults

\* get_server_info: over a connection of its own; the newest version and the
\* list of methods are taken
GetServerInfo ==
    /\ pc = "info"
    /\ \/ Fault /\ Failed("failed")
       \/ Sound /\ ~version /\ Failed("failed")
       \/ Sound /\ version /\ Go("keyring")
    /\ UNCHANGED <<server, conns, conn, creds, olduser, prompted, save, keyring, err, asks, ghosts>>

\* g_vfs_afp_server_login up to the loop: "anonymous" needs no password; then
\* a password of the keyring; an item without user or password is not used
Lookup == IF keyring.pw # None /\ (initial = None \/ keyring.user = initial) THEN keyring ELSE [user |-> None, pw |-> None]
FirstTry ==
    /\ pc = "keyring"
    /\ IF initial = "anonymous" /\ "nouser" \in uams
       THEN Go("open") /\ anon' = TRUE /\ UNCHANGED <<user, pw>>
       ELSE /\ user' = Lookup.user /\ pw' = Lookup.pw /\ UNCHANGED anon
            /\ IF Lookup.user # None /\ Lookup.pw # None THEN Go("open") ELSE Go("ask")
    /\ UNCHANGED <<server, conns, conn, olduser, prompted, save, keyring, err, asks, faults, ghosts>>

\* The loop: g_mount_source_ask_password.  A user is asked for, and anonymous
\* login offered, only when the mount spec names no user; without an answer
\* the mount is over.
Ask ==
    /\ pc = "ask" /\ prompted' = TRUE /\ err' = None
    /\ \/ /\ asks < MaxAsks /\ asks' = asks + 1 /\ Go("open")
          /\ \E p \in Passwords, u \in IF initial = None THEN {"u", "v"} ELSE {None}, a \in BOOLEAN, s \in BOOLEAN :
                /\ a => (initial = None /\ "nouser" \in uams)
                /\ user' = (IF u = None THEN olduser ELSE u) /\ pw' = p /\ anon' = a /\ save' = s
       \/ Failed("handled") /\ user' = None /\ pw' = None /\ UNCHANGED <<asks, save, anon>>
    /\ UNCHANGED <<server, conns, conn, olduser, keyring, faults, ghosts>>

\* try_login: every try has a connection of its own
OpenConnection ==
    /\ pc = "open"
    /\ \/ Fault /\ Failed("failed") /\ UNCHANGED <<conn, conns>>
       \/ Sound /\ Go("login") /\ conn' = [NoConn EXCEPT !.open = TRUE] /\ conns' = conns + 1
    /\ UNCHANGED <<server, creds, olduser, prompted, save, keyring, err, asks, ghosts>>

\* do_login failed: the connection is closed; only PERMISSION_DENIED asks again
TryFailed_KeepsConnection(e) ==
    /\ conn' = NoConn /\ UNCHANGED conns /\ tried' = tried \cup {[user |-> user, pw |-> pw, anon |-> anon, ok |-> FALSE]}
    /\ IF e = "denied" THEN Go("ask") /\ err' = e /\ olduser' = user ELSE Failed(e) /\ err' = e /\ UNCHANGED olduser

TryFailed(e) ==
    /\ conn' = NoConn /\ conns' = conns - 1 /\ tried' = tried \cup {[user |-> user, pw |-> pw, anon |-> anon, ok |-> FALSE]}
    /\ IF e = "denied" THEN Go("ask") /\ err' = e /\ olduser' = user ELSE Failed(e) /\ err' = e /\ UNCHANGED olduser
LoggedIn(as) ==
    /\ conn' = [conn EXCEPT !.as = as] /\ tried' = tried \cup {[user |-> user, pw |-> pw, anon |-> anon, ok |-> TRUE]}
    /\ Go("parms") /\ UNCHANGED <<conns, err, olduser>>
\* The next command of the handshake
Continue(p, proven) ==
    /\ conn' = [conn EXCEPT !.proven = proven] /\ Go(p) /\ UNCHANGED <<conns, err, olduser, tried>>
SameLogin == UNCHANGED <<server, creds, prompted, save, keyring, asks>>

\* do_login: anonymously, with the better of the two methods, or not at all
AnonymousLogin ==
    /\ pc = "login" /\ anon /\ UNCHANGED sent /\ SameLogin
    /\ \/ "nouser" \notin uams /\ TryFailed("unsupported") /\ Sound
       \/ "nouser" \in uams /\ Sound /\ LoggedIn("anonymous")
       \/ "nouser" \in uams /\ Fault /\ \E e \in {"failed", "unsupported"} : TryFailed(e)
ChooseMethod ==
    /\ pc = "login" /\ ~anon /\ UNCHANGED <<sent, faults>> /\ SameLogin
    /\ IF "dhx2" \in uams THEN Continue("dhx2", FALSE)
       ELSE IF "dhx" \in uams THEN Continue("dhx", FALSE) ELSE TryFailed("failed")

\* dhx2_login, request 1: passwords of more than 256 characters are refused
\* here; the server tells whether it knows the user
TooLong2(p) == p = "long"
Dhx2First ==
    /\ pc = "dhx2" /\ UNCHANGED sent /\ SameLogin
    /\ \/ TooLong2(pw) /\ Sound /\ TryFailed("denied")
       \/ ~TooLong2(pw) /\ Sound /\ IF user = "u" THEN Continue("nonce2", FALSE) ELSE TryFailed("denied")
       \/ ~TooLong2(pw) /\ Fault /\ TryFailed("failed")
\* Request 2: the reply has to hold the client's nonce plus one
NonceRight(n) == n = "plus one"
Dhx2Second ==
    /\ pc = "nonce2" /\ UNCHANGED sent /\ SameLogin
    /\ \/ Sound /\ Continue("password2", TRUE)
       \/ Fault /\ IF NonceRight("another") THEN Continue("password2", FALSE) ELSE TryFailed("failed")
       \/ Fault /\ TryFailed("failed")
\* Request 3: the server's nonce plus one and the password
SendPassword == sent' = sent \cup {[pw |-> pw, proven |-> conn.proven, uam |-> IF pc = "password2" THEN "dhx2" ELSE "dhx"]}
Dhx2Third ==
    /\ pc = "password2" /\ SendPassword /\ SameLogin
    /\ \/ Sound /\ IF pw = account THEN LoggedIn(user) ELSE TryFailed("denied")
       \/ Fault /\ TryFailed("failed")
\* dhx_login: 64 characters at most; the server's nonce comes with its key and
\* the password goes with the second request
TooLong(p) == p \in {"mid", "long"}
DhxFirst ==
    /\ pc = "dhx" /\ UNCHANGED sent /\ SameLogin
    /\ \/ TooLong(pw) /\ Sound /\ TryFailed("denied")
       \/ ~TooLong(pw) /\ Sound /\ IF user = "u" THEN Continue("password", FALSE) ELSE TryFailed("denied")
       \/ ~TooLong(pw) /\ Fault /\ TryFailed("failed")
DhxSecond ==
    /\ pc = "password" /\ SendPassword /\ SameLogin
    /\ \/ Sound /\ IF pw = account THEN LoggedIn(user) ELSE TryFailed("denied")
       \/ Fault /\ TryFailed("failed")

\* get_server_parms: its failure is the mount's, and leaves the connection
GetServerParms ==
    /\ pc = "parms"
    /\ \/ Fault /\ Failed("failed")
       \/ Sound /\ Go("userinfo")
    /\ UNCHANGED <<server, conns, conn, creds, olduser, prompted, save, keyring, err, asks, ghosts>>
\* command_get_user_info: ids of the user first, those of the group apart from
\* them; expired passwords and refusals are PERMISSION_DENIED here
UserInfoErrors == {"failed", "denied", "unsupported"}
\* get_userinfo, then the end of g_vfs_afp_server_login: a password that was
\* asked for is saved
Saves == prompted /\ ~anon
GetUserInfo ==
    /\ pc \in {"userinfo", "groupinfo"}
    /\ \/ Fault /\ (\E e \in UserInfoErrors : Failed(e)) /\ UNCHANGED keyring
       \/ Sound /\ pc = "userinfo" /\ Go("groupinfo") /\ UNCHANGED keyring
       \/ Sound /\ pc = "groupinfo" /\ Go("volume") /\ keyring' = (IF Saves /\ save THEN [user |-> user, pw |-> pw] ELSE keyring)
    /\ UNCHANGED <<server, conns, conn, creds, olduser, prompted, save, err, asks, ghosts>>
\* g_vfs_afp_server_mount_volume_sync, g_vfs_afp_volume_mount_sync: FPOpenVol
MountVolume ==
    /\ pc = "volume"
    /\ \/ Fault /\ \E e \in {"failed", "not found"} : Failed(e)
       \/ Sound /\ pc' = "mounted" /\ answer' = "ok"
    /\ UNCHANGED <<server, conns, conn, creds, olduser, prompted, save, keyring, err, asks, ghosts>>
\* do_unmount, g_vfs_afp_server_logout_sync: the connection is closed whatever
\* the server says to the logout; a forced unmount leaves all as it is
Unmount(forced) ==
    /\ pc = "mounted" /\ pc' = "unmounted" /\ answer' = "ok"
    /\ IF forced THEN UNCHANGED <<conn, conns, faults>> ELSE conn' = NoConn /\ conns' = conns - 1 /\ (Sound \/ Fault)
    /\ UNCHANGED <<server, creds, olduser, prompted, save, keyring, err, asks, ghosts>>

Next == \/ GetServerInfo \/ FirstTry \/ Ask \/ OpenConnection \/ AnonymousLogin \/ ChooseMethod
        \/ Dhx2First \/ Dhx2Second \/ Dhx2Third \/ DhxFirst \/ DhxSecond
        \/ GetServerParms \/ GetUserInfo \/ MountVolume
        \/ \E f \in BOOLEAN : Unmount(f)
Spec == Init /\ [][Next]_vars

-----------------------------------------------------------------------------
TypeOK ==
    /\ conns \in Nat /\ conn \in [open : BOOLEAN, proven : BOOLEAN, as : Users \cup {None}]
    /\ user \in Users \cup {None} /\ pw \in Passwords \cup {None} /\ anon \in BOOLEAN /\ olduser \in Users \cup {None}
    /\ answer \in {None, "ok", "failed", "handled", "unsupported", "denied", "not found"}
    /\ keyring \in [user : Users \cup {None}, pw : Passwords \cup {None}] /\ asks <= MaxAsks /\ faults <= MaxFaults

\* However many tries a mount takes, the server sees one connection of it at a
\* time: a try that failed closed its own before the next is opened.
OneConnection == conns <= 1 /\ (conn.open <=> conns = 1)

\* A mount that succeeded works as the user it was asked for: the one of the
\* mount spec, or nobody where that is "anonymous" and the server allows it;
\* and the password, if one was needed, is that of the account.
RightUser ==
    pc \in {"volume", "mounted"} =>
        /\ conn.open /\ conn.as # None
        /\ initial \notin {None, "anonymous"} => conn.as = initial
        /\ conn.as # "anonymous" => pw = account

\* A password is saved only after the server took it, for the user it was taken
\* for; no failed or anonymous login changes the keyring.
SavedWorks ==
    keyring' # keyring => /\ [user |-> keyring'.user, pw |-> keyring'.pw, anon |-> FALSE, ok |-> TRUE] \in tried

\* A password goes to the server only as long as the method can carry it and,
\* with DHX2, only over a connection whose other end has shown in its nonce
\* that it has the key.
PasswordsGuarded == \A s \in sent : /\ s.uam = "dhx2" => s.proven /\ s.pw # "long"
                                    /\ s.uam = "dhx" => s.pw \in {"p", "wrong"}

\* The user is asked again exactly when the server did not take the password:
\* a lost connection or a broken reply ends the mount instead.
AsksAgainOnlyIfDenied == pc = "ask" /\ tried # {} => err = "denied" /\ ~conn.open

=============================================================================
