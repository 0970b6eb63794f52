------------------------------ MODULE SftpLogin ------------------------------
(***************************************************************************)
(* Mounting an SFTP location (do_mount, setup_connection and handle_login  *)
(* of daemon/gvfsbackendsftp.c): ssh is started for the command connection *)
(* and then for the data connection, and handle_login talks to its         *)
(* terminal: passwords from a previous attempt, from the keyring or from   *)
(* the user, verification codes and host key questions.  A user name that  *)
(* turns out to be another one restarts the whole of do_mount.             *)
(***************************************************************************)
EXTENDS Naturals, Sequences, FiniteSets

CONSTANTS
  Users, Passwords,
  LocalUser,      \* the account ssh uses when no user is given
  Password,       \* Password[u]: what the server accepts for u
  Tries,          \* passwords ssh takes before it exits
  MaxOther,       \* bound: prompts that are not for a password
  None

LoginAssumption ==
  /\ LocalUser \in Users /\ Password \in [Users -> Passwords]
  /\ Tries \in Nat \ {0} /\ None \notin Users \cup Passwords

VARIABLES
  user,            \* GVfsBackendSftp.user, None when it is not known
  userSpecified,   \* GVfsBackendSftp.user_specified
  tmpPassword,     \* GVfsBackendSftp.tmp_password
  keyring,         \* the passwords of the keyring, by user
  conn,            \* which connection is being set up
  login,           \* the variables of handle_login
  ssh,             \* the ssh process it talks to
  loggedIn,        \* the account each connection that works is logged in as
  answers,         \* the replies to the mount job
  past             \* whose password was given last, where passwords went, what was saved

vars == <<user, userSpecified, tmpPassword, keyring, conn, login, ssh, loggedIn, answers, past>>

Optional(S) == S \cup {None}

NewLogin == [attempts |-> 0, inKeyring |-> FALSE, password |-> None, save |-> FALSE, other |-> 0]
NewSsh(u) == [account |-> IF u = None THEN LocalUser ELSE u, tries |-> 0, state |-> "asking"]

TypeOK ==
  /\ user \in Optional(Users) /\ userSpecified \in BOOLEAN
  /\ tmpPassword \in Optional(Passwords)
  /\ keyring \in [Users -> Optional(Passwords)]
  /\ conn \in {"command", "data", "done"}
  /\ login \in [attempts : 0 .. Tries, inKeyring : BOOLEAN, password : Optional(Passwords),
                save : BOOLEAN, other : 0 .. MaxOther]
  /\ ssh \in [account : Users, tries : 0 .. Tries, state : {"asking", "in", "exited"}]
  /\ loggedIn \in [{"command", "data"} -> Optional(Users)]
  /\ answers \in Seq({"ok", "error"})
  /\ past.owner \in Optional(Users) /\ past.sent \subseteq Users \X Optional(Users)
  /\ past.saved \subseteq Users \X Passwords

(* try_mount took the user from the mount spec, if there is one. *)
Init ==
  /\ user \in Optional(Users) /\ userSpecified = (user # None)
  /\ tmpPassword = None
  /\ keyring \in [Users -> Optional(Passwords)]
  /\ conn = "command" /\ login = NewLogin /\ ssh = NewSsh(user)
  /\ loggedIn = [c \in {"command", "data"} |-> None]
  /\ answers = <<>>
  /\ past = [owner |-> None, sent |-> {}, saved |-> {}]

Initial == conn = "command"

-----------------------------------------------------------------------------
Answer(a) == answers' = Append(answers, a)

(* A connection could not be set up: without the command connection the    *)
(* mount fails, without the data connection it goes on.                    *)
SetupFails ==
  /\ conn' = "done"
  /\ IF Initial THEN Answer("error") /\ UNCHANGED tmpPassword
     ELSE Answer("ok") /\ tmpPassword' = None
  /\ UNCHANGED <<loggedIn, ssh>>

(* A new user name: on the command connection do_mount starts again with   *)
(* the password that came with it, and the outer call does not answer; the *)
(* data connection is given up.  The choice to save the password stays.    *)
Respawn(l, u, p) ==
  /\ user' = u /\ userSpecified' = TRUE /\ past' = [past EXCEPT !.owner = u]
  /\ IF Initial
     THEN /\ tmpPassword' = p
          /\ login' = [NewLogin EXCEPT !.save = l.save] /\ ssh' = NewSsh(u)
          /\ UNCHANGED <<keyring, conn, loggedIn, answers>>
     ELSE /\ conn' = "done" /\ Answer("ok") /\ tmpPassword' = None
          /\ UNCHANGED <<keyring, loggedIn, ssh, login>>

(* The password, which was given or stored for w, is written to the        *)
(* terminal and ssh tries it.                                              *)
SendPassword(l, p, w) ==
  /\ login' = [l EXCEPT !.password = p]
  /\ ssh' = IF Password[ssh.account] = p THEN [ssh EXCEPT !.state = "in"]
            ELSE [ssh EXCEPT !.tries = @ + 1,
                             !.state = IF ssh.tries + 1 = Tries THEN "exited" ELSE "asking"]
  /\ past' = [past EXCEPT !.owner = w, !.sent = @ \cup {<<ssh.account, w>>}]
  /\ UNCHANGED <<user, userSpecified, keyring, conn, loggedIn, answers>>

(* A password with the user name it belongs to, if one came with it. *)
Got(l, u, p) ==
  IF u # None /\ u # user THEN Respawn(l, u, p)
  ELSE SendPassword(l, p, user) /\ UNCHANGED tmpPassword

(* What the keyring has for the user, or for anybody when none is known. *)
Stored == {u \in Users : keyring[u] # None /\ (user = None \/ u = user)}

(* The dialog: it asks for a user name too when none was specified. *)
AskUser(l) ==
  \/ /\ SetupFails /\ login' = l /\ UNCHANGED <<user, userSpecified, keyring, past>>  \* cancelled
  \/ \E p \in Passwords, s \in BOOLEAN, u \in Optional(Users) :
       /\ (u = None) = userSpecified
       /\ Got([l EXCEPT !.save = s], u, p)

(* ssh asks for a password: the one of a previous attempt is used up       *)
(* first, then the keyring, unless it has already failed, then the user.   *)
(* The data connection gets one attempt.                                   *)
PasswordPrompt ==
  LET l == [login EXCEPT !.attempts = @ + 1]
  IN /\ conn # "done" /\ ssh.state = "asking"
     /\ IF ~Initial /\ l.attempts > 1
        THEN SetupFails /\ login' = l /\ UNCHANGED <<user, userSpecified, keyring, past>>
        ELSE IF tmpPassword # None
        THEN /\ SendPassword(l, tmpPassword, past.owner) /\ tmpPassword' = None
        ELSE \/ /\ ~l.inKeyring
                /\ \E u \in Stored : Got([l EXCEPT !.inKeyring = TRUE], u, keyring[u])
             \/ (l.inKeyring \/ Stored = {}) /\ AskUser(l)

(* A verification code or a question about the host key: answered, or the  *)
(* dialog is cancelled, or ssh takes a "no" and exits.                     *)
OtherPrompt ==
  /\ conn # "done" /\ ssh.state = "asking" /\ login.other < MaxOther
  /\ \/ SetupFails /\ UNCHANGED login
     \/ /\ login' = [login EXCEPT !.other = @ + 1]
        /\ \E s \in {"asking", "exited"} : ssh' = [ssh EXCEPT !.state = s]
        /\ UNCHANGED <<tmpPassword, conn, loggedIn, answers>>
  /\ UNCHANGED <<user, userSpecified, keyring, past>>

(* A key of the agent is enough: ssh offers the keys before it asks for a *)
(* password.                                                               *)
NoPassword ==
  /\ conn # "done" /\ ssh.state = "asking" /\ login.attempts = 0
  /\ ssh' = [ssh EXCEPT !.state = "in"]
  /\ UNCHANGED <<user, userSpecified, tmpPassword, keyring, conn, login, loggedIn, answers, past>>

(* Nothing happens for SFTP_READ_TIMEOUT seconds. *)
LoginTimeout ==
  /\ conn # "done" /\ ssh.state = "asking"
  /\ SetupFails /\ UNCHANGED <<user, userSpecified, keyring, login, past>>

(* The end of handle_login and the rest of setup_connection: poll reports  *)
(* something on the output of ssh, which is the reply to INIT or its end.  *)
(* On the command connection the password is saved and kept for the data   *)
(* connection; then the reply is read.                                     *)
Connected(ok) ==
  LET save == Initial /\ login.save /\ login.password # None
  IN /\ keyring' = IF save THEN [keyring EXCEPT ![user] = login.password] ELSE keyring
     /\ past' = IF save THEN [past EXCEPT !.saved = @ \cup {<<user, login.password>>}] ELSE past
     /\ IF ~ok THEN SetupFails /\ UNCHANGED login
        ELSE /\ loggedIn' = [loggedIn EXCEPT ![conn] = IF ssh.state = "in" THEN ssh.account ELSE None]
             /\ IF Initial
                THEN /\ conn' = "data" /\ login' = NewLogin /\ ssh' = NewSsh(user)
                     /\ tmpPassword' = login.password
                     /\ UNCHANGED answers
                ELSE /\ conn' = "done" /\ Answer("ok") /\ tmpPassword' = None
                     /\ UNCHANGED <<login, ssh>>

LoginOver ==
  /\ conn # "done" /\ ssh.state \in {"in", "exited"}
  /\ Connected(ssh.state = "in")
  /\ UNCHANGED <<user, userSpecified>>

Done == conn = "done" /\ UNCHANGED vars

Next == PasswordPrompt \/ OtherPrompt \/ NoPassword \/ LoginTimeout \/ LoginOver \/ Done

(* ssh asks, exits or answers, and handle_login waits with a timeout. *)
Spec == Init /\ [][Next]_vars /\ WF_vars(Next)

-----------------------------------------------------------------------------
(* The mount job is answered once, however often do_mount starts again. *)
AnsweredOnce == Len(answers) = IF conn = "done" THEN 1 ELSE 0

(* Both connections of a mount work for the same account, and a mount that *)
(* is reported as mounted has a command connection that logged in.         *)
OneAccount ==
  /\ answers = <<"ok">> => loggedIn["command"] # None
  /\ loggedIn["data"] # None => loggedIn["data"] = loggedIn["command"]

(* handle_login asks the data connection's password once at most, so the   *)
(* mount does not keep a user busy who has already logged in.              *)
DataLoginOnce == conn = "data" => login.attempts <= 1

(* When the mount is reported as mounted the password is not in memory any *)
(* more.                                                                   *)
PasswordDropped == answers = <<"ok">> => tmpPassword = None

(* A password goes only to the account it was typed or stored for, across  *)
(* new user names, restarts and the data connection (handle_login).        *)
PasswordToItsAccount == \A s \in past.sent : s[1] = s[2]

(* Unless the mount fails, the password it saved is the one that logs this *)
(* user in ("Login succeed, save password in keyring",                     *)
(* gvfsbackendsftp.c:1401).  A mount that fails saves the last refused     *)
(* password when ssh exits (:1084).                                        *)
SavedWorks == answers # <<"error">> => \A s \in past.saved : Password[s[1]] = s[2]

=============================================================================
