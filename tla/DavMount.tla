------------------------------ MODULE DavMount ------------------------------
(***************************************************************************)
(* Mounting a WebDAV share (daemon/gvfsbackenddav.c): the backend asks for *)
(* the options and the properties of the location it was given and, as     *)
(* long as that is a WebDAV collection, of its parent, to find the top of  *)
(* the share; certificates are accepted and credentials asked for on the   *)
(* way.  A location is its depth below the server's root.                  *)
(***************************************************************************)
EXTENDS Integers

CONSTANTS Depth,      \* the depth of the location to mount
          Kinds,      \* what a location can be, see below
          Styles,     \* how wrong credentials are refused: "401" or "403"
          Keyrings,   \* what the keyring holds: "none", "good", "stale"
          Certs,      \* the server's certificate: "valid", "bad"
          MaxAsks,    \* bound: answers the user gives before giving up
          MaxFaults   \* bound: requests that fail, certificates that change

\* A collection, a resource that is no collection, a web page without
\* WebDAV, a place nobody may enter and one that needs other credentials.
AllKinds == {"col", "file", "plain", "forbidden", "denied"}
MountAssumption ==
    /\ Depth \in Nat /\ MaxAsks \in Nat /\ MaxFaults \in Nat /\ Kinds \subseteq AllKinds
    /\ Styles \subseteq {"401", "403"} /\ Keyrings \subseteq {"none", "good", "stale"} /\ Certs \subseteq {"valid", "bad"}

VARIABLES
    server,      \* its locations, whether it needs a password, how it refuses, its certificate
    keyring,     \* the password it holds for the server
    base,        \* the depth of mount_base, while mounting and mounted
    good,        \* last_good_path, or Nowhere
    interactive, \* auth_info.interactive
    after403,    \* auth_info.retrying_after_403
    pw,          \* info->password
    save,        \* info->pw_save
    cache,       \* the credentials the session sends
    cert,        \* the certificate the user accepted
    msg,         \* the message under way: its method, whether it sent credentials
    ans,         \* what the mount was answered
    asked, askedGood, \* ghost: questions to the user, all and after a good root was found
    exposed,     \* ghost: credentials went to a certificate nobody vouched for
    faults

auth == <<keyring, interactive, after403, pw, save, cache>>
vars == <<server, auth, base, good, cert, msg, ans, asked, askedGood, exposed, faults>>

Nowhere == 0 - 1
NoMsg == [m |-> "none", tried |-> FALSE, s |-> "none"]
Msg(m) == [m |-> m, tried |-> FALSE, s |-> "none"]

\* try_mount, try_mount_send_opts: credentials are asked for interactively,
\* nothing is good yet.
Init == /\ \E at \in [0 .. Depth -> Kinds], needs \in BOOLEAN, style \in Styles, c \in Certs :
              server = [at |-> at, needs |-> needs, style |-> style, cert |-> c]
        /\ keyring \in Keyrings
        /\ base = Depth /\ good = Nowhere /\ interactive = TRUE /\ after403 = FALSE
        /\ pw = "none" /\ save = FALSE /\ cache = "none" /\ cert = "none"
        /\ msg = Msg("OPTIONS") /\ ans = "none"
        /\ asked = 0 /\ askedGood = 0 /\ exposed = FALSE /\ faults = 0

-----------------------------------------------------------------------------
(* The server and the session.                                             *)
Pending == ans = "none" /\ msg.m # "none" /\ msg.s = "none"

\* accept_certificate: one that does not verify is let through only if it is
\* the one the user accepted.
Trusted(c) == c = "valid" \/ c = cert

\* The server's certificate is replaced by another, bad one.
ChangeCert == /\ ans = "none" /\ faults < MaxFaults /\ server.cert # "other"
              /\ server' = [server EXCEPT !.cert = "other"] /\ faults' = faults + 1
              /\ UNCHANGED <<auth, base, good, cert, msg, ans, asked, askedGood, exposed>>

Kind == server.at[base]
Refuses == server.needs /\ cache # "good"
\* The answer to the message under way.
Respond ==
    /\ Pending
    /\ IF ~Trusted(server.cert) THEN msg' = [msg EXCEPT !.s = "badcert"] /\ UNCHANGED exposed
       ELSE /\ exposed' = (exposed \/ (cache # "none" /\ server.cert \notin {"valid", cert}))
            /\ IF Kind = "denied" \/ (Refuses /\ (cache = "none" \/ server.style = "401"))
               THEN msg' = [msg EXCEPT !.s = "401"]
               ELSE msg' = [msg EXCEPT !.s =
                          IF Refuses \/ Kind = "forbidden" THEN "403"
                          ELSE IF msg.m = "OPTIONS" THEN (IF Kind = "plain" THEN "nodav" ELSE "dav")
                          ELSE (IF Kind = "col" THEN "col" ELSE IF Kind = "file" THEN "file" ELSE "405")]
    /\ UNCHANGED <<server, auth, base, good, cert, ans, asked, askedGood, faults>>
\* The request fails.
Fail == /\ Pending /\ faults < MaxFaults /\ faults' = faults + 1 /\ msg' = [msg EXCEPT !.s = "failed"]
        /\ UNCHANGED <<server, auth, base, good, cert, ans, asked, askedGood, exposed>>

GiveUp == msg' = [msg EXCEPT !.s = "refused"]
Again == msg' = [msg EXCEPT !.s = "none", !.tried = TRUE]

\* soup_authenticate, not interactive: what is known, once.
AuthenticateQuietly ==
    /\ msg.s = "401" /\ ~interactive
    /\ IF ~msg.tried THEN Again /\ cache' = pw ELSE GiveUp /\ UNCHANGED cache
    /\ UNCHANGED <<server, keyring, interactive, after403, pw, save, base, good, cert, ans, asked, askedGood, exposed, faults>>

\* soup_authenticate: a password that is known or in the keyring is tried
\* before the user is asked, but not after it has been refused.
Retrying == msg.tried \/ after403

FromKeyring == IF pw = "none" THEN keyring ELSE pw

AuthenticateKnown ==
    /\ msg.s = "401" /\ interactive /\ ~Retrying
    /\ pw' = FromKeyring /\ pw' # "none"
    /\ Again /\ cache' = pw'
    /\ UNCHANGED <<server, keyring, interactive, after403, save, base, good, cert, ans, asked, askedGood, exposed, faults>>
\* soup_authenticate: the user answers with some password, or aborts.
AuthenticateAsk(answer, keep) ==
    /\ msg.s = "401" /\ interactive /\ (Retrying \/ FromKeyring = "none")
    /\ (asked >= MaxAsks => answer = "abort") /\ (answer = "abort" => ~keep)
    /\ asked' = asked + 1 /\ askedGood' = IF good # Nowhere THEN askedGood + 1 ELSE askedGood
    /\ IF answer = "abort" THEN GiveUp /\ pw' = FromKeyring /\ UNCHANGED <<cache, save>>
       ELSE Again /\ pw' = answer /\ cache' = answer /\ save' = keep
    /\ UNCHANGED <<server, keyring, interactive, after403, base, good, cert, ans, exposed, faults>>

-----------------------------------------------------------------------------
(* The callbacks.                                                          *)

\* mount_success: the password is saved, the mount's root is the last good
\* path.
MountSuccess ==
    /\ ans' = "ok" /\ msg' = NoMsg
    /\ keyring' = IF save /\ pw # "none" THEN pw ELSE keyring
    /\ base' = good
    /\ UNCHANGED <<server, good, cert, interactive, after403, pw, save, cache, asked, askedGood, exposed, faults>>
MountFails ==
    /\ ans' = "failed" /\ msg' = NoMsg
    /\ UNCHANGED <<server, auth, base, good, cert, asked, askedGood, exposed, faults>>
GoodOrFail == IF good = Nowhere THEN MountFails ELSE MountSuccess

\* try_mount_opts_cb: the user may accept a certificate that does not
\* verify, once.
AcceptCertificate(yes) ==
    /\ msg.m = "OPTIONS" /\ msg.s = "badcert" /\ cert = "none" /\ yes
    /\ cert' = server.cert /\ msg' = Msg("OPTIONS")
    /\ UNCHANGED <<server, auth, base, good, ans, asked, askedGood, exposed, faults>>
RefuseCertificate ==
    /\ msg.m = "OPTIONS" /\ msg.s = "badcert"
    /\ GoodOrFail
\* try_mount_opts_cb: a 403 may mean wrong credentials: forget them, ask.
Retry403 ==
    /\ msg.m = "OPTIONS" /\ msg.s = "403" /\ good = Nowhere /\ pw # "none"
    /\ after403' = TRUE /\ pw' = "none" /\ cache' = "none" /\ msg' = Msg("OPTIONS")
    /\ UNCHANGED <<server, keyring, interactive, save, base, good, cert, ans, asked, askedGood, exposed, faults>>
\* try_mount_opts_cb: not WebDAV, or an error
OptsFailed ==
    /\ msg.m = "OPTIONS"
    /\ \/ msg.s \in {"failed", "refused", "nodav"}
       \/ msg.s = "403" /\ ~(good = Nowhere /\ pw # "none")
    /\ GoodOrFail
\* try_mount_opts_cb: WebDAV; are there properties, and a collection?
OptsOk ==
    /\ msg.m = "OPTIONS" /\ msg.s = "dav" /\ msg' = Msg("PROPFIND")
    /\ UNCHANGED <<server, auth, base, good, cert, ans, asked, askedGood, exposed, faults>>
\* try_mount_stat_cb: the request itself failed
StatFailed == /\ msg.m = "PROPFIND" /\ msg.s \in {"failed", "badcert"} /\ MountFails
\* try_mount_stat_cb: no properties, or no collection
StatNoCollection == /\ msg.m = "PROPFIND" /\ msg.s \in {"refused", "403", "405", "file"} /\ GoodOrFail
\* try_mount_stat_cb: a new good root; at the top that is it, else the
\* parent is tried, without asking for credentials again.
StatCollection_First ==
    /\ msg.m = "PROPFIND" /\ msg.s = "col"
    /\ good' = base /\ interactive' = FALSE /\ ans' = "ok" /\ msg' = NoMsg
    /\ UNCHANGED <<server, keyring, base, after403, pw, save, cache, cert, asked, askedGood, exposed, faults>>
StatCollection ==
    /\ msg.m = "PROPFIND" /\ msg.s = "col"
    /\ good' = base /\ interactive' = FALSE
    /\ IF base = 0
       THEN ans' = "ok" /\ msg' = NoMsg /\ UNCHANGED base
            /\ keyring' = IF save /\ pw # "none" THEN pw ELSE keyring
       ELSE base' = base - 1 /\ msg' = Msg("OPTIONS") /\ UNCHANGED <<ans, keyring>>
    /\ UNCHANGED <<server, after403, pw, save, cache, cert, asked, askedGood, exposed, faults>>

Ask == \E answer \in {"good", "wrong", "abort"}, keep \in BOOLEAN : AuthenticateAsk(answer, keep)
Callback == \/ AcceptCertificate(TRUE) \/ RefuseCertificate \/ Retry403 \/ OptsFailed \/ OptsOk
            \/ StatFailed \/ StatNoCollection \/ StatCollection
            \/ AuthenticateQuietly \/ AuthenticateKnown \/ Ask
Next == Respond \/ Fail \/ ChangeCert \/ Callback

\* The server answers, the main loop runs callbacks, the user answers.
Spec == Init /\ [][Next]_vars /\ WF_vars(Respond) /\ WF_vars(Callback)

-----------------------------------------------------------------------------
TypeOK == /\ base \in 0 .. Depth /\ good \in {Nowhere} \cup 0 .. Depth
          /\ pw \in {"none", "good", "wrong", "stale"} /\ cache \in {"none", "good", "wrong", "stale"}
          /\ keyring \in {"none", "good", "wrong", "stale"}
          /\ cert \in {"none", "bad", "other"} /\ asked \in 0 .. MaxAsks + 1
          /\ msg.m \in {"none", "OPTIONS", "PROPFIND"} /\ ans \in {"none", "ok", "failed"}

\* The root of the mount is a collection, and so is everything between it
\* and the location that was asked for.
RootIsCollection == ans = "ok" => \A d \in base .. Depth : server.at[d] = "col"
\* It is the top of the share: without failures the parent is not one.
RootIsTop == (ans = "ok" /\ faults = 0 /\ base > 0) => (server.at[base - 1] # "col")
\* Once a good root was found the user is not asked again, whatever the
\* collections above it want.
NoQuestionAfterGood == askedGood = 0
\* A password is only saved if the server has let the mount in with it.
SavedWorks == keyring # "wrong" /\ ((ans = "ok" /\ server.needs /\ save) => keyring = "good")
\* Nobody is asked while the keyring holds the right password, unless the
\* location itself refuses everyone.
KeyringFirst == (keyring = "good" /\ ~save /\ server.at[Depth] \notin {"denied", "forbidden"}) => asked = 0
\* No credentials are sent to a server whose certificate neither verifies nor
\* was accepted, also when it changes between two requests.
NeverExposed == ~exposed

=============================================================================
