---------------------------- MODULE MountOperation ----------------------------
(***************************************************************************)
(* Questions a backend puts to the user of an application.  The            *)
(* application exports its GMountOperation on the session bus              *)
(* (common/gmountoperationdbus.c) and passes the address as a mount        *)
(* source; the daemon calls it (common/gmountsource.c).  A GMountOperation *)
(* made by g_mount_source_get_operation relays its own signals to a mount  *)
(* source in the same way.                                                 *)
(*                                                                         *)
(* The n-th question asked is the number n.  What the user enters as       *)
(* password or choice for it is the value n, the user name entered n or 0  *)
(* for none: a value that belongs to another question shows as another     *)
(* number.                                                                 *)
(***************************************************************************)
EXTENDS Naturals, Sequences, FiniteSets, TLC

CONSTANTS MaxAsks,    \* how many questions are asked
          Overlap,    \* may a question be asked while another is pending?
          Patient     \* does the user answer within the 30 minutes of a call?

MaxAsksAssumption == MaxAsks \in Nat \ {0}
BooleanAssumption == Overlap \in BOOLEAN /\ Patient \in BOOLEAN

Ids   == 1 .. MaxAsks
Kinds == {"password", "question", "processes"}
Vias  == {"async", "sync", "op"}
\* G_PASSWORD_SAVE_NEVER, FOR_SESSION, PERMANENTLY and a value out of range
Saves == 0 .. 3
Results == {"HANDLED", "ABORTED", "UNHANDLED"}

VARIABLES
  asked,      \* the number of questions asked
  ask,        \* Ids -> kind, how it was asked, where it is, what came of it
  dummy,      \* is the mount source the dummy one (no dbus_id)?
  toClient,   \* method calls under way to the client: a question, 0 = Aborted
  toDaemon,   \* replies under way to the daemon
  client,     \* "exported", "freed" (the operation is gone) or "exited"
  mop,        \* what the client's GMountOperation holds
  handlers,   \* the handlers connected to its "reply" signal, by kind
  invocation, \* op_dbus->invocation: the question to be completed, or 0
  showing,    \* the questions whose dialogs the user still sees
  completed,  \* how often an invocation was completed
  said,       \* what the user said to a question
  relay       \* what the relaying GMountOperation holds

vars == <<asked, ask, dummy, toClient, toDaemon, client, mop, handlers,
          invocation, showing, completed, said, relay>>
clientVars == <<client, mop, handlers, invocation, showing, completed, said>>

NoData  == [value |-> 0, name |-> 0, anon |-> FALSE, save |-> 0]
\* AskPasswordData def = { TRUE, }: what a failed call leaves
Failed  == [handled |-> FALSE, aborted |-> TRUE] @@ NoData
Failure == [error |-> TRUE] @@ Failed
NoSaying == [result |-> "none", anon |-> FALSE, name |-> 0]

TypeOK ==
  /\ asked \in 0 .. MaxAsks
  /\ \A n \in Ids :
       /\ ask[n].kind \in Kinds \cup {"none"}
       /\ ask[n].via \in Vias \cup {"none"}
       /\ ask[n].st \in {"none", "sent", "shown", "replied", "done"}
       /\ ask[n].res \in [handled : BOOLEAN, aborted : BOOLEAN, anon : BOOLEAN,
                          value : 0 .. MaxAsks, name : 0 .. MaxAsks,
                          save : 0 .. 2]
       /\ completed[n] \in 0 .. 2
       /\ said[n].result \in Results \cup {"none"}
  /\ dummy \in BOOLEAN
  /\ toClient \in Seq(0 .. MaxAsks)
  /\ client \in {"exported", "freed", "exited"}
  /\ handlers \in Seq(Kinds)
  /\ invocation \in 0 .. MaxAsks
  /\ showing \subseteq Ids
  /\ relay.save \in Saves

Init ==
  /\ asked = 0
  /\ ask = [n \in Ids |-> [kind |-> "none", via |-> "none", st |-> "none",
                           res |-> Failed]]
  /\ dummy \in BOOLEAN
  /\ toClient = << >> /\ toDaemon = << >>
  /\ client = "exported" /\ mop = NoData
  /\ handlers = << >> /\ invocation = 0
  /\ showing = {}
  /\ completed = [n \in Ids |-> 0]
  /\ said = [n \in Ids |-> NoSaying]
  /\ relay = NoData

Pending == {n \in Ids : ask[n].st \in {"sent", "shown", "replied"}}

-----------------------------------------------------------------------------
(* The daemon asks.  Without a dbus id no proxy is made and the task fails *)
(* at once (its callback runs from the main loop); else the call is sent   *)
(* and the task waits for its reply.                                       *)

CreateProxy(n, k, via) ==
  IF dummy
  THEN /\ ask' = [ask EXCEPT ![n] =
                    [kind |-> k, via |-> via, st |-> "replied", res |-> Failed]]
       /\ toDaemon' = Append(toDaemon, [id |-> n, reply |-> Failure])
       /\ UNCHANGED toClient
  ELSE /\ ask' = [ask EXCEPT ![n] =
                    [kind |-> k, via |-> via, st |-> "sent", res |-> Failed]]
       /\ toClient' = Append(toClient, n)
       /\ UNCHANGED toDaemon

Start(k, via) ==
  /\ asked < MaxAsks
  /\ Overlap \/ Pending = {}
  /\ asked' = asked + 1
  /\ CreateProxy(asked + 1, k, via)
  /\ UNCHANGED <<dummy, clientVars, relay>>

AskPasswordAsync   == Start("password", "async")
AskQuestionAsync   == Start("question", "async")
ShowProcessesAsync == Start("processes", "async")

\* The calling thread runs a main loop of its own until the answer is there.
AskPasswordSync   == Start("password", "sync")
AskQuestionSync   == Start("question", "sync")
ShowProcessesSync == Start("processes", "sync")

\* A signal of the relaying operation starts the asynchronous call.
OpAskPassword   == Start("password", "op")
OpAskQuestion   == Start("question", "op")
OpShowProcesses == Start("processes", "op")

\* g_mount_source_abort: the reply of the call is not waited for.
Abort ==
  /\ ~dummy
  /\ Pending # {} /\ 0 \notin {toClient[i] : i \in DOMAIN toClient}
  /\ toClient' = Append(toClient, 0)
  /\ UNCHANGED <<asked, ask, dummy, toDaemon, clientVars, relay>>

-----------------------------------------------------------------------------
(* The client's side: the skeleton's handlers and the "reply" signal.      *)

\* complete_ask_password answers only an AskPassword call, the two others
\* carry the same reply: GDBus drops a return value of the wrong type.
Fits(k, l) == (k = "password") = (l = "password")

\* One handler of "reply" completes the invocation stored last, with what
\* the operation holds, and disconnects every handler.
MountOpGotReply(hs) == << >>

AskPasswordReply(k, n, r, o, hs) ==
  [sent |-> IF Fits(k, ask[n].kind)
            THEN <<[id |-> n,
                    reply |-> [error |-> FALSE, handled |-> r # "UNHANDLED",
                               aborted |-> r = "ABORTED"] @@ o]>>
            ELSE << >>,
   left |-> MountOpGotReply(hs)]

AskQuestionReply(n, r, o, hs) ==
  [sent |-> IF Fits("question", ask[n].kind)
            THEN <<[id |-> n,
                    reply |-> [error |-> FALSE, handled |-> r # "UNHANDLED",
                               aborted |-> r = "ABORTED"]
                              @@ [NoData EXCEPT !.value = o.value]]>>
            ELSE << >>,
   left |-> MountOpGotReply(hs)]

ShowProcessesReply(n, r, o, hs) ==
  [sent |-> IF Fits("processes", ask[n].kind)
            THEN <<[id |-> n,
                    reply |-> [error |-> FALSE, handled |-> r # "UNHANDLED",
                               aborted |-> r = "ABORTED"]
                              @@ [NoData EXCEPT !.value = o.value]]>>
            ELSE << >>,
   left |-> MountOpGotReply(hs)]

ReplyHandler(k, n, r, o, hs) ==
  CASE k = "password" -> AskPasswordReply(k, n, r, o, hs)
    [] k = "question" -> AskQuestionReply(n, r, o, hs)
    [] OTHER          -> ShowProcessesReply(n, r, o, hs)

\* g_mount_operation_reply: the first handler runs; a second one only if the
\* first did not disconnect it.
Reply(r, o, hs, inv) ==
  LET one == ReplyHandler(hs[1], inv, r, o, hs)
      two == IF Len(one.left) > 1
             THEN ReplyHandler(one.left[2], inv, r, o, one.left)
             ELSE [sent |-> << >>, left |-> one.left]
  IN IF hs = << >>
     THEN /\ handlers' = hs
          /\ UNCHANGED <<toDaemon, completed>>
     ELSE /\ handlers' = two.left
          /\ toDaemon' = toDaemon \o one.sent \o two.sent
          /\ completed' = [completed EXCEPT ![inv] =
                             @ + 1 + (IF Len(one.left) > 1 THEN 1 ELSE 0)]

\* A reply on its way moves the question on.
Moved(a) ==
  [n \in Ids |->
     IF a[n].st = "shown"
        /\ \E i \in DOMAIN toDaemon' : toDaemon'[i].id = n
     THEN [a[n] EXCEPT !.st = "replied"] ELSE a[n]]

\* What the user may enter into the dialog of question n.
Entries(n) ==
  IF ask[n].kind = "password"
  THEN {[value |-> n, name |-> u, anon |-> a, save |-> s] :
          u \in {0, n}, a \in BOOLEAN, s \in {0, 3}}
  ELSE {[mop EXCEPT !.value = n]}

\* The application shows the dialog and the user answers: the application
\* sets the fields and replies.  An operation nobody handles replies that it
\* is unhandled; an aborted one leaves the fields alone.
UserAnswers ==
  /\ client = "exported"
  /\ \E n \in showing, r \in Results :
       \E e \in (IF r = "HANDLED" THEN Entries(n) ELSE {mop}) :
         /\ mop' = e
         /\ Reply(r, e, handlers, invocation)
         /\ said' = [said EXCEPT ![n] =
                       [result |-> r, anon |-> e.anon, name |-> e.name]]
       /\ showing' = showing \ {n}
  /\ ask' = Moved(ask)
  /\ UNCHANGED <<asked, dummy, toClient, client, invocation, relay>>

\* The skeleton's handlers store the invocation, connect to "reply" and emit
\* the signal.  The dialog of the processes is updated, others are added.
Emit(n, k, add) ==
  /\ invocation' = n
  /\ handlers' = Append(handlers, k)
  /\ showing' = add
  /\ ask' = [ask EXCEPT ![n].st = IF @ = "sent" THEN "shown" ELSE @]
  /\ UNCHANGED <<mop, completed, said, toDaemon>>

HandleAskPassword(n)   == ask[n].kind = "password" /\ Emit(n, "password", showing \cup {n})
HandleAskQuestion(n)   == ask[n].kind = "question" /\ Emit(n, "question", showing \cup {n})
HandleShowProcesses(n) ==
  /\ ask[n].kind = "processes"
  /\ Emit(n, "processes",
          {m \in showing : ask[m].kind # "processes"} \cup {n})

\* handle_aborted: whoever waits is answered, then the dialogs go.
HandleAborted ==
  /\ Reply("UNHANDLED", mop, handlers, invocation)
  /\ showing' = {}
  /\ ask' = Moved(ask)
  /\ UNCHANGED <<mop, invocation, said>>

\* The bus hands the next call to the client.
Receive ==
  /\ client = "exported"
  /\ toClient # << >>
  /\ toClient' = Tail(toClient)
  /\ LET n == Head(toClient) IN
       IF n = 0 THEN HandleAborted
       ELSE \/ HandleAskPassword(n)
            \/ HandleAskQuestion(n)
            \/ HandleShowProcesses(n)
  /\ UNCHANGED <<asked, dummy, client, relay>>

\* No object, or nobody, takes the call: the bus answers with an error.
Undeliverable ==
  /\ client # "exported"
  /\ toClient # << >>
  /\ toClient' = Tail(toClient)
  /\ LET n == Head(toClient) IN
       IF n # 0 /\ ask[n].st = "sent"
       THEN /\ toDaemon' = Append(toDaemon, [id |-> n, reply |-> Failure])
            /\ ask' = [ask EXCEPT ![n].st = "replied"]
       ELSE UNCHANGED <<toDaemon, ask>>
  /\ UNCHANGED <<asked, dummy, clientVars, relay>>

\* The application drops its operation: the skeleton is unexported, an
\* invocation that is open stays without an answer.
OpDBusFree ==
  /\ client = "exported"
  /\ client' = "freed"
  /\ handlers' = << >> /\ showing' = {}
  /\ UNCHANGED <<asked, ask, dummy, toClient, toDaemon, mop, invocation,
                 completed, said, relay>>

\* The application exits: the bus fails every call that is open.
ClientExits ==
  /\ client # "exited"
  /\ client' = "exited"
  /\ handlers' = << >> /\ showing' = {}
  /\ LET open == {n \in Ids : ask[n].st = "shown"}
         order == [i \in 1 .. Cardinality(open) |->
                     CHOOSE n \in open :
                       Cardinality({m \in open : m <= n}) = i]
     IN toDaemon' = toDaemon \o [i \in DOMAIN order |->
                                   [id |-> order[i], reply |-> Failure]]
  /\ ask' = Moved(ask)
  /\ UNCHANGED <<asked, dummy, toClient, mop, invocation, completed, said,
                 relay>>

-----------------------------------------------------------------------------
(* The reply reaches the daemon.                                           *)

AskPasswordData_KeepAll(r) ==
  IF r.error \/ ~r.handled THEN Failed
  ELSE [handled |-> TRUE, aborted |-> r.aborted, anon |-> r.anon,
        value |-> IF r.anon THEN 0 ELSE r.value, name |-> r.name,
        save |-> IF r.save > 2 THEN 0 ELSE r.save]

\* ask_password_reply: an error or an unhandled call fails the task; an
\* anonymous answer takes no password or name along.
AskPasswordData(r) ==
  IF r.error \/ ~r.handled THEN Failed
  ELSE [handled |-> TRUE, aborted |-> r.aborted, anon |-> r.anon,
        value |-> IF r.anon THEN 0 ELSE r.value,
        name |-> IF r.anon THEN 0 ELSE r.name,
        save |-> IF r.save > 2 THEN 0 ELSE r.save]

AskQuestionData(r) ==
  IF r.error \/ ~r.handled THEN Failed
  ELSE [handled |-> TRUE, aborted |-> r.aborted]
       @@ [NoData EXCEPT !.value = r.value]

ShowProcessesData(r) ==
  IF r.error \/ ~r.handled THEN Failed
  ELSE [handled |-> TRUE, aborted |-> r.aborted]
       @@ [NoData EXCEPT !.value = r.value]

Data(k, r) == CASE k = "password" -> AskPasswordData(r)
                [] k = "question" -> AskQuestionData(r)
                [] OTHER          -> ShowProcessesData(r)

\* The callback of the relaying operation sets what it was given and emits
\* the reply; it leaves the anonymous flag alone.
OpAskPasswordReply(d) ==
  IF ~d.handled \/ d.aborted THEN relay
  ELSE [relay EXCEPT !.value = IF d.anon THEN @ ELSE d.value,
                     !.name = IF d.name = 0 THEN @ ELSE d.name,
                     !.save = d.save]
OpAskQuestionReply(d) ==
  IF ~d.handled \/ d.aborted THEN relay ELSE [relay EXCEPT !.value = d.value]
OpShowProcessesReply(d) ==
  IF ~d.handled \/ d.aborted THEN relay ELSE [relay EXCEPT !.value = d.value]

Relayed(k, d) == CASE k = "password" -> OpAskPasswordReply(d)
                   [] k = "question" -> OpAskQuestionReply(d)
                   [] OTHER          -> OpShowProcessesReply(d)

\* The finish function hands the data to the asker; a reply of a call that
\* timed out is dropped.
Finish ==
  /\ toDaemon # << >>
  /\ toDaemon' = Tail(toDaemon)
  /\ LET m == Head(toDaemon)
         n == m.id
         d == Data(ask[n].kind, m.reply)
     IN IF ask[n].st = "done"
        THEN UNCHANGED <<ask, relay>>
        ELSE /\ ask' = [ask EXCEPT ![n].st = "done", ![n].res = d]
             /\ relay' = IF ask[n].via = "op" THEN Relayed(ask[n].kind, d)
                         ELSE relay
  /\ UNCHANGED <<asked, dummy, toClient, clientVars>>

\* 30 minutes without a reply.
Timeout(n) ==
  /\ ask[n].st \in {"sent", "shown"}
  /\ ~Patient \/ client # "exported"
  /\ ask' = [ask EXCEPT ![n].st = "done", ![n].res = Failed]
  /\ UNCHANGED <<asked, dummy, toClient, toDaemon, clientVars, relay>>

Next ==
  \/ AskPasswordAsync
  \/ AskQuestionAsync
  \/ ShowProcessesAsync
  \/ AskPasswordSync
  \/ AskQuestionSync
  \/ ShowProcessesSync
  \/ OpAskPassword
  \/ OpAskQuestion
  \/ OpShowProcesses
  \/ Abort
  \/ Receive
  \/ Undeliverable
  \/ UserAnswers
  \/ OpDBusFree
  \/ ClientExits
  \/ Finish
  \/ \E n \in Ids : Timeout(n)

Spec == Init /\ [][Next]_vars

-----------------------------------------------------------------------------
(* Properties                                                              *)

\* What an asker is told is what the user said to that very question: the
\* value entered for it, aborted only if aborted, and an anonymous answer
\* without a name or a password left over from an earlier dialog.
AnswerTrue ==
  \A n \in Ids : ask[n].st = "done" /\ ask[n].res.handled =>
    LET d == ask[n].res IN
      /\ said[n].result = IF d.aborted THEN "ABORTED" ELSE "HANDLED"
      /\ ~d.aborted =>
           IF ask[n].kind = "password"
           THEN /\ d.anon = said[n].anon
                /\ d.value = IF d.anon THEN 0 ELSE n
                /\ d.name = IF d.anon THEN 0 ELSE said[n].name
           ELSE d.value = n

\* What the user said is never lost: a question that was answered, or
\* aborted, does not come back as one nobody handled.
AnswerKept ==
  \A n \in Ids :
    ask[n].st = "done" /\ said[n].result \in {"HANDLED", "ABORTED"}
      => ask[n].res.handled

\* No method invocation is completed twice (completing it frees it).
CompletedOnce == \A n \in Ids : completed[n] <= 1

-----------------------------------------------------------------------------
\* The unmount of a busy mount (daemon/gvfsbackend.c): the user is shown the
\* blocking processes, the list is refreshed by asking again every two
\* seconds with the same task, and the answer decides.  The questions are
\* those above, asked with Overlap.
VARIABLES
  blocked,   \* do other processes use the mount?
  task,      \* "none", "alive" or "freed": the GTask of the dialog
  timer,     \* data->timeout_id # 0
  noMore,    \* data->no_more_processes
  decision,  \* what the task returned
  calls      \* how often on_show_processes_reply ran on a freed task

dialogVars == <<blocked, task, timer, noMore, decision, calls>>
allVars == <<vars, dialogVars>>

DialogTypeOK ==
  /\ TypeOK
  /\ blocked \in BOOLEAN /\ timer \in BOOLEAN /\ noMore \in BOOLEAN
  /\ task \in {"none", "alive", "freed"}
  /\ decision \in {"none", "unmount", "busy", "aborted"}
  /\ calls \in 0 .. MaxAsks

DialogInit ==
  /\ Init
  /\ blocked \in BOOLEAN
  /\ task = "none" /\ timer = FALSE /\ noMore = FALSE
  /\ decision = "none" /\ calls = 0

\* g_vfs_backend_unmount_with_operation: nobody blocks, and the task returns
\* at once; or the dialog is shown and the timer armed.
UnmountWithOperation ==
  /\ task = "none"
  /\ IF ~blocked
     THEN /\ task' = "freed" /\ decision' = "unmount"
          /\ UNCHANGED <<vars, timer>>
     ELSE /\ ShowProcessesAsync
          /\ task' = "alive" /\ timer' = TRUE
          /\ UNCHANGED decision
  /\ UNCHANGED <<blocked, noMore, calls>>

\* on_update_processes_timeout
UpdateProcessesTimeout ==
  /\ timer
  /\ IF ~blocked
     THEN /\ timer' = FALSE /\ noMore' = TRUE
          /\ IF dummy THEN UNCHANGED vars
             ELSE /\ toClient' = Append(toClient, 0)
                  /\ UNCHANGED <<asked, ask, dummy, toDaemon, clientVars, relay>>
     ELSE /\ ShowProcessesAsync
          /\ UNCHANGED <<timer, noMore>>
  /\ UNCHANGED <<blocked, task, decision, calls>>

\* What the answer decides.
\* Choice 1 is "Cancel"; here the user's choice is the parity of the number
\* entered, so that both occur.
Decision(d) ==
  IF noMore THEN "unmount"
  ELSE IF ~d.handled THEN "busy"
  ELSE IF d.aborted \/ d.value % 2 = 1 THEN "aborted"
  ELSE "unmount"

\* on_show_processes_reply: the first one returns and frees the task.
OnShowProcessesReply ==
  /\ toDaemon # << >> /\ ask[Head(toDaemon).id].st # "done"
  /\ Finish
  /\ timer' = FALSE
  /\ LET d == ask'[Head(toDaemon).id].res IN
       IF task = "alive"
       THEN /\ decision' = Decision(d) /\ task' = "freed"
            /\ UNCHANGED calls
       ELSE /\ calls' = calls + 1
            /\ UNCHANGED <<decision, task>>
  /\ UNCHANGED <<blocked, noMore>>

LateReply ==
  /\ toDaemon # << >> /\ ask[Head(toDaemon).id].st = "done"
  /\ Finish
  /\ UNCHANGED dialogVars

AskTimesOut(n) ==
  /\ Timeout(n)
  /\ timer' = FALSE
  /\ IF task = "alive"
     THEN /\ decision' = Decision(Failed) /\ task' = "freed"
          /\ UNCHANGED calls
     ELSE /\ calls' = calls + 1
          /\ UNCHANGED <<decision, task>>
  /\ UNCHANGED <<blocked, noMore>>

\* Other processes come and go.
BlockersChange ==
  /\ blocked' = ~blocked
  /\ decision = "none"
  /\ UNCHANGED <<vars, task, timer, noMore, decision, calls>>

Others == /\ Receive \/ Undeliverable \/ UserAnswers \/ ClientExits \/ OpDBusFree
          /\ UNCHANGED dialogVars

DialogNext ==
  \/ UnmountWithOperation
  \/ UpdateProcessesTimeout
  \/ OnShowProcessesReply
  \/ LateReply
  \/ \E n \in Ids : AskTimesOut(n)
  \/ BlockersChange
  \/ Others

DialogSpec == DialogInit /\ [][DialogNext]_allVars

-----------------------------------------------------------------------------
\* The mount goes only if nobody used it (at the start, or when the timer
\* looked) or if the user chose to unmount it anyway.
UnmountJustified ==
  decision = "unmount" /\ ~noMore /\ asked > 0 =>
    \E n \in Ids : said[n].result = "HANDLED" /\ n % 2 = 0

\* A dialog that closes because nobody blocks any more does not fail the
\* unmount as busy or aborted, although the client answers the abort with
\* an unhandled reply and the user may press Cancel at that moment.
NoMoreProceeds == noMore => decision \in {"none", "unmount"}

===============================================================================
