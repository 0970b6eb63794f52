------------------------- MODULE MountDaemonProofs -------------------------
(* Proofs about MountDaemon, for any number of jobs, channels and threads. *)
EXTENDS MountDaemon, FiniteSetTheorems, TLAPS

-----------------------------------------------------------------------------
(* g_vfs_daemon_queue_job keeps the types of the job list and of the pool. *)
LEMMA QueueJobType ==
  ASSUME DataOK, NEW j \in JobIds, NEW k \in Kinds, NEW w \in PCs,
         QueueJob(j, k, w)
  PROVE  /\ kind' \in [JobIds -> Kinds]
         /\ pc' \in [JobIds -> PCs]
         /\ pool' \in Seq(JobIds)
<1>1. kind' \in [JobIds -> Kinds] /\ pc' \in [JobIds -> PCs]
  BY DEF DataOK, QueueJob
<1>2. pool \in Seq(JobIds) /\ Append(pool, j) \in Seq(JobIds)
  BY DEF DataOK
<1>3. pool' \in Seq(JobIds)
  BY <1>2 DEF QueueJob
<1> QED BY <1>1, <1>3

(* Every step leaves the flags Boolean. *)
LEMMA FlagsStep == FlagsOK /\ [Next]_vars => FlagsOK'
<1> SUFFICES ASSUME FlagsOK, [Next]_vars PROVE FlagsOK'
  OBVIOUS
<1> USE DEF FlagsOK, backendVars, daemonVars
<1>1. CASE MainStep
  BY <1>1 DEF MainStep, MountSucceeded, MountFailed, RegisterAccepted,
     RegisterMountCallback, NewJob, ActivityStarted, JobDoneMain,
     FinishOnMain, OpenDoneMain, ActivityCheckMain, CheckIdle
<1>2. CASE UnmountStep
  <2>1. CASE \E j \in Jobs, f \in BOOLEAN, d \in BOOLEAN : NewUnmount(j, f, d)
    BY <2>1 DEF NewUnmount, ActivityStarted, ProceedUnmount, CheckIdle
  <2>2. CASE \E j \in Jobs : ShowProcessesProceed(j) \/ ShowProcessesAbort(j)
    BY <2>2 DEF ShowProcessesProceed, ProceedUnmount, ShowProcessesAbort,
                FinishOnMain, CheckIdle
  <2>3. CASE \/ \E j \in Jobs : UnregisterMountCallback(j)
             \/ ForcedUnregisterMountCallback
    BY <2>3 DEF UnregisterMountCallback, ForcedUnregisterMountCallback,
                CloseActiveChannels, CheckIdle
  <2>4. CASE BackendLost \/ IdleUnmountCb \/ ExitAtIdle
    BY <2>4 DEF BackendLost, IdleUnmountCb, ExitAtIdle, ForceUnmount
  <2> QED BY <1>2, <2>1, <2>2, <2>3, <2>4 DEF UnmountStep
<1>3. CASE StartRun
  BY <1>3 DEF StartRun
<1>4. CASE \E j \in Jobs : ThreadStep(j)
  BY <1>4 DEF ThreadStep, RunJob, RunOpen, ChannelStarted, FinishThread,
     PostCheck, RemoveJob, RunUnmountSucceeded, RunUnmountFailed
<1>5. ASSUME NEW c \in Channels, ChannelStep(c)
      PROVE  FlagsOK'
  <2>0. ASSUME NEW k, NEW w, NEW n, NEW i \in BOOLEAN,
               ChannelNewJob(c, k, w, n, i)
        PROVE  idleId' \in BOOLEAN
    BY <2>0 DEF ChannelNewJob
  <2>1. ASSUME NEW r \in Requests, NEW w \in Ways, GotRequest(c, r, w)
        PROVE  FlagsOK'
    BY <2>0, <2>1 DEF GotRequest, StartRequest
  <2>2. CASE ClientDrop(c) \/ ChannelJobDone(c)
    BY <2>2 DEF ClientDrop, ChannelJobDone
  <2>3. ASSUME NEW w \in Ways, ConnectionClosed(c, w)
        PROVE  FlagsOK'
    BY <2>0, <2>3 DEF ConnectionClosed
  <2>4. CASE SendReplyCbClose(c)
    BY <2>4 DEF SendReplyCbClose, CheckIdle
  <2>5. ASSUME NEW f \in BOOLEAN, NEW ra \in BOOLEAN, NEW w \in Ways,
               SendReplyCb(c, f, ra, w)
        PROVE  FlagsOK'
    <3>1. CheckIdle(idleId, blockRequests, activityCount - 1) \in BOOLEAN
      BY DEF CheckIdle
    <3>2. idleId' \in BOOLEAN
      BY <2>0, <2>5, <3>1 DEF SendReplyCb, StartRequest
    <3> QED BY <2>5, <3>2 DEF SendReplyCb
  <2> QED BY <1>5, <2>1, <2>2, <2>3, <2>4, <2>5 DEF ChannelStep
<1>6. CASE Exited \/ UNCHANGED vars
  BY <1>6 DEF Exited, vars
<1> QED BY <1>1, <1>2, <1>3, <1>4, <1>5, <1>6 DEF Next

(* Every step keeps every variable in its type, whichever of the main      *)
(* loop's callbacks or the pool threads' steps it is.                      *)
LEMMA DataStep == DataOK /\ [Next]_vars => DataOK'
<1> SUFFICES ASSUME DataOK, [Next]_vars PROVE DataOK'
  OBVIOUS
<1> USE JobsAssumption, BoundsAssumption
<1>1. CASE MainStep
  <2>1. CASE \E auto \in BOOLEAN : MountSucceeded(auto)
    BY <2>1 DEF DataOK, MountSucceeded, Phases, vars, backendVars, daemonVars,
                jobVars, chanVars
  <2>2. CASE MountFailed \/ RegisterAccepted \/ RegisterMountCallback
    BY <2>2 DEF DataOK, MountFailed, RegisterAccepted, RegisterMountCallback,
                Phases, backendVars, daemonVars, jobVars, chanVars
  <2>3. ASSUME NEW j \in Jobs, NEW k \in {"op", "open"}, NEW w \in Ways,
               NewJob(j, k, w)
        PROVE  DataOK'
    <3>1. /\ kind' \in [JobIds -> Kinds] /\ pc' \in [JobIds -> PCs]
          /\ pool' \in Seq(JobIds)
      BY <2>3, QueueJobType DEF NewJob, Ways, Kinds, PCs, JobIds
    <3> QED BY <2>3, <3>1 DEF DataOK, NewJob, ActivityStarted, daemonVars,
                              chanVars
  <2>4. ASSUME NEW j \in Jobs, JobDoneMain(j)
        PROVE  DataOK'
    BY <2>4 DEF DataOK, JobDoneMain, FinishOnMain, CheckIdle, PCs, JobIds,
                daemonVars, chanVars
  <2>5. ASSUME NEW j \in Jobs, NEW c \in Channels, OpenDoneMain(j, c)
        PROVE  DataOK'
    BY <2>5 DEF DataOK, OpenDoneMain, CheckIdle, PCs, JobIds, ChanStates
  <2>6. CASE ActivityCheckMain
    BY <2>6 DEF DataOK, ActivityCheckMain, CheckIdle, daemonVars, jobVars,
                chanVars
  <2> QED BY <1>1, <2>1, <2>2, <2>3, <2>4, <2>5, <2>6 DEF MainStep
<1>2. CASE UnmountStep
  <2>1. ASSUME NEW j \in Jobs, NEW f \in BOOLEAN, NEW d \in BOOLEAN,
               NewUnmount(j, f, d)
        PROVE  DataOK'
    <3>1. /\ kind' \in [JobIds -> Kinds] /\ pc' \in [JobIds -> PCs]
          /\ pool' \in Seq(JobIds)
      <4>1. CASE QueueJob(j, "unmount", "wait") \/ ProceedUnmount(j)
        BY <4>1, QueueJobType DEF ProceedUnmount, Kinds, PCs, JobIds
      <4>2. CASE UNCHANGED <<kind, pc, pool>>
        BY <4>2 DEF DataOK
      <4> QED BY <2>1, <4>1, <4>2 DEF NewUnmount
    <3>2. activityCount' \in Int
      <4>1. CASE ActivityStarted
        BY <4>1 DEF DataOK, ActivityStarted
      <4>2. CASE UNCHANGED activityCount
        BY <4>2 DEF DataOK
      <4> QED BY <2>1, <4>1, <4>2 DEF NewUnmount
    <3> QED BY <2>1, <3>1, <3>2 DEF DataOK, NewUnmount, daemonVars, chanVars
  <2>2. ASSUME NEW j \in Jobs, ShowProcessesProceed(j)
        PROVE  DataOK'
    <3>1. /\ kind' \in [JobIds -> Kinds] /\ pc' \in [JobIds -> PCs]
          /\ pool' \in Seq(JobIds)
      BY <2>2, QueueJobType
      DEF ShowProcessesProceed, ProceedUnmount, Kinds, PCs, JobIds
    <3> QED BY <2>2, <3>1 DEF DataOK, ShowProcessesProceed, ProceedUnmount,
                              daemonVars, chanVars
  <2>3. ASSUME NEW j \in Jobs, ShowProcessesAbort(j)
        PROVE  DataOK'
    BY <2>3 DEF DataOK, ShowProcessesAbort, FinishOnMain, CheckIdle, PCs,
                JobIds, daemonVars, chanVars
  <2>4. ASSUME NEW n \in {0, 1}, CloseActiveChannels(n)
        PROVE  /\ chst' \in [Channels -> ChanStates]
               /\ up' \in [Channels -> BOOLEAN]
               /\ queue' \in [Channels -> Seq(Requests)]
               /\ connClosed' \in [Channels -> BOOLEAN]
               /\ handle' \in [Channels -> BOOLEAN]
               /\ activityCount' \in Int
    <3> DEFINE open == {c \in Channels : IsSource(c)}
    <3>1. Cardinality(open) \in Nat
      BY FS_Subset, FS_CardinalityType
    <3> HIDE DEF open
    <3>2. chst' \in [Channels -> ChanStates]
      BY <2>4 DEF DataOK, CloseActiveChannels, ChanStates
    <3>3. up' \in [Channels -> BOOLEAN]
      BY <2>4 DEF DataOK, CloseActiveChannels, IsSource
    <3>4. queue' \in [Channels -> Seq(Requests)]
      BY <2>4 DEF DataOK, CloseActiveChannels, IsSource
    <3>5. activityCount' = activityCount - n - Cardinality(open)
      BY <2>4 DEF CloseActiveChannels, open
    <3>7. activityCount' \in Int
      BY <3>1, <3>5 DEF DataOK
    <3>8. /\ connClosed' \in [Channels -> BOOLEAN]
          /\ handle' \in [Channels -> BOOLEAN]
      BY <2>4 DEF DataOK, CloseActiveChannels
    <3> QED BY <3>2, <3>3, <3>4, <3>7, <3>8
  <2>5. ASSUME NEW j \in Jobs, UnregisterMountCallback(j)
        PROVE  DataOK'
    BY <2>4, <2>5 DEF DataOK, UnregisterMountCallback, PCs, JobIds
  <2>6. CASE ForcedUnregisterMountCallback
    BY <2>4, <2>6 DEF DataOK, ForcedUnregisterMountCallback, jobVars
  <2>7. CASE BackendLost \/ ExitAtIdle
    BY <2>7 DEF DataOK, BackendLost, ExitAtIdle, ForceUnmount,
                backendVars, daemonVars, jobVars, chanVars
  <2>8. CASE IdleUnmountCb
    BY <2>8 DEF DataOK, IdleUnmountCb, ForceUnmount, daemonVars, jobVars,
                chanVars
  <2> QED BY <1>2, <2>1, <2>2, <2>3, <2>5, <2>6, <2>7, <2>8
          DEF UnmountStep
<1>3. CASE StartRun
  <2>1. Head(pool) \in JobIds /\ Tail(pool) \in Seq(JobIds)
    BY <1>3 DEF DataOK, StartRun
  <2> QED BY <1>3, <2>1 DEF DataOK, StartRun, PCs, backendVars, daemonVars,
                            chanVars
<1>4. ASSUME NEW j \in Jobs, ThreadStep(j)
      PROVE  DataOK'
  <2>1. CASE RunJob(j) \/ RemoveJob(j)
    BY <2>1 DEF DataOK, RunJob, RemoveJob, PCs, JobIds, backendVars,
                daemonVars, chanVars
  <2>5. CASE FinishThread(j)
    BY <2>5 DEF DataOK, FinishThread, PCs, JobIds, daemonVars, chanVars
  <2>6. CASE PostCheck(j)
    BY <2>6 DEF DataOK, PostCheck, PCs, JobIds, backendVars, daemonVars,
                chanVars
  <2>2. ASSUME NEW c \in Channels, RunOpen(j, c)
        PROVE  DataOK'
    BY <2>2 DEF DataOK, RunOpen, PCs, JobIds, ChanStates, backendVars
  <2>3. CASE ChannelStarted(j)
    <3> DEFINE c == newchan[j]
               v == IF chst[c] = "added" THEN "active" ELSE "closed"
    <3>1. v \in ChanStates
      BY DEF ChanStates
    <3>2. chst' = [chst EXCEPT ![c] = v] /\ up' = [up EXCEPT ![c] = (chst[c] = "added")]
      BY <2>3 DEF ChannelStarted
    <3> HIDE DEF v, c
    <3>3. chst' \in [Channels -> ChanStates]
      BY <3>1, <3>2 DEF DataOK
    <3>4. up' \in [Channels -> BOOLEAN]
      BY <3>2 DEF DataOK
    <3>5. checks' \in Nat /\ activityCount' \in Int
      BY <2>3 DEF DataOK, ChannelStarted
    <3>6. /\ pc' \in [JobIds -> PCs]
          /\ newchan' \in [Jobs -> Channels \cup {NoChannel}]
      BY <2>3 DEF DataOK, ChannelStarted, PCs, JobIds
    <3> QED BY <2>3, <3>3, <3>4, <3>5, <3>6 DEF DataOK, ChannelStarted
  <2>4. CASE RunUnmountSucceeded(j) \/ RunUnmountFailed(j)
    BY <2>4 DEF DataOK, RunUnmountSucceeded, RunUnmountFailed, PCs, JobIds,
                daemonVars, chanVars
  <2> QED BY <1>4, <2>1, <2>2, <2>3, <2>4, <2>5, <2>6 DEF ThreadStep
<1>5. ASSUME NEW c \in Channels, ChannelStep(c)
      PROVE  DataOK'
  <2>0. ASSUME NEW k \in Kinds, NEW w \in {"async", "pool", "reply"},
               NEW n \in Int, NEW i, ChannelNewJob(c, k, w, n, i)
        PROVE  /\ kind' \in [JobIds -> Kinds] /\ pc' \in [JobIds -> PCs]
               /\ pool' \in Seq(JobIds)
               /\ activityCount' \in Int
    <3>1. CASE chst[c] = "active"
      <4>1. QueueJob(c, k, w) /\ activityCount' = n + 1
        BY <2>0, <3>1 DEF ChannelNewJob
      <4>2. c \in JobIds /\ w \in PCs
        BY DEF PCs, JobIds
      <4> QED BY <4>1, <4>2, QueueJobType
    <3>2. CASE chst[c] # "active"
      <4>1. QueueJob(c, k, "orphan") /\ activityCount' = n
        BY <2>0, <3>2 DEF ChannelNewJob
      <4>2. c \in JobIds /\ "orphan" \in PCs
        BY DEF PCs, JobIds
      <4> QED BY <4>1, <4>2, QueueJobType
    <3> QED BY <3>1, <3>2
  <2>00. ASSUME NEW r \in Requests, NEW w \in Ways, NEW n \in Int,
                NEW i, StartRequest(c, r, w, n, i)
         PROVE  /\ kind' \in [JobIds -> Kinds] /\ pc' \in [JobIds -> PCs]
                /\ pool' \in Seq(JobIds)
                /\ activityCount' \in Int
    BY <2>0, <2>00 DEF StartRequest, Ways, Kinds
  <2>1. ASSUME NEW r \in Requests, NEW w \in Ways, GotRequest(c, r, w)
        PROVE  DataOK'
    <3>1. CASE pc[c] = "unused"
      <4>1. /\ kind' \in [JobIds -> Kinds] /\ pc' \in [JobIds -> PCs]
            /\ pool' \in Seq(JobIds) /\ activityCount' \in Int
        <5>1. StartRequest(c, r, w, activityCount, idleId)
          BY <2>1, <3>1 DEF GotRequest
        <5>2. activityCount \in Int
          BY DEF DataOK
        <5> QED BY <2>00, <5>1, <5>2
      <4> QED BY <2>1, <3>1, <4>1 DEF DataOK, GotRequest
    <3>2. CASE pc[c] # "unused"
      <4>1. queue' \in [Channels -> Seq(Requests)]
        <5>1. queue' = [queue EXCEPT ![c] = Append(queue[c], r)]
          BY <2>1, <3>2 DEF GotRequest
        <5>2. queue[c] \in Seq(Requests)
          BY DEF DataOK
        <5>3. Append(queue[c], r) \in Seq(Requests)
          BY <5>2
        <5> QED BY <5>1, <5>3 DEF DataOK
      <4> QED BY <2>1, <3>2, <4>1 DEF DataOK, GotRequest
    <3> QED BY <3>1, <3>2
  <2>2. CASE ClientDrop(c)
    BY <2>2 DEF DataOK, ClientDrop, backendVars, daemonVars, jobVars
  <2>3. ASSUME NEW w \in Ways, ConnectionClosed(c, w)
        PROVE  DataOK'
    BY <2>0, <2>3 DEF DataOK, ConnectionClosed, Ways, Kinds, daemonVars
  <2>4. CASE ChannelJobDone(c)
    BY <2>4 DEF DataOK, ChannelJobDone, PCs, JobIds, backendVars, daemonVars,
                chanVars
  <2>5. CASE SendReplyCbClose(c)
    BY <2>5 DEF DataOK, SendReplyCbClose, SourceActivity, CheckIdle, PCs,
                JobIds, ChanStates
  <2>6. ASSUME NEW f \in BOOLEAN, NEW ra \in BOOLEAN, NEW w \in Ways,
               SendReplyCb(c, f, ra, w)
        PROVE  DataOK'
    <3> DEFINE n == activityCount - 1
               i == CheckIdle(idleId, blockRequests, n)
    <3>1. n \in Int
      BY DEF DataOK
    <3>2. connClosed' \in [Channels -> BOOLEAN]
      BY <2>6 DEF DataOK, SendReplyCb
    <3>3. CASE MustClose(c, f)
      BY <2>0, <2>6, <3>1, <3>2, <3>3
      DEF DataOK, SendReplyCb, Ways, Kinds, daemonVars
    <3>4. CASE ~MustClose(c, f) /\ queue[c] # << >>
      <4>1. Head(queue[c]) \in Requests /\ Tail(queue[c]) \in Seq(Requests)
        BY <3>4 DEF DataOK
      <4>2. /\ kind' \in [JobIds -> Kinds] /\ pc' \in [JobIds -> PCs]
            /\ pool' \in Seq(JobIds) /\ activityCount' \in Int
        BY <2>00, <2>6, <3>1, <3>4, <4>1 DEF SendReplyCb
      <4>3. queue' \in [Channels -> Seq(Requests)]
        BY <2>6, <3>4, <4>1 DEF DataOK, SendReplyCb
      <4> QED BY <2>6, <3>2, <4>2, <4>3 DEF DataOK, SendReplyCb
    <3>5. CASE ~MustClose(c, f) /\ queue[c] = << >>
      <4>1. CASE ra
        BY <2>0, <2>6, <3>1, <3>2, <3>5, <4>1
        DEF DataOK, SendReplyCb, Ways, Kinds
      <4>2. CASE ~ra
        BY <2>6, <3>1, <3>2, <3>5, <4>2 DEF DataOK, SendReplyCb, PCs, JobIds
      <4> QED BY <4>1, <4>2
    <3> QED BY <3>3, <3>4, <3>5
  <2> QED BY <1>5, <2>1, <2>2, <2>3, <2>4, <2>5, <2>6 DEF ChannelStep
<1>6. CASE Exited \/ UNCHANGED vars
  BY <1>6 DEF DataOK, Exited, vars, backendVars, daemonVars, jobVars, chanVars
<1> QED BY <1>1, <1>2, <1>3, <1>4, <1>5, <1>6 DEF Next

(* The daemon starts in a well-typed state. *)
LEMMA InitTypeOK == Init => TypeOK
<1> SUFFICES ASSUME Init PROVE TypeOK
  OBVIOUS
<1>1. FlagsOK
  BY DEF Init, FlagsOK
<1>2. DataOK
  BY JobsAssumption DEF Init, DataOK, Phases, Kinds, PCs, ChanStates
<1> QED BY <1>1, <1>2 DEF TypeOK

(* Type correctness of the daemon. *)
THEOREM TypeCorrect == Spec => []TypeOK
<1>1. TypeOK /\ [Next]_vars => TypeOK'
  BY FlagsStep, DataStep DEF TypeOK
<1> QED BY <1>1, InitTypeOK, PTL DEF Spec

-----------------------------------------------------------------------------
(* Counting: two subsets of a finite set that differ in one element only.  *)
LEMMA OneElement ==
  ASSUME NEW D, IsFiniteSet(D), NEW A \in SUBSET D, NEW B \in SUBSET D,
         NEW d \in D, \A x \in D \ {d} : x \in A <=> x \in B
  PROVE  Cardinality(B) = Cardinality(A) + (IF d \in B THEN 1 ELSE 0)
                            - (IF d \in A THEN 1 ELSE 0)
<1>1. IsFiniteSet(A) /\ IsFiniteSet(B)
  BY FS_Subset
<1>2. Cardinality(A) \in Nat /\ Cardinality(B) \in Nat
  BY <1>1, FS_CardinalityType
<1>3. CASE d \in B
  <2>1. B = A \cup {d}
    BY <1>3
  <2>2. Cardinality(B) = IF d \in A THEN Cardinality(A) ELSE Cardinality(A) + 1
    BY <1>1, <2>1, FS_AddElement
  <2> QED BY <1>2, <1>3, <2>2
<1>4. CASE d \notin B
  <2>1. B = A \ {d}
    BY <1>4
  <2>2. Cardinality(B) = IF d \in A THEN Cardinality(A) - 1 ELSE Cardinality(A)
    BY <1>1, <2>1, FS_RemoveElement
  <2> QED BY <1>2, <1>4, <2>2
<1> QED BY <1>3, <1>4

(* Jobs and channels together are finitely many. *)
LEMMA JobIdsFinite == IsFiniteSet(JobIds)
BY JobsAssumption, FS_Union DEF JobIds

(* The three sets the activity counter is the balance of are finite.       *)
LEMMA CountsAreNat ==
  /\ Cardinality(CountedJobs) \in Nat
  /\ Cardinality(ActiveChannels) \in Nat
  /\ Cardinality(PreclosedChannels) \in Nat
<1>1. IsFiniteSet(CountedJobs)
  BY JobIdsFinite, FS_Subset DEF CountedJobs
<1>2. IsFiniteSet(ActiveChannels) /\ IsFiniteSet(PreclosedChannels)
  BY JobsAssumption, FS_Subset DEF ActiveChannels, PreclosedChannels
<1> QED BY <1>1, <1>2, FS_CardinalityType

(* A job that changes what it is at changes the number of counted jobs by  *)
(* whether it was and whether it is one of them.                           *)
LEMMA CountedUpdate ==
  ASSUME DataOK, NEW j \in JobIds, NEW v, pc' = [pc EXCEPT ![j] = v]
  PROVE  Cardinality(CountedJobs') =
           Cardinality(CountedJobs) + (IF v \in CountedPCs THEN 1 ELSE 0)
             - (IF pc[j] \in CountedPCs THEN 1 ELSE 0)
<1>1. CountedJobs \in SUBSET JobIds /\ CountedJobs' \in SUBSET JobIds
  BY DEF CountedJobs
<1>2. \A x \in JobIds \ {j} : x \in CountedJobs <=> x \in CountedJobs'
  BY DEF DataOK, CountedJobs, CountedPCs
<1>3. j \in CountedJobs' <=> v \in CountedPCs
  BY DEF DataOK, CountedJobs, CountedPCs
<1>4. j \in CountedJobs <=> pc[j] \in CountedPCs
  BY DEF CountedJobs
<1>5. Cardinality(CountedJobs') =
        Cardinality(CountedJobs) + (IF j \in CountedJobs' THEN 1 ELSE 0)
          - (IF j \in CountedJobs THEN 1 ELSE 0)
  BY <1>1, <1>2, OneElement, JobIdsFinite
<1> QED BY <1>3, <1>4, <1>5

(* The same for the life of a channel.                                     *)
LEMMA ChannelUpdate ==
  ASSUME DataOK, NEW c \in Channels, NEW v, chst' = [chst EXCEPT ![c] = v]
  PROVE  /\ Cardinality(ActiveChannels') =
              Cardinality(ActiveChannels) + (IF v = "active" THEN 1 ELSE 0)
                - (IF chst[c] = "active" THEN 1 ELSE 0)
         /\ Cardinality(PreclosedChannels') =
              Cardinality(PreclosedChannels)
                + (IF v = "preclosed" THEN 1 ELSE 0)
                - (IF chst[c] = "preclosed" THEN 1 ELSE 0)
<1>1. ASSUME NEW A \in SUBSET Channels, NEW B \in SUBSET Channels, NEW s,
             A = {x \in Channels : chst[x] = s},
             B = {x \in Channels : chst'[x] = s}
      PROVE  Cardinality(B) = Cardinality(A) + (IF v = s THEN 1 ELSE 0)
                                - (IF chst[c] = s THEN 1 ELSE 0)
  <2>1. \A x \in Channels \ {c} : x \in A <=> x \in B
    BY <1>1 DEF DataOK
  <2>2. (c \in B <=> v = s) /\ (c \in A <=> chst[c] = s)
    BY <1>1 DEF DataOK
  <2>3. Cardinality(B) = Cardinality(A) + (IF c \in B THEN 1 ELSE 0)
                            - (IF c \in A THEN 1 ELSE 0)
    BY <2>1, OneElement, JobsAssumption
  <2> QED BY <2>2, <2>3
<1>2. ActiveChannels \in SUBSET Channels /\ ActiveChannels' \in SUBSET Channels
  BY DEF ActiveChannels
<1>3. /\ PreclosedChannels \in SUBSET Channels
      /\ PreclosedChannels' \in SUBSET Channels
  BY DEF PreclosedChannels
<1> QED BY <1>1, <1>2, <1>3 DEF ActiveChannels, PreclosedChannels

-----------------------------------------------------------------------------
(* Consequences of the invariant for a backend that is still mounted.      *)
LEMMA Positive ==
  ASSUME TypeOK, StructInv, ActivityExact, backendSource
  PROVE  /\ activityCount >= 0
         /\ CountedJobs # {} => activityCount >= 1
         /\ ActiveChannels # {} => activityCount >= 1
<1>1. PreclosedChannels = {}
  BY DEF StructInv, ChannelInv, PreclosedChannels
<1>2. Cardinality(PreclosedChannels) = 0
  BY <1>1, FS_EmptySet
<1>3. IsFiniteSet(CountedJobs) /\ IsFiniteSet(ActiveChannels)
  BY JobsAssumption, JobIdsFinite, FS_Subset DEF CountedJobs, ActiveChannels
<1>4. /\ CountedJobs # {} => Cardinality(CountedJobs) # 0
      /\ ActiveChannels # {} => Cardinality(ActiveChannels) # 0
  BY <1>3, FS_EmptySet
<1> QED BY <1>2, <1>4, CountsAreNat DEF ActivityExact

(* A job moves on without being queued. *)
LEMMA JobMoves ==
  ASSUME DataOK, StructInv, NEW j \in JobIds, pc[j] # "pool",
         NEW v, v \notin {"started", "pool"}, pc' = [pc EXCEPT ![j] = v],
         UNCHANGED <<pool, newchan, chst, backendSource>>,
         j \in Channels /\ v \notin {"unused", "orphan"}
           => chst[j] \in {"active", "closed"}
  PROVE  StructInv'
<1>1. PoolInv'
  BY DEF DataOK, StructInv, PoolInv
<1>2. NewChanInv'
  BY DEF DataOK, StructInv, NewChanInv, JobIds
<1>3. ChannelInv'
  BY DEF DataOK, StructInv, ChannelInv, InList, JobIds
<1> QED BY <1>1, <1>2, <1>3 DEF StructInv

(* A job is put into daemon->jobs, or back into the pool. *)
LEMMA JobQueued ==
  ASSUME DataOK, StructInv, NEW j \in JobIds, pc[j] # "pool",
         NEW k, NEW v, v # "started", QueueJob(j, k, v),
         UNCHANGED <<newchan, chst, backendSource>>,
         j \in Channels /\ v \notin {"unused", "orphan"}
           => chst[j] \in {"active", "closed"}
  PROVE  StructInv'
<1>1. PoolInv'
  <2>1. CASE v = "pool"
    <3>1. pool' = Append(pool, j) /\ pc' = [pc EXCEPT ![j] = "pool"]
      BY <2>1 DEF QueueJob
    <3>2. \A i \in DOMAIN pool : pool[i] # j
      BY DEF StructInv, PoolInv
    <3>3. pool \in Seq(JobIds) /\ pc \in [JobIds -> PCs]
      BY DEF DataOK
    <3>4. /\ DOMAIN pool' = 1 .. Len(pool) + 1
          /\ DOMAIN pool = 1 .. Len(pool)
          /\ \A i \in 1 .. Len(pool) : pool'[i] = pool[i]
          /\ pool'[Len(pool) + 1] = j
          /\ Len(pool) \in Nat
      BY <3>1, <3>3
    <3>5. \A i \in DOMAIN pool : pool[i] \in JobIds
      BY <3>3
    <3> HIDE DEF QueueJob
    <3>6. ASSUME NEW i \in DOMAIN pool' PROVE pc'[pool'[i]] = "pool"
      <4>1. CASE i \in DOMAIN pool
        BY <3>1, <3>3, <3>4, <3>5, <4>1 DEF StructInv, PoolInv
      <4>2. CASE i = Len(pool) + 1
        BY <3>1, <3>3, <3>4, <4>2
      <4> QED BY <3>4, <4>1, <4>2
    <3>7. ASSUME NEW i \in DOMAIN pool', NEW l \in DOMAIN pool',
                 pool'[i] = pool'[l]
          PROVE  i = l
      <4>1. i \in DOMAIN pool \/ i = Len(pool) + 1
        BY <3>4
      <4>2. l \in DOMAIN pool \/ l = Len(pool) + 1
        BY <3>4
      <4> QED BY <3>2, <3>4, <3>7, <4>1, <4>2 DEF StructInv, PoolInv
    <3> QED BY <3>6, <3>7 DEF PoolInv
  <2>2. CASE v # "pool"
    BY <2>2 DEF DataOK, StructInv, PoolInv, QueueJob
  <2> QED BY <2>1, <2>2
<1>2. NewChanInv'
  BY DEF DataOK, StructInv, NewChanInv, JobIds, QueueJob
<1>3. ChannelInv'
  BY DEF DataOK, StructInv, ChannelInv, InList, JobIds, QueueJob
<1> QED BY <1>1, <1>2, <1>3 DEF StructInv

(* A step that leaves jobs, pool and channels alone. *)
LEMMA StructKept ==
  ASSUME StructInv, UNCHANGED <<pc, pool, newchan, chst>>,
         backendSource' => backendSource
  PROVE  StructInv'
BY DEF StructInv, PoolInv, NewChanInv, ChannelInv, InList

(* Nothing that is counted changes. *)
LEMMA CountsKept ==
  /\ UNCHANGED chst => /\ ActiveChannels' = ActiveChannels
                       /\ PreclosedChannels' = PreclosedChannels
  /\ UNCHANGED pc => CountedJobs' = CountedJobs
BY DEF ActiveChannels, PreclosedChannels, CountedJobs

-----------------------------------------------------------------------------
(* The inductive step, action by action.                                   *)

(* A job that was counted leaves the count, on the main loop (with the     *)
(* check of the idle timer) or on a thread (without).                      *)
LEMMA JobUncounted ==
  ASSUME IInv, NEW j \in JobIds, pc[j] \in CountedPCs,
         NEW v, v \notin CountedPCs, pc' = [pc EXCEPT ![j] = v],
         UNCHANGED <<chst, backendSource>>,
         activityCount' = activityCount - 1,
         idleId' = idleId \/ (idleId' => activityCount' = 0)
  PROVE  ActivityExact' /\ IdleInv'
<1>0. DataOK
  BY DEF IInv, TypeOK
<1>1. Cardinality(CountedJobs') = Cardinality(CountedJobs) - 1
  <2>1. Cardinality(CountedJobs') =
          Cardinality(CountedJobs) + (IF v \in CountedPCs THEN 1 ELSE 0)
            - (IF pc[j] \in CountedPCs THEN 1 ELSE 0)
    BY <1>0, CountedUpdate
  <2> QED BY <2>1, CountsAreNat
<1>2. ActivityExact'
  BY <1>1, CountsKept, CountsAreNat DEF IInv, ActivityExact
<1>3. CountedJobs # {}
  BY DEF CountedJobs
<1>4. IdleInv'
  <2> SUFFICES ASSUME idleId', backendSource PROVE activityCount' = 0
    BY DEF IdleInv
  <2>1. activityCount >= 1
    BY <1>3, Positive DEF IInv
  <2>2. activityCount # 0
    BY <2>1 DEF IInv, TypeOK, DataOK
  <2>3. ~idleId
    BY <2>2 DEF IInv, IdleInv
  <2> QED BY <2>3
<1> QED BY <1>2, <1>4

(* A job is counted, and with it the idle timer is stopped. *)
LEMMA JobCounted ==
  ASSUME IInv, NEW j \in JobIds, pc[j] \notin CountedPCs,
         NEW v \in CountedPCs, pc' = [pc EXCEPT ![j] = v],
         UNCHANGED <<chst, backendSource>>,
         activityCount' = activityCount + 1, idleId' = FALSE
  PROVE  ActivityExact' /\ IdleInv'
<1>0. DataOK
  BY DEF IInv, TypeOK
<1>1. Cardinality(CountedJobs') = Cardinality(CountedJobs) + 1
  <2>1. Cardinality(CountedJobs') =
          Cardinality(CountedJobs) + (IF v \in CountedPCs THEN 1 ELSE 0)
            - (IF pc[j] \in CountedPCs THEN 1 ELSE 0)
    BY <1>0, CountedUpdate
  <2> QED BY <2>1, CountsAreNat
<1>2. ActivityExact'
  BY <1>1, CountsKept, CountsAreNat DEF IInv, ActivityExact
<1> QED BY <1>2 DEF IdleInv

(* A job moves on and stays as counted as it was. *)
LEMMA JobStaysCounted ==
  ASSUME IInv, NEW j \in JobIds, NEW v, pc' = [pc EXCEPT ![j] = v],
         pc[j] \in CountedPCs <=> v \in CountedPCs,
         UNCHANGED <<chst, activityCount>>,
         idleId' => idleId \/ activityCount = 0,
         backendSource' => backendSource
  PROVE  ActivityExact' /\ IdleInv'
<1>0. DataOK
  BY DEF IInv, TypeOK
<1>1. Cardinality(CountedJobs') = Cardinality(CountedJobs)
  <2>1. Cardinality(CountedJobs') =
          Cardinality(CountedJobs) + (IF v \in CountedPCs THEN 1 ELSE 0)
            - (IF pc[j] \in CountedPCs THEN 1 ELSE 0)
    BY <1>0, CountedUpdate
  <2> QED BY <2>1, CountsAreNat
<1>2. ActivityExact'
  BY <1>1, CountsKept DEF IInv, ActivityExact
<1> QED BY <1>2 DEF IInv, IdleInv

(* No job and no channel changes. *)
LEMMA NothingCounted ==
  ASSUME IInv, UNCHANGED <<pc, chst, activityCount>>,
         idleId' => idleId \/ activityCount = 0,
         backendSource' => backendSource
  PROVE  ActivityExact' /\ IdleInv'
BY CountsKept DEF IInv, ActivityExact, IdleInv

(* Mounting, and jobs taken and answered on the main loop. *)
LEMMA MainStepInv ==
  ASSUME IInv, MainStep PROVE StructInv' /\ ActivityExact' /\ IdleInv'
<1> USE DEF IInv, TypeOK
<1>1. ASSUME NEW auto \in BOOLEAN, MountSucceeded(auto)
      PROVE  StructInv' /\ ActivityExact' /\ IdleInv'
  BY <1>1, StructKept, NothingCounted
  DEF MountSucceeded, daemonVars, jobVars, chanVars
<1>2. CASE MountFailed
  BY <1>2, StructKept, NothingCounted DEF MountFailed, jobVars, chanVars
<1>3. CASE RegisterAccepted \/ RegisterMountCallback
  BY <1>3, StructKept, NothingCounted
  DEF RegisterAccepted, RegisterMountCallback, backendVars, daemonVars,
      jobVars, chanVars
<1>4. ASSUME NEW j \in Jobs, NEW k \in {"op", "open"}, NEW w \in Ways,
             NewJob(j, k, w)
      PROVE  StructInv' /\ ActivityExact' /\ IdleInv'
  <2>1. /\ pc[j] = "unused" /\ QueueJob(j, k, w) /\ j \in JobIds
        /\ j \notin Channels
        /\ w \in CountedPCs /\ w # "started" /\ "unused" \notin CountedPCs
        /\ UNCHANGED <<newchan, chst, backendSource>>
        /\ pc' = [pc EXCEPT ![j] = w]
        /\ activityCount' = activityCount + 1 /\ idleId' = FALSE
    BY <1>4, JobsAssumption
    DEF NewJob, ActivityStarted, QueueJob, Ways, CountedPCs, PCs, JobIds,
        daemonVars, chanVars
  <2>2. StructInv'
    BY <2>1, JobQueued
  <2> QED BY <2>1, <2>2, JobCounted
<1>5. ASSUME NEW j \in Jobs, JobDoneMain(j)
      PROVE  StructInv' /\ ActivityExact' /\ IdleInv'
  <2>1. /\ pc[j] = "async" /\ pc' = [pc EXCEPT ![j] = "unused"]
        /\ j \in JobIds /\ j \notin Channels
        /\ "async" \in CountedPCs /\ "unused" \notin CountedPCs
        /\ UNCHANGED <<pool, newchan, chst, backendSource>>
        /\ activityCount' = activityCount - 1
        /\ idleId' = idleId \/ (idleId' => activityCount' = 0)
    BY <1>5, JobsAssumption
    DEF JobDoneMain, FinishOnMain, CheckIdle, CountedPCs, PCs, JobIds,
        daemonVars, chanVars
  <2>2. StructInv'
    BY <2>1, JobMoves
  <2> QED BY <2>1, <2>2, JobUncounted
<1>6. ASSUME NEW j \in Jobs, NEW c \in Channels, OpenDoneMain(j, c)
      PROVE  StructInv' /\ ActivityExact' /\ IdleInv'
  <2>1. /\ pc[j] = "async" /\ pc' = [pc EXCEPT ![j] = "unused"]
        /\ chst[c] = "none" /\ chst' = [chst EXCEPT ![c] = "active"]
        /\ j \in JobIds /\ "async" \in CountedPCs /\ "unused" \notin CountedPCs
        /\ UNCHANGED <<pool, newchan, backendSource, activityCount>>
    BY <1>6 DEF OpenDoneMain, CountedPCs, PCs, JobIds
  <2>2. PoolInv'
    BY <2>1 DEF DataOK, StructInv, PoolInv
  <2>3. NewChanInv'
    BY <2>1 DEF DataOK, StructInv, NewChanInv, JobIds
  <2>4. ChannelInv'
    BY <2>1 DEF DataOK, StructInv, ChannelInv, InList, JobIds
  <2>5. Cardinality(CountedJobs') = Cardinality(CountedJobs) - 1
    <3>1. Cardinality(CountedJobs') =
            Cardinality(CountedJobs) + (IF "unused" \in CountedPCs THEN 1 ELSE 0)
              - (IF pc[j] \in CountedPCs THEN 1 ELSE 0)
      BY <2>1, CountedUpdate
    <3> QED BY <2>1, <3>1, CountsAreNat
  <2>6. /\ Cardinality(ActiveChannels') = Cardinality(ActiveChannels) + 1
        /\ Cardinality(PreclosedChannels') = Cardinality(PreclosedChannels)
    <3>1. /\ Cardinality(ActiveChannels') = Cardinality(ActiveChannels) + 1 - 0
          /\ Cardinality(PreclosedChannels') =
               Cardinality(PreclosedChannels) + 0 - 0
      BY <2>1, ChannelUpdate
    <3> QED BY <3>1, CountsAreNat
  <2>7. ActivityExact'
    BY <2>1, <2>5, <2>6, CountsAreNat DEF ActivityExact
  <2>8. CountedJobs # {}
    BY <2>1 DEF CountedJobs
  <2>9. IdleInv'
    BY <1>6, <2>1, <2>8, Positive DEF OpenDoneMain, CheckIdle, IdleInv
  <2> QED BY <2>2, <2>3, <2>4, <2>7, <2>9 DEF StructInv
<1>7. CASE ActivityCheckMain
  BY <1>7, StructKept, NothingCounted
  DEF ActivityCheckMain, CheckIdle, daemonVars, jobVars, chanVars
<1> QED BY <1>1, <1>2, <1>3, <1>4, <1>5, <1>6, <1>7 DEF MainStep

(* A pool thread takes a job. *)
LEMMA StartRunInv ==
  ASSUME IInv, StartRun PROVE StructInv' /\ ActivityExact' /\ IdleInv'
<1> DEFINE j == Head(pool)
<1>1. /\ pool \in Seq(JobIds) /\ pool # << >> /\ pc \in [JobIds -> PCs]
      /\ pool' = Tail(pool) /\ pc' = [pc EXCEPT ![j] = "run"]
      /\ UNCHANGED <<chst, newchan, backendSource, activityCount, idleId>>
  BY DEF IInv, TypeOK, DataOK, StartRun, daemonVars, chanVars, backendVars
<1>2. /\ 1 \in DOMAIN pool /\ j = pool[1] /\ j \in JobIds
      /\ Len(pool) \in Nat /\ DOMAIN pool' = 1 .. Len(pool) - 1
      /\ DOMAIN pool = 1 .. Len(pool)
      /\ \A i \in DOMAIN pool' : i + 1 \in DOMAIN pool /\ pool'[i] = pool[i + 1]
      /\ \A i \in DOMAIN pool : pool[i] \in JobIds
  BY <1>1
<1>3. pc[j] = "pool"
  BY <1>2 DEF IInv, StructInv, PoolInv
<1> HIDE DEF j
<1>4. PoolInv'
  <2>1. \A i \in DOMAIN pool' : pool'[i] # j
    BY <1>2 DEF IInv, StructInv, PoolInv
  <2>2. \A i \in DOMAIN pool' : pc'[pool'[i]] = "pool"
    BY <1>1, <1>2, <2>1 DEF IInv, StructInv, PoolInv
  <2>3. ASSUME NEW i \in DOMAIN pool', NEW l \in DOMAIN pool',
               pool'[i] = pool'[l]
        PROVE  i = l
    <3>1. i + 1 = l + 1
      BY <1>2, <2>3 DEF IInv, StructInv, PoolInv
    <3> QED BY <1>2, <3>1
  <2> QED BY <2>2, <2>3 DEF PoolInv
<1>5. NewChanInv'
  BY <1>1, <1>2 DEF IInv, StructInv, NewChanInv, JobIds
<1>6. ChannelInv'
  BY <1>1, <1>2, <1>3 DEF IInv, StructInv, ChannelInv, InList, JobIds
<1>7. "pool" \in CountedPCs /\ "run" \in CountedPCs
  BY DEF CountedPCs, PCs
<1> QED BY <1>1, <1>2, <1>3, <1>4, <1>5, <1>6, <1>7, JobStaysCounted
        DEF StructInv

(* A job on a pool thread, up to its removal. *)
LEMMA ThreadStepInv ==
  ASSUME IInv, NEW j \in Jobs, ThreadStep(j)
  PROVE  StructInv' /\ ActivityExact' /\ IdleInv'
<1>0. j \in JobIds /\ j \notin Channels /\ DataOK /\ StructInv
  BY JobsAssumption DEF JobIds, IInv, TypeOK
<1>c. /\ {"run", "started", "finish", "unreg"} \subseteq CountedPCs
      /\ {"unused", "post", "remove"} \cap CountedPCs = {}
  BY DEF CountedPCs, PCs
<1>1. CASE RunJob(j) \/ RunUnmountSucceeded(j) \/ RunUnmountFailed(j)
  <2>1. PICK v \in {"finish", "unreg"} : pc' = [pc EXCEPT ![j] = v]
    BY <1>1 DEF RunJob, RunUnmountSucceeded, RunUnmountFailed
  <2>2. /\ pc[j] = "run"
        /\ UNCHANGED <<pool, newchan, chst, backendSource, activityCount, idleId>>
    BY <1>1 DEF RunJob, RunUnmountSucceeded, RunUnmountFailed, backendVars,
                daemonVars, chanVars
  <2>3. StructInv'
    BY <1>0, <2>1, <2>2, JobMoves
  <2> QED BY <1>0, <1>c, <2>1, <2>2, <2>3, JobStaysCounted
<1>2. CASE FinishThread(j)
  <2>1. /\ pc[j] = "finish" /\ pc' = [pc EXCEPT ![j] = "post"]
        /\ activityCount' = activityCount - 1
        /\ UNCHANGED <<pool, newchan, chst, backendSource, idleId>>
    BY <1>2 DEF FinishThread, daemonVars, chanVars
  <2>2. StructInv'
    BY <1>0, <2>1, JobMoves
  <2> QED BY <1>0, <1>c, <2>1, <2>2, JobUncounted
<1>3. CASE PostCheck(j) \/ RemoveJob(j)
  <2>1. PICK v \in {"remove", "unused"} : pc' = [pc EXCEPT ![j] = v]
    BY <1>3 DEF PostCheck, RemoveJob
  <2>2. /\ pc[j] \in {"post", "remove"}
        /\ UNCHANGED <<pool, newchan, chst, backendSource, activityCount, idleId>>
    BY <1>3 DEF PostCheck, RemoveJob, backendVars, daemonVars, chanVars
  <2>3. StructInv'
    BY <1>0, <2>1, <2>2, JobMoves
  <2> QED BY <1>0, <1>c, <2>1, <2>2, <2>3, JobStaysCounted
<1>4. ASSUME NEW c \in Channels, RunOpen(j, c)
      PROVE  StructInv' /\ ActivityExact' /\ IdleInv'
  <2>1. /\ pc[j] = "run" /\ pc' = [pc EXCEPT ![j] = "started"]
        /\ chst[c] = "none" /\ chst' = [chst EXCEPT ![c] = "added"]
        /\ newchan' = [newchan EXCEPT ![j] = c]
        /\ UNCHANGED <<pool, backendSource, activityCount, idleId>>
    BY <1>4 DEF RunOpen, backendVars
  <2>2. PoolInv'
    BY <1>0, <2>1 DEF DataOK, StructInv, PoolInv
  <2>3. NewChanInv'
    <3>1. \A k \in Jobs : pc'[k] = "started" /\ k # j =>
            /\ pc[k] = "started" /\ newchan'[k] = newchan[k]
            /\ newchan[k] \in Channels /\ newchan[k] # c
            /\ chst'[newchan[k]] \in {"added", "preclosed"}
      BY <1>0, <2>1 DEF DataOK, StructInv, NewChanInv, JobIds
    <3>2. newchan'[j] = c /\ chst'[c] = "added"
      BY <1>0, <2>1 DEF DataOK
    <3>3. \A k \in Jobs : pc'[k] = "started" =>
            newchan'[k] \in Channels /\ chst'[newchan'[k]] \in {"added", "preclosed"}
      BY <3>1, <3>2
    <3>4. ASSUME NEW k \in Jobs, NEW l \in Jobs, pc'[k] = "started",
                 pc'[l] = "started", newchan'[k] = newchan'[l]
          PROVE  k = l
      <4>1. CASE k = j \/ l = j
        BY <3>1, <3>2, <3>4, <4>1
      <4>2. CASE k # j /\ l # j
        BY <1>0, <3>1, <3>4, <4>2 DEF StructInv, NewChanInv
      <4> QED BY <4>1, <4>2
    <3> QED BY <3>3, <3>4 DEF NewChanInv
  <2>4. ChannelInv'
    BY <1>0, <2>1 DEF DataOK, StructInv, ChannelInv, InList, JobIds
  <2>5. Cardinality(CountedJobs') = Cardinality(CountedJobs) + 1 - 1
    BY <1>0, <1>c, <2>1, CountedUpdate
  <2>6. /\ Cardinality(ActiveChannels') = Cardinality(ActiveChannels) + 0 - 0
        /\ Cardinality(PreclosedChannels') =
             Cardinality(PreclosedChannels) + 0 - 0
    <3>1. /\ Cardinality(ActiveChannels') = Cardinality(ActiveChannels)
                + (IF "added" = "active" THEN 1 ELSE 0)
                - (IF chst[c] = "active" THEN 1 ELSE 0)
          /\ Cardinality(PreclosedChannels') = Cardinality(PreclosedChannels)
                + (IF "added" = "preclosed" THEN 1 ELSE 0)
                - (IF chst[c] = "preclosed" THEN 1 ELSE 0)
      BY <1>0, <2>1, ChannelUpdate
    <3> QED BY <2>1, <3>1
  <2>7. ActivityExact'
    BY <2>1, <2>5, <2>6, CountsAreNat DEF IInv, ActivityExact
  <2>8. IdleInv'
    BY <2>1 DEF IInv, IdleInv
  <2> QED BY <2>2, <2>3, <2>4, <2>7, <2>8 DEF StructInv
<1>5. CASE ChannelStarted(j)
  <2> DEFINE c == newchan[j]
             v == IF chst[c] = "added" THEN "active" ELSE "closed"
  <2>1. /\ pc[j] = "started" /\ pc' = [pc EXCEPT ![j] = "finish"]
        /\ chst' = [chst EXCEPT ![c] = v]
        /\ newchan' = [newchan EXCEPT ![j] = NoChannel]
        /\ activityCount' = activityCount + 1
        /\ UNCHANGED <<pool, backendSource, idleId>>
    BY <1>5 DEF ChannelStarted, daemonVars
  <2>2. c \in Channels /\ chst[c] \in {"added", "preclosed"}
    BY <1>0, <2>1 DEF StructInv, NewChanInv
  <2>3. \A k \in Jobs \ {j} : pc[k] = "started" => newchan[k] # c
    BY <1>0, <2>1 DEF StructInv, NewChanInv
  <2>v. v \in {"active", "closed"}
    OBVIOUS
  <2>w. /\ chst[c] = "added" => v = "active"
        /\ chst[c] = "preclosed" => v = "closed"
    OBVIOUS
  <2> HIDE DEF c, v
  <2>4. PoolInv'
    BY <1>0, <2>1 DEF DataOK, StructInv, PoolInv
  <2>5. NewChanInv'
    BY <1>0, <2>1, <2>2, <2>3 DEF DataOK, StructInv, NewChanInv, JobIds
  <2>6. ChannelInv'
    BY <1>0, <2>1, <2>2, <2>v DEF DataOK, StructInv, ChannelInv, InList, JobIds
  <2>7. Cardinality(CountedJobs') = Cardinality(CountedJobs) + 1 - 1
    BY <1>0, <1>c, <2>1, CountedUpdate
  <2>8. /\ Cardinality(ActiveChannels') = Cardinality(ActiveChannels)
              + (IF v = "active" THEN 1 ELSE 0)
              - (IF chst[c] = "active" THEN 1 ELSE 0)
        /\ Cardinality(PreclosedChannels') = Cardinality(PreclosedChannels)
              + (IF v = "preclosed" THEN 1 ELSE 0)
              - (IF chst[c] = "preclosed" THEN 1 ELSE 0)
    BY <1>0, <2>1, <2>2, ChannelUpdate
  <2>9. ActivityExact'
    <3>1. CASE chst[c] = "added"
      BY <2>1, <2>7, <2>8, <2>w, <3>1, CountsAreNat DEF IInv, ActivityExact
    <3>2. CASE chst[c] = "preclosed"
      BY <2>1, <2>7, <2>8, <2>w, <3>2, CountsAreNat DEF IInv, ActivityExact
    <3> QED BY <2>2, <3>1, <3>2
  <2>10. IdleInv'
    <3> SUFFICES ASSUME idleId, backendSource PROVE FALSE
      BY <2>1 DEF IdleInv
    <3>1. CountedJobs # {}
      BY <1>0, <1>c, <2>1 DEF CountedJobs
    <3>2. activityCount >= 1
      BY <3>1, Positive DEF IInv
    <3> QED BY <3>2 DEF IInv, IdleInv
  <2> QED BY <2>4, <2>5, <2>6, <2>9, <2>10 DEF StructInv
<1> QED BY <1>1, <1>2, <1>3, <1>4, <1>5 DEF ThreadStep

(* A channel that has no job asks for one (g_vfs_job_source_new_job): the  *)
(* job is counted exactly when the channel is still a source.              *)
LEMMA ChannelJobStarts ==
  ASSUME IInv, NEW c \in Channels, pc[c] = "unused",
         NEW k, NEW w \in {"async", "pool", "reply"},
         ChannelNewJob(c, k, w, activityCount, idleId),
         UNCHANGED <<newchan, chst, backendSource>>
  PROVE  StructInv' /\ ActivityExact' /\ IdleInv'
<1>0. c \in JobIds /\ DataOK /\ StructInv
  BY DEF JobIds, IInv, TypeOK
<1>c. /\ w \in CountedPCs /\ w \notin {"started", "unused", "orphan"}
      /\ {"unused", "orphan"} \cap CountedPCs = {}
  BY DEF CountedPCs, PCs
<1>1. CASE chst[c] = "active"
  <2>1. /\ QueueJob(c, k, w) /\ pc' = [pc EXCEPT ![c] = w]
        /\ activityCount' = activityCount + 1 /\ idleId' = FALSE
    BY <1>1 DEF ChannelNewJob, QueueJob
  <2>2. StructInv'
    BY <1>0, <1>1, <1>c, <2>1, JobQueued
  <2> QED BY <1>0, <1>c, <2>1, <2>2, JobCounted
<1>2. CASE chst[c] # "active"
  <2>1. /\ QueueJob(c, k, "orphan") /\ pc' = [pc EXCEPT ![c] = "orphan"]
        /\ UNCHANGED <<activityCount, idleId>>
    BY <1>2 DEF ChannelNewJob, QueueJob
  <2>2. StructInv'
    BY <1>0, <2>1, JobQueued
  <2> QED BY <1>0, <1>c, <2>1, <2>2, JobStaysCounted
<1> QED BY <1>1, <1>2

(* A channel whose reply is out asks for the next job: the old one has     *)
(* just been uncounted.                                                    *)
LEMMA ChannelJobFollows ==
  ASSUME IInv, NEW c \in Channels, pc[c] = "reply",
         NEW k, NEW w \in {"async", "pool", "reply"},
         ChannelNewJob(c, k, w, activityCount - 1,
                       CheckIdle(idleId, blockRequests, activityCount - 1)),
         UNCHANGED <<newchan, chst, backendSource>>
  PROVE  StructInv' /\ ActivityExact' /\ IdleInv'
<1>0. c \in JobIds /\ DataOK /\ StructInv /\ activityCount \in Int
  BY DEF JobIds, IInv, TypeOK, DataOK
<1>c. /\ w \in CountedPCs /\ w \notin {"started", "unused", "orphan"}
      /\ "reply" \in CountedPCs /\ "orphan" \notin CountedPCs
  BY DEF CountedPCs, PCs
<1>i. InList(c)
  BY DEF InList
<1>j. chst[c] \in {"active", "closed"}
  BY <1>0, <1>i DEF StructInv, ChannelInv
<1>1. CASE chst[c] = "active"
  <2>1. /\ QueueJob(c, k, w) /\ pc' = [pc EXCEPT ![c] = w]
        /\ activityCount' = activityCount - 1 + 1 /\ idleId' = FALSE
    BY <1>1 DEF ChannelNewJob, QueueJob
  <2>2. activityCount' = activityCount
    BY <1>0, <2>1
  <2>3. StructInv'
    BY <1>0, <1>1, <1>c, <2>1, JobQueued
  <2> QED BY <1>0, <1>c, <2>1, <2>2, <2>3, JobStaysCounted
<1>2. CASE chst[c] # "active"
  <2>1. /\ QueueJob(c, k, "orphan") /\ pc' = [pc EXCEPT ![c] = "orphan"]
        /\ activityCount' = activityCount - 1
        /\ idleId' = CheckIdle(idleId, blockRequests, activityCount - 1)
    BY <1>2 DEF ChannelNewJob, QueueJob
  <2>2. idleId' = idleId \/ (idleId' => activityCount' = 0)
    BY <2>1 DEF CheckIdle
  <2>3. StructInv'
    BY <1>0, <2>1, JobQueued
  <2> QED BY <1>0, <1>c, <2>1, <2>2, <2>3, JobUncounted
<1> QED BY <1>1, <1>2

(* A channel and its client. *)
LEMMA ChannelStepInv ==
  ASSUME IInv, NEW c \in Channels, ChannelStep(c)
  PROVE  StructInv' /\ ActivityExact' /\ IdleInv'
<1>0. c \in JobIds /\ DataOK /\ StructInv /\ c \notin Jobs
  BY JobsAssumption DEF JobIds, IInv, TypeOK
<1>c. /\ {"reply", "async", "run"} \subseteq CountedPCs
      /\ "unused" \notin CountedPCs
  BY DEF CountedPCs, PCs
<1>1. ASSUME NEW r \in Requests, NEW w \in Ways, GotRequest(c, r, w)
      PROVE  StructInv' /\ ActivityExact' /\ IdleInv'
  <2>1. UNCHANGED <<newchan, chst, backendSource>>
    BY <1>1 DEF GotRequest, daemonVars
  <2>2. CASE pc[c] = "unused"
    <3>1. PICK k \in Kinds, v \in {"async", "pool", "reply"} :
            ChannelNewJob(c, k, v, activityCount, idleId)
      BY <1>1, <2>2 DEF GotRequest, StartRequest, Ways, Kinds
    <3> QED BY <2>1, <2>2, <3>1, ChannelJobStarts
  <2>3. CASE pc[c] # "unused"
    <3>1. UNCHANGED <<activityCount, idleId, pc, pool>>
      BY <1>1, <2>3 DEF GotRequest
    <3> QED BY <1>0, <2>1, <3>1, StructKept, NothingCounted
  <2> QED BY <2>2, <2>3
<1>2. CASE ClientDrop(c)
  BY <1>0, <1>2, StructKept, NothingCounted
  DEF ClientDrop, backendVars, daemonVars, jobVars
<1>3. ASSUME NEW w \in Ways, ConnectionClosed(c, w)
      PROVE  StructInv' /\ ActivityExact' /\ IdleInv'
  <2>1. UNCHANGED <<newchan, chst, backendSource>>
    BY <1>3 DEF ConnectionClosed, daemonVars
  <2>2. CASE ~blockRequests /\ pc[c] = "unused" /\ handle[c]
    <3>1. ChannelNewJob(c, "close", w, activityCount, idleId)
      BY <1>3, <2>2 DEF ConnectionClosed
    <3>2. w \in {"async", "pool", "reply"}
      BY DEF Ways
    <3> QED BY <2>1, <2>2, <3>1, <3>2, ChannelJobStarts
  <2>3. CASE ~(~blockRequests /\ pc[c] = "unused" /\ handle[c])
    <3>1. UNCHANGED <<activityCount, idleId, pc, pool>>
      BY <1>3, <2>3 DEF ConnectionClosed
    <3> QED BY <1>0, <2>1, <3>1, StructKept, NothingCounted
  <2> QED BY <2>2, <2>3
<1>4. CASE ChannelJobDone(c)
  <2>1. /\ pc[c] \in {"async", "run"} /\ pc' = [pc EXCEPT ![c] = "reply"]
        /\ UNCHANGED <<pool, newchan, chst, backendSource, activityCount, idleId>>
    BY <1>4 DEF ChannelJobDone, backendVars, daemonVars, chanVars
  <2>2. InList(c)
    BY <2>1 DEF InList
  <2>3. chst[c] \in {"active", "closed"}
    BY <1>0, <2>2 DEF StructInv, ChannelInv
  <2>4. StructInv'
    BY <1>0, <2>1, <2>3, JobMoves
  <2> QED BY <1>0, <1>c, <2>1, <2>4, JobStaysCounted
<1>5. CASE SendReplyCbClose(c)
  <2> DEFINE n == SourceActivity(c)
  <2>1. /\ pc[c] = "reply" /\ pc' = [pc EXCEPT ![c] = "unused"]
        /\ chst' = [chst EXCEPT ![c] = "closed"]
        /\ activityCount' = activityCount - 1 - n
        /\ idleId' = CheckIdle(idleId, blockRequests, activityCount - 1 - n)
        /\ UNCHANGED <<pool, newchan, backendSource>>
    BY <1>5 DEF SendReplyCbClose
  <2>2. InList(c)
    BY <2>1 DEF InList
  <2>3. chst[c] \in {"active", "closed"}
    BY <1>0, <2>2 DEF StructInv, ChannelInv
  <2>4. n = IF chst[c] = "active" THEN 1 ELSE 0
    BY <2>3 DEF SourceActivity, IsSource
  <2> HIDE DEF n
  <2>5. PoolInv'
    BY <1>0, <2>1 DEF DataOK, StructInv, PoolInv
  <2>6. NewChanInv'
    <3>1. \A j \in Jobs : pc'[j] = pc[j]
      BY <1>0, <2>1 DEF DataOK, JobIds
    <3>2. \A j \in Jobs : pc[j] = "started" =>
            newchan[j] \in Channels /\ chst'[newchan[j]] = chst[newchan[j]]
      BY <1>0, <2>1, <2>3 DEF DataOK, StructInv, NewChanInv
    <3> QED BY <1>0, <2>1, <3>1, <3>2 DEF StructInv, NewChanInv
  <2>7. ChannelInv'
    BY <1>0, <2>1 DEF DataOK, StructInv, ChannelInv, InList, JobIds
  <2>8. Cardinality(CountedJobs') = Cardinality(CountedJobs) + 0 - 1
    BY <1>0, <1>c, <2>1, CountedUpdate
  <2>9. /\ Cardinality(ActiveChannels') = Cardinality(ActiveChannels) + 0
              - (IF chst[c] = "active" THEN 1 ELSE 0)
        /\ Cardinality(PreclosedChannels') =
              Cardinality(PreclosedChannels) + 0 - 0
    <3>1. /\ Cardinality(ActiveChannels') = Cardinality(ActiveChannels)
                + (IF "closed" = "active" THEN 1 ELSE 0)
                - (IF chst[c] = "active" THEN 1 ELSE 0)
          /\ Cardinality(PreclosedChannels') = Cardinality(PreclosedChannels)
                + (IF "closed" = "preclosed" THEN 1 ELSE 0)
                - (IF chst[c] = "preclosed" THEN 1 ELSE 0)
      BY <1>0, <2>1, ChannelUpdate
    <3> QED BY <2>3, <3>1
  <2>10. ActivityExact'
    BY <2>1, <2>4, <2>8, <2>9, CountsAreNat DEF IInv, ActivityExact
  <2>11. IdleInv'
    <3> SUFFICES ASSUME idleId', backendSource PROVE activityCount' = 0
      BY <2>1 DEF IdleInv
    <3>1. CountedJobs # {}
      BY <1>0, <1>c, <2>1 DEF CountedJobs
    <3>2. activityCount >= 1
      BY <3>1, Positive DEF IInv
    <3>3. activityCount # 0
      BY <1>0, <3>2 DEF DataOK
    <3>4. ~idleId
      BY <3>3 DEF IInv, IdleInv
    <3> QED BY <2>1, <3>4 DEF CheckIdle
  <2> QED BY <2>5, <2>6, <2>7, <2>10, <2>11 DEF StructInv
<1>6. ASSUME NEW f \in BOOLEAN, NEW ra \in BOOLEAN, NEW w \in Ways,
             SendReplyCb(c, f, ra, w)
      PROVE  StructInv' /\ ActivityExact' /\ IdleInv'
  <2> DEFINE idle == CheckIdle(idleId, blockRequests, activityCount - 1)
  <2>1. /\ pc[c] = "reply" /\ UNCHANGED <<newchan, chst, backendSource>>
        /\ w \in {"async", "pool", "reply"}
    BY <1>6 DEF SendReplyCb, daemonVars, Ways
  <2>2. \/ \E k \in Kinds, v \in {"async", "pool", "reply"} :
             ChannelNewJob(c, k, v, activityCount - 1, idle)
        \/ /\ pc' = [pc EXCEPT ![c] = "unused"] /\ UNCHANGED pool
           /\ activityCount' = activityCount - 1 /\ idleId' = idle
    BY <1>6, <2>1 DEF SendReplyCb, StartRequest, Kinds
  <2>3. ASSUME NEW k \in Kinds, NEW v \in {"async", "pool", "reply"},
               ChannelNewJob(c, k, v, activityCount - 1, idle)
        PROVE  StructInv' /\ ActivityExact' /\ IdleInv'
    BY <2>1, <2>3, ChannelJobFollows
  <2>4. ASSUME pc' = [pc EXCEPT ![c] = "unused"], UNCHANGED pool,
               activityCount' = activityCount - 1, idleId' = idle
        PROVE  StructInv' /\ ActivityExact' /\ IdleInv'
    <3>1. idleId' = idleId \/ (idleId' => activityCount' = 0)
      BY <2>4 DEF CheckIdle
    <3>2. StructInv'
      BY <1>0, <2>1, <2>4, JobMoves
    <3> QED BY <1>0, <1>c, <2>1, <2>4, <3>1, <3>2, JobUncounted
  <2> QED BY <2>2, <2>3, <2>4
<1> QED BY <1>1, <1>2, <1>3, <1>4, <1>5, <1>6 DEF ChannelStep

(* Closing the active channels moves every counted channel to "closed" and *)
(* every one still being opened to "preclosed", and takes the backend out  *)
(* of the sources; what the caller gave up (n) comes on top.               *)
LEMMA ClosingChannels ==
  ASSUME IInv, NEW n \in Nat, CloseActiveChannels(n)
  PROVE  /\ NewChanInv /\ UNCHANGED <<newchan, pc>> => NewChanInv'
         /\ \A c \in Channels :
              /\ chst[c] \in {"active", "closed"} => chst'[c] = "closed"
              /\ chst[c] \notin {"active", "added"} => chst'[c] = chst[c]
              /\ chst[c] = "added" => chst'[c] = "preclosed"
         /\ backendSource' = FALSE
         /\ activityCount' = activityCount - n
              + (Cardinality(ActiveChannels') - Cardinality(PreclosedChannels'))
              - (Cardinality(ActiveChannels) - Cardinality(PreclosedChannels))
<1> DEFINE open == {c \in Channels : IsSource(c)}
           added == {c \in Channels : chst[c] = "added"}
<1>0. DataOK
  BY DEF IInv, TypeOK
<1>1. /\ chst' = [c \in Channels |->
                CASE chst[c] = "added"  -> "preclosed"
                  [] chst[c] = "active" -> "closed"
                  [] OTHER              -> chst[c]]
      /\ activityCount' = activityCount - n - Cardinality(open)
      /\ backendSource' = FALSE
  BY DEF CloseActiveChannels
<1>2. \A c \in Channels :
        /\ chst[c] \in {"active", "closed"} => chst'[c] = "closed"
        /\ chst[c] \notin {"active", "added"} => chst'[c] = chst[c]
        /\ chst[c] = "added" => chst'[c] = "preclosed"
  BY <1>0, <1>1 DEF DataOK
<1>3. ActiveChannels' = {}
  BY <1>0, <1>2 DEF ActiveChannels, DataOK, ChanStates
<1>4. PreclosedChannels' = PreclosedChannels \cup added
  BY <1>0, <1>2 DEF PreclosedChannels, DataOK, ChanStates
<1>5. open = ActiveChannels \cup added
  BY DEF ActiveChannels, IsSource
<1>6. /\ PreclosedChannels \cap added = {} /\ ActiveChannels \cap added = {}
  BY DEF PreclosedChannels, ActiveChannels
<1>7. /\ IsFiniteSet(added) /\ IsFiniteSet(ActiveChannels)
      /\ IsFiniteSet(PreclosedChannels)
  BY JobsAssumption, FS_Subset DEF ActiveChannels, PreclosedChannels
<1> HIDE DEF open, added
<1>8. /\ Cardinality(added) \in Nat /\ Cardinality(ActiveChannels) \in Nat
      /\ Cardinality(PreclosedChannels) \in Nat
  BY <1>7, FS_CardinalityType
<1>9. Cardinality(open) = Cardinality(ActiveChannels) + Cardinality(added)
                            - Cardinality(ActiveChannels \cap added)
  BY <1>5, <1>7, FS_Union
<1>10. Cardinality(PreclosedChannels') =
         Cardinality(PreclosedChannels) + Cardinality(added)
           - Cardinality(PreclosedChannels \cap added)
  BY <1>4, <1>7, FS_Union
<1>11. Cardinality({}) = 0
  BY FS_EmptySet
<1>12. /\ Cardinality(open) = Cardinality(ActiveChannels) + Cardinality(added)
       /\ Cardinality(PreclosedChannels') =
            Cardinality(PreclosedChannels) + Cardinality(added)
       /\ Cardinality(ActiveChannels') = 0
  <2>1. /\ Cardinality(ActiveChannels \cap added) = 0
        /\ Cardinality(PreclosedChannels \cap added) = 0
        /\ Cardinality(ActiveChannels') = 0
    BY <1>3, <1>6, <1>11, Zenon
  <2> QED BY <1>8, <1>9, <1>10, <2>1
<1>13. activityCount \in Int
  BY <1>0 DEF DataOK
<1>14. activityCount' = activityCount - n
         + (Cardinality(ActiveChannels') - Cardinality(PreclosedChannels'))
         - (Cardinality(ActiveChannels) - Cardinality(PreclosedChannels))
  BY <1>1, <1>8, <1>12, <1>13
<1>15. ASSUME NewChanInv, UNCHANGED <<newchan, pc>> PROVE NewChanInv'
  BY <1>2, <1>15 DEF NewChanInv
<1> QED BY <1>1, <1>2, <1>14, <1>15

(* Unmounts: asked for, forced and of an idle backend, and the exit. *)
LEMMA UnmountStepInv ==
  ASSUME IInv, UnmountStep PROVE StructInv' /\ ActivityExact' /\ IdleInv'
<1>0. /\ DataOK /\ StructInv
      /\ \A j \in Jobs : j \in JobIds /\ j \notin Channels
  BY JobsAssumption DEF JobIds, IInv, TypeOK
<1>c. /\ {"wait", "pool", "unreg"} \subseteq CountedPCs
      /\ "unused" \notin CountedPCs
  BY DEF CountedPCs, PCs
<1>1. ASSUME NEW j \in Jobs, NEW f \in BOOLEAN, NEW d \in BOOLEAN,
             NewUnmount(j, f, d)
      PROVE  StructInv' /\ ActivityExact' /\ IdleInv'
  <2>1. pc[j] = "unused" /\ UNCHANGED <<newchan, chst, backendSource>>
    BY <1>1 DEF NewUnmount, daemonVars, chanVars
  <2>2. \/ /\ idleId' = CheckIdle(FALSE, FALSE, activityCount)
           /\ UNCHANGED <<activityCount, pc, pool>>
        \/ \E v \in {"wait", "pool", "unreg"} :
             ActivityStarted /\ QueueJob(j, "unmount", v)
    BY <1>1 DEF NewUnmount, ProceedUnmount
  <2>3. CASE /\ idleId' = CheckIdle(FALSE, FALSE, activityCount)
             /\ UNCHANGED <<activityCount, pc, pool>>
    <3>1. idleId' => idleId \/ activityCount = 0
      BY <2>3 DEF CheckIdle
    <3> QED BY <1>0, <2>1, <2>3, <3>1, StructKept, NothingCounted
  <2>4. ASSUME NEW v \in {"wait", "pool", "unreg"}, ActivityStarted,
               QueueJob(j, "unmount", v)
        PROVE  StructInv' /\ ActivityExact' /\ IdleInv'
    <3>1. /\ activityCount' = activityCount + 1 /\ idleId' = FALSE
          /\ pc' = [pc EXCEPT ![j] = v]
      BY <2>4 DEF ActivityStarted, QueueJob
    <3>2. StructInv'
      BY <1>0, <2>1, <2>4, JobQueued
    <3> QED BY <1>0, <1>c, <2>1, <3>1, <3>2, JobCounted
  <2> QED BY <2>2, <2>3, <2>4
<1>2. ASSUME NEW j \in Jobs, ShowProcessesProceed(j)
      PROVE  StructInv' /\ ActivityExact' /\ IdleInv'
  <2>1. /\ pc[j] = "wait"
        /\ UNCHANGED <<newchan, chst, backendSource, activityCount, idleId>>
    BY <1>2 DEF ShowProcessesProceed, daemonVars, chanVars
  <2>2. PICK v \in {"pool", "unreg"} : QueueJob(j, "unmount", v)
    BY <1>2 DEF ShowProcessesProceed, ProceedUnmount
  <2>3. pc' = [pc EXCEPT ![j] = v]
    BY <2>2 DEF QueueJob
  <2>4. StructInv'
    BY <1>0, <2>1, <2>2, JobQueued
  <2> QED BY <1>0, <1>c, <2>1, <2>3, <2>4, JobStaysCounted
<1>3. ASSUME NEW j \in Jobs, ShowProcessesAbort(j)
      PROVE  StructInv' /\ ActivityExact' /\ IdleInv'
  <2>1. /\ pc[j] = "wait" /\ pc' = [pc EXCEPT ![j] = "unused"]
        /\ activityCount' = activityCount - 1
        /\ idleId' = idleId \/ (idleId' => activityCount' = 0)
        /\ UNCHANGED <<pool, newchan, chst, backendSource>>
    BY <1>3 DEF ShowProcessesAbort, FinishOnMain, CheckIdle, daemonVars, chanVars
  <2>2. StructInv'
    BY <1>0, <2>1, JobMoves
  <2> QED BY <1>0, <1>c, <2>1, <2>2, JobUncounted
<1>4. ASSUME NEW j \in Jobs, UnregisterMountCallback(j)
      PROVE  StructInv' /\ ActivityExact' /\ IdleInv'
  <2>1. /\ pc[j] = "unreg" /\ pc' = [pc EXCEPT ![j] = "unused"]
        /\ CloseActiveChannels(1) /\ UNCHANGED <<pool, newchan>>
    BY <1>4 DEF UnregisterMountCallback
  <2>2. /\ \A c \in Channels :
             /\ chst[c] \in {"active", "closed"} => chst'[c] = "closed"
             /\ chst[c] \notin {"active", "added"} => chst'[c] = chst[c]
             /\ chst[c] = "added" => chst'[c] = "preclosed"
        /\ backendSource' = FALSE
        /\ activityCount' = activityCount - 1
             + (Cardinality(ActiveChannels') - Cardinality(PreclosedChannels'))
             - (Cardinality(ActiveChannels) - Cardinality(PreclosedChannels))
    BY <2>1, ClosingChannels
  <2>3. PoolInv'
    BY <1>0, <2>1 DEF DataOK, StructInv, PoolInv
  <2>4. NewChanInv'
    <3>1. \A k \in Jobs : pc'[k] = "started" => pc[k] = "started"
      BY <1>0, <2>1 DEF DataOK
    <3> QED BY <1>0, <2>1, <2>2, <3>1 DEF StructInv, NewChanInv
  <2>5. ChannelInv'
    <3>1. \A c \in Channels : pc'[c] = pc[c]
      BY <1>0, <2>1 DEF DataOK, JobIds
    <3> QED BY <1>0, <2>2, <3>1 DEF StructInv, ChannelInv, InList
  <2>6. Cardinality(CountedJobs') = Cardinality(CountedJobs) + 0 - 1
    BY <1>0, <1>c, <2>1, CountedUpdate
  <2>7. ActivityExact'
    <3>1. /\ Cardinality(ActiveChannels') \in Nat
          /\ Cardinality(PreclosedChannels') \in Nat
      <4>1. IsFiniteSet(ActiveChannels') /\ IsFiniteSet(PreclosedChannels')
        BY JobsAssumption, FS_Subset DEF ActiveChannels, PreclosedChannels
      <4> QED BY <4>1, FS_CardinalityType
    <3> QED BY <2>2, <2>6, <3>1, CountsAreNat DEF IInv, ActivityExact
  <2>8. IdleInv'
    BY <2>2 DEF IdleInv
  <2> QED BY <2>3, <2>4, <2>5, <2>7, <2>8 DEF StructInv
<1>5. CASE ForcedUnregisterMountCallback
  <2>1. /\ CloseActiveChannels(0) /\ UNCHANGED <<pc, pool, newchan>>
    BY <1>5 DEF ForcedUnregisterMountCallback, jobVars
  <2>2. /\ \A c \in Channels :
             /\ chst[c] \in {"active", "closed"} => chst'[c] = "closed"
             /\ chst[c] \notin {"active", "added"} => chst'[c] = chst[c]
             /\ chst[c] = "added" => chst'[c] = "preclosed"
        /\ backendSource' = FALSE
        /\ NewChanInv'
        /\ activityCount' = activityCount - 0
             + (Cardinality(ActiveChannels') - Cardinality(PreclosedChannels'))
             - (Cardinality(ActiveChannels) - Cardinality(PreclosedChannels))
    BY <1>0, <2>1, ClosingChannels DEF StructInv
  <2>3. PoolInv'
    BY <1>0, <2>1 DEF StructInv, PoolInv
  <2>4. ChannelInv'
    BY <1>0, <2>1, <2>2 DEF StructInv, ChannelInv, InList
  <2>5. ActivityExact'
    <3>1. /\ Cardinality(ActiveChannels') \in Nat
          /\ Cardinality(PreclosedChannels') \in Nat
      <4>1. IsFiniteSet(ActiveChannels') /\ IsFiniteSet(PreclosedChannels')
        BY JobsAssumption, FS_Subset DEF ActiveChannels, PreclosedChannels
      <4> QED BY <4>1, FS_CardinalityType
    <3>2. CountedJobs' = CountedJobs
      BY <2>1, CountsKept
    <3> QED BY <2>2, <3>1, <3>2, CountsAreNat DEF IInv, ActivityExact
  <2>6. IdleInv'
    BY <2>2 DEF IdleInv
  <2> QED BY <2>2, <2>3, <2>4, <2>5, <2>6 DEF StructInv
<1>6. CASE BackendLost \/ IdleUnmountCb \/ ExitAtIdle
  <2>1. UNCHANGED <<pc, pool, newchan, chst, activityCount, backendSource>>
    BY <1>6 DEF BackendLost, IdleUnmountCb, ExitAtIdle, daemonVars, jobVars,
                chanVars, backendVars
  <2>2. idleId' => idleId \/ activityCount = 0
    BY <1>6 DEF BackendLost, IdleUnmountCb, ExitAtIdle, backendVars
  <2> QED BY <1>0, <2>1, <2>2, StructKept, NothingCounted
<1> QED BY <1>1, <1>2, <1>3, <1>4, <1>5, <1>6 DEF UnmountStep

-----------------------------------------------------------------------------
(* The inductive invariant holds: what jobs, pool and channels look like,  *)
(* the exact balance of the activity counter, and that a running idle      *)
(* timer means a counter at zero.                                          *)
THEOREM Invariance == Spec => []IInv
<1>1. Init => IInv
  <2> SUFFICES ASSUME Init PROVE IInv
    OBVIOUS
  <2>1. TypeOK
    BY InitTypeOK
  <2>2. StructInv
    BY DEF Init, StructInv, PoolInv, NewChanInv, ChannelInv, InList, JobIds
  <2>3. /\ CountedJobs = {} /\ ActiveChannels = {} /\ PreclosedChannels = {}
    BY DEF Init, CountedJobs, CountedPCs, ActiveChannels, PreclosedChannels
  <2>4. Cardinality(CountedJobs) = 0 /\ Cardinality(ActiveChannels) = 0
        /\ Cardinality(PreclosedChannels) = 0
    BY <2>3, FS_EmptySet
  <2>5. ActivityExact
    BY <2>4 DEF Init, ActivityExact
  <2>6. IdleInv
    BY DEF Init, IdleInv
  <2> QED BY <2>1, <2>2, <2>5, <2>6 DEF IInv
<1>2. IInv /\ [Next]_vars => IInv'
  <2> SUFFICES ASSUME IInv, [Next]_vars PROVE IInv'
    OBVIOUS
  <2>1. TypeOK'
    BY FlagsStep, DataStep DEF IInv, TypeOK
  <2>2. CASE MainStep \/ UnmountStep \/ StartRun
    BY <2>1, <2>2, MainStepInv, UnmountStepInv, StartRunInv DEF IInv
  <2>3. ASSUME NEW j \in Jobs, ThreadStep(j) PROVE IInv'
    BY <2>1, <2>3, ThreadStepInv DEF IInv
  <2>4. ASSUME NEW c \in Channels, ChannelStep(c) PROVE IInv'
    BY <2>1, <2>4, ChannelStepInv DEF IInv
  <2>5. CASE UNCHANGED vars
    <3>1. /\ UNCHANGED <<pc, pool, newchan, chst>>
          /\ UNCHANGED <<backendSource, activityCount, idleId>>
      BY <2>5 DEF vars, backendVars, daemonVars, jobVars, chanVars
    <3>2. StructInv'
      BY <3>1, StructKept DEF IInv
    <3>3. ActivityExact' /\ IdleInv'
      BY <3>1, NothingCounted
    <3> QED BY <2>1, <3>2, <3>3 DEF IInv
  <2> QED BY <2>2, <2>3, <2>4, <2>5 DEF Next, Exited
<1> QED BY <1>1, <1>2, PTL DEF Spec

(* For any number of jobs, channels and threads, the counter behind        *)
(* g_vfs_backend_activity_started and _finished is exact at every step: no *)
(* path through the daemon counts an activity twice or forgets one.        *)
THEOREM ActivityIsExact == Spec => []ActivityExact
<1>1. IInv => ActivityExact
  BY DEF IInv
<1> QED BY <1>1, Invariance, PTL

(* The idle timer of a mounted backend never runs while a job is queued or *)
(* at work or a channel is open, whatever thread the job runs on, so that  *)
(* idle_unmount_cb never unmounts a backend in use.                        *)
THEOREM IdleOnlyWhenInactive == Spec => []IdleMeansInactive
<1>1. IInv => IdleMeansInactive
  <2> SUFFICES ASSUME IInv, idleId, backendSource
               PROVE  CountedJobs = {} /\ ActiveChannels = {}
    BY DEF IdleMeansInactive
  <2>1. activityCount = 0
    BY DEF IInv, IdleInv
  <2>2. ~(activityCount >= 1)
    BY <2>1
  <2> QED BY <2>2, Positive DEF IInv
<1> QED BY <1>1, Invariance, PTL
-----------------------------------------------------------------------------
(* A step that touches neither the sources nor the exit timer.             *)
LEMMA SourcesKept ==
  ASSUME ExitIsScheduled, UNCHANGED <<backendSource, chst, exitTag>>
  PROVE  ExitIsScheduled'
BY DEF ExitIsScheduled, IsSource

(* Every step that takes the last source away starts the exit timer, and a *)
(* step that stops it has added a source.                                  *)
LEMMA ExitStep ==
  ASSUME IInv, ExitIsScheduled, [Next]_vars PROVE ExitIsScheduled'
<1>0. DataOK /\ NewChanInv
  BY DEF IInv, TypeOK, StructInv
<1>1. CASE MainStep
  <2>1. CASE MountFailed
    BY <2>1 DEF MountFailed, ExitIsScheduled
  <2>2. ASSUME NEW j \in Jobs, NEW c \in Channels, OpenDoneMain(j, c)
        PROVE  ExitIsScheduled'
    <3>1. chst' = [chst EXCEPT ![c] = "active"]
      BY <2>2 DEF OpenDoneMain
    <3>2. IsSource(c)'
      BY <1>0, <3>1 DEF IsSource, DataOK
    <3> QED BY <3>2 DEF ExitIsScheduled
  <2>3. CASE \/ \E auto \in BOOLEAN : MountSucceeded(auto)
             \/ RegisterAccepted \/ RegisterMountCallback \/ ActivityCheckMain
             \/ \E j \in Jobs, k \in {"op", "open"}, w \in Ways : NewJob(j, k, w)
             \/ \E j \in Jobs : JobDoneMain(j)
    <3>1. UNCHANGED <<backendSource, chst, exitTag>>
      BY <2>3 DEF MountSucceeded, RegisterAccepted, RegisterMountCallback,
                  ActivityCheckMain, NewJob, JobDoneMain, daemonVars, chanVars
    <3> QED BY <3>1, SourcesKept
  <2> QED BY <1>1, <2>1, <2>2, <2>3 DEF MainStep
<1>2. CASE UnmountStep
  <2>1. ASSUME NEW n \in {0, 1}, CloseActiveChannels(n)
        PROVE  ExitIsScheduled'
    <3>1. exitTag' = (exitTag \/ backendSource
                        \/ {c \in Channels : IsSource(c)} # {})
      BY <2>1 DEF CloseActiveChannels
    <3> QED BY <3>1 DEF ExitIsScheduled
  <2>2. CASE \/ \E j \in Jobs : UnregisterMountCallback(j)
             \/ ForcedUnregisterMountCallback
    BY <2>1, <2>2 DEF UnregisterMountCallback, ForcedUnregisterMountCallback
  <2>3. CASE \/ \E j \in Jobs, f \in BOOLEAN, d \in BOOLEAN : NewUnmount(j, f, d)
             \/ \E j \in Jobs : ShowProcessesProceed(j) \/ ShowProcessesAbort(j)
             \/ BackendLost \/ IdleUnmountCb \/ ExitAtIdle
    <3>1. UNCHANGED <<backendSource, chst, exitTag>>
      BY <2>3 DEF NewUnmount, ShowProcessesProceed, ShowProcessesAbort,
                  BackendLost, IdleUnmountCb, ExitAtIdle, daemonVars, chanVars
    <3> QED BY <3>1, SourcesKept
  <2> QED BY <1>2, <2>2, <2>3 DEF UnmountStep
<1>3. CASE StartRun \/ Exited \/ UNCHANGED vars
  <2>1. UNCHANGED <<backendSource, chst, exitTag>>
    BY <1>3 DEF StartRun, Exited, vars, daemonVars, chanVars
  <2> QED BY <2>1, SourcesKept
<1>4. ASSUME NEW j \in Jobs, ThreadStep(j)
      PROVE  ExitIsScheduled'
  <2>1. ASSUME NEW c \in Channels, RunOpen(j, c)
        PROVE  ExitIsScheduled'
    <3>1. chst' = [chst EXCEPT ![c] = "added"]
      BY <2>1 DEF RunOpen
    <3>2. IsSource(c)'
      BY <1>0, <3>1 DEF IsSource, DataOK
    <3> QED BY <3>2 DEF ExitIsScheduled
  <2>2. CASE ChannelStarted(j)
    <3>1. /\ pc[j] = "started" /\ UNCHANGED <<backendSource, exitTag>>
          /\ chst' = [chst EXCEPT ![newchan[j]] =
                        IF chst[newchan[j]] = "added" THEN "active" ELSE "closed"]
      BY <2>2 DEF ChannelStarted, daemonVars
    <3>2. chst[newchan[j]] \in {"added", "preclosed"}
      BY <1>0, <3>1 DEF NewChanInv
    <3>3. \A c \in Channels : IsSource(c)' = IsSource(c)
      BY <1>0, <3>1, <3>2 DEF DataOK, IsSource
    <3> QED BY <3>1, <3>3 DEF ExitIsScheduled
  <2>3. CASE \/ RunJob(j) \/ FinishThread(j) \/ PostCheck(j) \/ RemoveJob(j)
             \/ RunUnmountSucceeded(j) \/ RunUnmountFailed(j)
    <3>1. UNCHANGED <<backendSource, chst, exitTag>>
      BY <2>3 DEF RunJob, FinishThread, PostCheck, RemoveJob,
                  RunUnmountSucceeded, RunUnmountFailed, daemonVars, chanVars
    <3> QED BY <3>1, SourcesKept
  <2> QED BY <1>4, <2>1, <2>2, <2>3 DEF ThreadStep
<1>5. ASSUME NEW c \in Channels, ChannelStep(c)
      PROVE  ExitIsScheduled'
  <2>1. CASE SendReplyCbClose(c)
    <3>1. /\ chst' = [chst EXCEPT ![c] = "closed"] /\ UNCHANGED backendSource
          /\ exitTag' = (exitTag \/ (IsSource(c) /\ NoOtherSource(c)))
      BY <2>1 DEF SendReplyCbClose
    <3>2. \A d \in Channels \ {c} : IsSource(d)' = IsSource(d)
      BY <1>0, <3>1 DEF DataOK, IsSource
    <3> QED BY <3>1, <3>2 DEF ExitIsScheduled, NoOtherSource
  <2>2. CASE \/ \E r \in Requests, w \in Ways : GotRequest(c, r, w)
             \/ ClientDrop(c) \/ ChannelJobDone(c)
             \/ \E w \in Ways : ConnectionClosed(c, w)
             \/ \E f \in BOOLEAN, ra \in BOOLEAN, w \in Ways :
                  SendReplyCb(c, f, ra, w)
    <3>1. UNCHANGED <<backendSource, chst, exitTag>>
      BY <2>2 DEF GotRequest, ClientDrop, ChannelJobDone, ConnectionClosed,
                  SendReplyCb, daemonVars, chanVars
    <3> QED BY <3>1, SourcesKept
  <2> QED BY <1>5, <2>1, <2>2 DEF ChannelStep
<1> QED BY <1>1, <1>2, <1>3, <1>4, <1>5 DEF Next

(* A daemon without sources is about to exit, however the mount's failure, *)
(* forced and asked unmounts, closing channels and threads that still add  *)
(* one come together: it never lingers with nothing to serve               *)
(* (g_vfs_daemon_add_job_source, job_source_closed_callback).              *)
THEOREM ExitScheduled == Spec => []ExitIsScheduled
<1>1. Init => ExitIsScheduled
  BY DEF Init, ExitIsScheduled
<1>2. IInv /\ ExitIsScheduled /\ [Next]_vars => ExitIsScheduled'
  BY ExitStep
<1> QED BY <1>1, <1>2, Invariance, PTL DEF Spec
-----------------------------------------------------------------------------
(* What can leave an inactive backend without a timer: a step that keeps   *)
(* the count, the timer and every unposted check leaves it armed, and so   *)
(* does one that ends with the idle check.                                 *)
LEMMA ArmedKept ==
  ASSUME IdleIsArmed, autounmount' = autounmount,
         UNCHANGED <<blockRequests, backendSource, activityCount, idleId>>,
         checks' = checks,
         \A j \in Jobs : pc[j] = "post" => pc'[j] = "post"
  PROVE  IdleIsArmed'
BY DEF IdleIsArmed

(* A step that ends with the idle check arms the timer of an inactive      *)
(* backend.                                                                *)
LEMMA ArmedByCheck ==
  ASSUME NEW idle, NEW blk, autounmount' = autounmount, blockRequests' = blk,
         idleId' = CheckIdle(idle, blk, activityCount')
  PROVE  IdleIsArmed'
BY DEF IdleIsArmed, CheckIdle

(* A backend that is a source has a counter that is not negative, and one  *)
(* that is positive while a job is counted.                                *)
LEMMA SourceCount ==
  ASSUME IInv, backendSource
  PROVE  /\ activityCount \in Int /\ activityCount >= 0
         /\ \A j \in JobIds : pc[j] \in CountedPCs => activityCount >= 1
<1>1. activityCount \in Int
  BY DEF IInv, TypeOK, DataOK
<1>2. ASSUME NEW j \in JobIds, pc[j] \in CountedPCs PROVE activityCount >= 1
  <2>1. CountedJobs # {}
    BY <1>2 DEF CountedJobs
  <2> QED BY <2>1, Positive DEF IInv
<1> QED BY <1>1, <1>2, Positive DEF IInv

(* A new activity: the counter is not zero afterwards. *)
LEMMA ArmedByActivity ==
  ASSUME IInv, backendSource' = backendSource,
         activityCount' = activityCount + 1
  PROVE  IdleIsArmed'
<1> SUFFICES ASSUME backendSource PROVE activityCount' # 0
  BY DEF IdleIsArmed
<1> QED BY SourceCount

(* g_vfs_job_source_new_job of a channel whose last job is done (n = 1) or *)
(* that had none (n = 0).                                                  *)
LEMMA ArmedChannelJob ==
  ASSUME IInv, IdleIsArmed, NEW c \in Channels, pc[c] # "post",
         NEW k, NEW w, w # "post",
         \/ /\ pc[c] = "unused"
            /\ ChannelNewJob(c, k, w, activityCount, idleId)
         \/ /\ pc[c] = "reply"
            /\ ChannelNewJob(c, k, w, activityCount - 1,
                      CheckIdle(idleId, blockRequests, activityCount - 1)),
         UNCHANGED <<autounmount, blockRequests, backendSource, checks>>
  PROVE  IdleIsArmed'
<1>0. /\ DataOK /\ activityCount \in Int /\ c \in JobIds
      /\ \A j \in Jobs : j \in JobIds /\ j # c
      /\ "reply" \in CountedPCs
  BY JobsAssumption DEF IInv, TypeOK, DataOK, JobIds, CountedPCs, PCs
<1>1. \A j \in Jobs : pc'[j] = pc[j]
  BY <1>0 DEF ChannelNewJob, QueueJob, DataOK
<1>2. CASE pc[c] = "unused"
  <2>1. CASE chst[c] = "active"
    <3>1. activityCount' = activityCount + 1
      BY <1>2, <2>1 DEF ChannelNewJob
    <3> QED BY <3>1, ArmedByActivity
  <2>2. CASE chst[c] # "active"
    <3>1. UNCHANGED <<activityCount, idleId>>
      BY <1>2, <2>2 DEF ChannelNewJob
    <3> QED BY <1>1, <3>1, ArmedKept
  <2> QED BY <2>1, <2>2
<1>3. CASE pc[c] = "reply"
  <2>1. CASE chst[c] = "active"
    <3>1. activityCount' = activityCount - 1 + 1
      BY <1>3, <2>1 DEF ChannelNewJob
    <3>2. ASSUME backendSource PROVE activityCount' # 0
      BY <1>0, <1>3, <3>1, <3>2, SourceCount
    <3> QED BY <3>2 DEF IdleIsArmed
  <2>2. CASE chst[c] # "active"
    <3>1. /\ activityCount' = activityCount - 1
          /\ idleId' = CheckIdle(idleId, blockRequests, activityCount')
      BY <1>3, <2>2 DEF ChannelNewJob
    <3> QED BY <3>1, ArmedByCheck
  <2> QED BY <2>1, <2>2
<1> QED BY <1>2, <1>3

(* Every step keeps an inactive backend armed. *)
LEMMA ArmedStep ==
  ASSUME IInv, IdleIsArmed, [Next]_vars PROVE IdleIsArmed'
<1>0. /\ DataOK /\ PoolInv
      /\ \A j \in Jobs : j \in JobIds /\ j \notin Channels
      /\ \A c \in Channels : c \in JobIds
      /\ {"run", "wait", "finish", "async", "reply"} \subseteq CountedPCs
  BY JobsAssumption DEF IInv, TypeOK, StructInv, JobIds, CountedPCs, PCs
<1>1. CASE MainStep
  <2>1. ASSUME NEW auto \in BOOLEAN, MountSucceeded(auto)
        PROVE  IdleIsArmed'
    BY <2>1 DEF MountSucceeded, IdleIsArmed
  <2>2. CASE MountFailed
    BY <2>2 DEF MountFailed, IdleIsArmed
  <2>3. CASE RegisterAccepted \/ RegisterMountCallback
    BY <2>3, ArmedKept DEF RegisterAccepted, RegisterMountCallback,
       backendVars, daemonVars, jobVars
  <2>4. ASSUME NEW j \in Jobs, NEW k \in {"op", "open"}, NEW w \in Ways,
               NewJob(j, k, w)
        PROVE  IdleIsArmed'
    BY <2>4, ArmedByActivity DEF NewJob, ActivityStarted, daemonVars
  <2>5. ASSUME NEW j \in Jobs, JobDoneMain(j)
        PROVE  IdleIsArmed'
    BY <2>5, ArmedByCheck DEF JobDoneMain, FinishOnMain
  <2>6. ASSUME NEW j \in Jobs, NEW c \in Channels, OpenDoneMain(j, c)
        PROVE  IdleIsArmed'
    BY <2>6, ArmedByCheck DEF OpenDoneMain
  <2>7. CASE ActivityCheckMain
    BY <2>7, ArmedByCheck DEF ActivityCheckMain
  <2> QED BY <1>1, <2>1, <2>2, <2>3, <2>4, <2>5, <2>6, <2>7 DEF MainStep
<1>2. CASE UnmountStep
  <2>1. ASSUME NEW j \in Jobs, NEW f \in BOOLEAN, NEW d \in BOOLEAN,
               NewUnmount(j, f, d)
        PROVE  IdleIsArmed'
    <3>1. UNCHANGED <<autounmount, backendSource>>
      BY <2>1 DEF NewUnmount, daemonVars
    <3>2. \/ ActivityStarted
          \/ /\ idleId' = CheckIdle(FALSE, FALSE, activityCount)
             /\ blockRequests = FALSE /\ UNCHANGED <<blockRequests, activityCount>>
      <4>1. blockRequests = FALSE
        BY <2>1 DEF NewUnmount, AcceptsRequests, IInv, TypeOK, FlagsOK
      <4> QED BY <2>1, <4>1 DEF NewUnmount
    <3>3. CASE ActivityStarted
      BY <3>1, <3>3, ArmedByActivity DEF ActivityStarted
    <3> QED BY <3>1, <3>2, <3>3, ArmedByCheck
  <2>2. ASSUME NEW j \in Jobs, ShowProcessesProceed(j)
        PROVE  IdleIsArmed'
    BY <2>2 DEF ShowProcessesProceed, ProceedUnmount, IdleIsArmed
  <2>3. ASSUME NEW j \in Jobs, ShowProcessesAbort(j)
        PROVE  IdleIsArmed'
    BY <2>3, ArmedByCheck DEF ShowProcessesAbort, FinishOnMain
  <2>4. CASE \/ \E j \in Jobs : UnregisterMountCallback(j)
             \/ ForcedUnregisterMountCallback
    BY <2>4 DEF UnregisterMountCallback, ForcedUnregisterMountCallback,
                CloseActiveChannels, IdleIsArmed
  <2>5. CASE BackendLost
    BY <2>5 DEF BackendLost, ForceUnmount, IdleIsArmed
  <2>7. CASE IdleUnmountCb
    <3>1. blockRequests'
      BY <2>7 DEF IdleUnmountCb, ForceUnmount
    <3> QED BY <3>1 DEF IdleIsArmed
  <2>6. CASE ExitAtIdle
    BY <2>6, ArmedKept DEF ExitAtIdle, backendVars, jobVars
  <2> QED BY <1>2, <2>1, <2>2, <2>3, <2>4, <2>5, <2>6, <2>7 DEF UnmountStep
<1>3. CASE StartRun
  <2>1. 1 \in DOMAIN pool /\ Head(pool) = pool[1]
    BY <1>0, <1>3 DEF StartRun, DataOK
  <2>2. pc[Head(pool)] = "pool"
    BY <1>0, <2>1 DEF PoolInv
  <2>3. pc' = [pc EXCEPT ![Head(pool)] = "run"]
    BY <1>3 DEF StartRun
  <2>4. \A j \in Jobs : pc[j] = "post" => pc'[j] = "post"
    BY <1>0, <2>2, <2>3 DEF DataOK
  <2> QED BY <1>3, <2>4, ArmedKept DEF StartRun, backendVars, daemonVars
<1>4. ASSUME NEW j \in Jobs, ThreadStep(j)
      PROVE  IdleIsArmed'
  <2>0. ASSUME NEW v, pc[j] # "post", pc' = [pc EXCEPT ![j] = v]
        PROVE  \A k \in Jobs : pc[k] = "post" => pc'[k] = "post"
    BY <1>0, <2>0 DEF DataOK
  <2>1. CASE RunJob(j) \/ RemoveJob(j)
    BY <2>0, <2>1, ArmedKept DEF RunJob, RemoveJob, backendVars, daemonVars
  <2>2. ASSUME NEW c \in Channels, RunOpen(j, c)
        PROVE  IdleIsArmed'
    BY <2>0, <2>2, ArmedKept DEF RunOpen, backendVars
  <2>3. CASE ChannelStarted(j) \/ PostCheck(j)
    <3>1. checks' > 0
      BY <1>0, <2>3 DEF ChannelStarted, PostCheck, DataOK
    <3> QED BY <3>1 DEF IdleIsArmed
  <2>4. CASE FinishThread(j)
    <3>1. pc'[j] = "post"
      BY <1>0, <2>4 DEF FinishThread, DataOK
    <3> QED BY <3>1 DEF IdleIsArmed
  <2>5. CASE RunUnmountSucceeded(j)
    BY <2>5 DEF RunUnmountSucceeded, IdleIsArmed
  <2>6. CASE RunUnmountFailed(j)
    <3>1. pc[j] \in CountedPCs /\ UNCHANGED <<activityCount, backendSource>>
      BY <1>0, <2>6 DEF RunUnmountFailed, daemonVars
    <3>2. ASSUME backendSource PROVE activityCount # 0
      BY <1>0, <3>1, <3>2, SourceCount
    <3> QED BY <3>1, <3>2 DEF IdleIsArmed
  <2> QED BY <1>4, <2>1, <2>2, <2>3, <2>4, <2>5, <2>6 DEF ThreadStep
<1>5. ASSUME NEW c \in Channels, ChannelStep(c)
      PROVE  IdleIsArmed'
  <2>1. ASSUME NEW r \in Requests, NEW w \in Ways, GotRequest(c, r, w)
        PROVE  IdleIsArmed'
    <3>1. UNCHANGED <<autounmount, blockRequests, backendSource, checks>>
      BY <2>1 DEF GotRequest, daemonVars
    <3>2. CASE pc[c] = "unused"
      <4>1. PICK k, v : /\ v \in {"reply", "async", "pool"}
                        /\ ChannelNewJob(c, k, v, activityCount, idleId)
        BY <2>1, <3>2 DEF GotRequest, StartRequest, Ways
      <4> QED BY <3>1, <3>2, <4>1, ArmedChannelJob
    <3>3. CASE pc[c] # "unused"
      BY <2>1, <3>1, <3>3, ArmedKept DEF GotRequest
    <3> QED BY <3>2, <3>3
  <2>2. CASE ClientDrop(c)
    BY <2>2, ArmedKept DEF ClientDrop, backendVars, daemonVars, jobVars
  <2>3. ASSUME NEW w \in Ways, ConnectionClosed(c, w)
        PROVE  IdleIsArmed'
    <3>1. UNCHANGED <<autounmount, blockRequests, backendSource, checks>>
      BY <2>3 DEF ConnectionClosed, daemonVars
    <3>2. CASE pc[c] = "unused" /\ ChannelNewJob(c, "close", w, activityCount, idleId)
      BY <3>1, <3>2, ArmedChannelJob DEF Ways
    <3>3. CASE UNCHANGED <<activityCount, idleId, kind, pc, pool>>
      BY <3>1, <3>3, ArmedKept
    <3> QED BY <2>3, <3>2, <3>3 DEF ConnectionClosed
  <2>4. CASE ChannelJobDone(c)
    <3>1. \A k \in Jobs : pc'[k] = pc[k]
      BY <1>0, <2>4 DEF ChannelJobDone, DataOK
    <3> QED BY <2>4, <3>1, ArmedKept DEF ChannelJobDone, backendVars, daemonVars
  <2>5. CASE SendReplyCbClose(c)
    BY <2>5, ArmedByCheck DEF SendReplyCbClose
  <2>6. ASSUME NEW f \in BOOLEAN, NEW ra \in BOOLEAN, NEW w \in Ways,
               SendReplyCb(c, f, ra, w)
        PROVE  IdleIsArmed'
    <3> DEFINE idle == CheckIdle(idleId, blockRequests, activityCount - 1)
    <3>1. /\ UNCHANGED <<autounmount, blockRequests, backendSource, checks>>
          /\ pc[c] = "reply"
      BY <2>6 DEF SendReplyCb, daemonVars
    <3>2. \/ \E k, v : /\ v \in {"reply", "async", "pool"}
                       /\ ChannelNewJob(c, k, v, activityCount - 1, idle)
          \/ activityCount' = activityCount - 1 /\ idleId' = idle
      BY <2>6 DEF SendReplyCb, StartRequest, Ways
    <3>3. ASSUME NEW k, NEW v, v \in {"reply", "async", "pool"},
                 ChannelNewJob(c, k, v, activityCount - 1, idle)
          PROVE  IdleIsArmed'
      BY <3>1, <3>3, ArmedChannelJob
    <3> QED BY <3>1, <3>2, <3>3, ArmedByCheck
  <2> QED BY <1>5, <2>1, <2>2, <2>3, <2>4, <2>5, <2>6 DEF ChannelStep
<1>6. CASE Exited \/ UNCHANGED vars
  BY <1>6, ArmedKept DEF Exited, vars, backendVars, daemonVars, jobVars
<1> QED BY <1>1, <1>2, <1>3, <1>4, <1>5, <1>6 DEF Next

(* No wake-up is lost: whatever order main loop and threads end activities *)
(* in, an inactive backend that accepts requests has its idle timer        *)
(* running or a check on its way that will start it                        *)
(* (g_vfs_backend_activity_finished, activity_check_main).                 *)
THEOREM IdleTimerArmed == Spec => []IdleIsArmed
<1>1. Init => IdleIsArmed
  BY DEF Init, IdleIsArmed
<1>2. IInv /\ IdleIsArmed /\ [Next]_vars => IdleIsArmed'
  BY ArmedStep
<1> QED BY <1>1, <1>2, Invariance, PTL DEF Spec
=============================================================================
