-------------------------- MODULE ReportJobsProofs --------------------------
(***************************************************************************)
(* Theorems about ReportJobs, for any set of jobs, owners, requests and    *)
(* limits.  Type correctness first; then every step is shown to move the   *)
(* rows in one of a few ways (RowStep), from which the invariants of the   *)
(* rows follow one by one; then the tasks; last, the queue of rows, leases *)
(* and tasks implements ReportService: every step, seen through Phase and  *)
(* Reports, is a step of the service or changes nothing there.             *)
(***************************************************************************)
EXTENDS ReportJobsService, FiniteSetTheorems, TLAPS

-----------------------------------------------------------------------------
(* Type correctness *)

LEMMA TypeInit == Init => TypeOK
  BY JobsAssumption DEF Init, TypeOK, Statuses, Errors, Places, Empty, NoTasks

LEMMA TypeRow ==
  ASSUME TypeOK, NEW j \in Jobs, NEW s \in Statuses, NEW e \in Errors, Release(j, s, e)
  PROVE  /\ status' \in [Jobs -> Statuses] /\ token' \in [Jobs -> Tokens \cup {0}]
         /\ live' \in [Jobs -> BOOLEAN] /\ error' \in [Jobs -> Errors]
  BY DEF TypeOK, Release

LEMMA TypeGoto ==
  ASSUME TypeOK, NEW j \in Jobs, NEW t \in Tokens, NEW p \in Places, Goto(j, t, p)
  PROVE  pc' \in [Jobs -> [Tokens -> Places]]
  BY DEF TypeOK, Goto

LEMMA TypeUnclaimed == ASSUME TypeOK PROVE Unclaimed \in [Jobs -> [Tokens -> Places]]
  BY DEF TypeOK, Unclaimed, Places

LEMMA TypeControls ==
  ASSUME TypeOK, NEW j \in Jobs, Controls(j) PROVE TypeOK'
  <1>1. CASE Prepare(j)
    BY <1>1 DEF TypeOK, Prepare, rowVars, taskVars
  <1>2. CASE AdmitPrepared(j)
    BY <1>2 DEF TypeOK, AdmitPrepared, taskVars, Statuses
  <1>3. CASE AdmitDropped(j)
    BY <1>3 DEF TypeOK, AdmitDropped, rowVars, taskVars
  <1>4. CASE Pause(j)
    <2>1. Release(j, "paused", "none") /\ CancelTask(j, token[j])
      BY <1>4 DEF Pause
    <2>2. pc' \in [Jobs -> [Tokens -> Places]]
      BY <2>1 DEF TypeOK, CancelTask, Places
    <2> QED
      BY <1>4, <2>1, <2>2, TypeRow DEF TypeOK, Pause, Statuses, Errors
  <1>5. CASE Resume(j)
    BY <1>5, TypeRow DEF TypeOK, Resume, Requeue, taskVars, Statuses, Errors
  <1>6. CASE Discard(j)
    BY <1>6 DEF TypeOK, Discard, taskVars, Statuses, Errors
  <1> QED
    BY <1>1, <1>2, <1>3, <1>4, <1>5, <1>6 DEF Controls

LEMMA TypeTick ==
  ASSUME TypeOK,
         TickPass \/ \E j \in Jobs : TickJob(j) \/ \E t \in Tokens : ClaimJob(j, t)
  PROVE  TypeOK'
  <1>1. CASE Reap
    BY <1>1 DEF TypeOK, Reap, rowVars, Places
  <1>2. CASE RecoverExpired
    BY <1>2 DEF TypeOK, RecoverExpired, Interruptions, taskVars, Statuses, Errors
  <1>3. CASE ReadQueue
    BY <1>3 DEF TypeOK, ReadQueue, FirstHeads, Heads, rowVars
  <1>4. CASE EndTick
    BY <1>4, TypeUnclaimed DEF TypeOK, EndTick, rowVars
  <1>5. ASSUME NEW j \in Jobs, TickJob(j) PROVE TypeOK'
    <2>1. CASE ResumeDue(j)
      BY <2>1, TypeRow DEF TypeOK, ResumeDue, Requeue, taskVars, Statuses, Errors
    <2>2. CASE StopWaiting(j)
      BY <2>2, TypeRow DEF TypeOK, StopWaiting, Stopped, taskVars, Statuses, Errors
    <2>3. CASE SkipListed(j)
      BY <2>3 DEF TypeOK, SkipListed, rowVars
    <2> QED
      BY <1>5, <2>1, <2>2, <2>3 DEF TickJob
  <1>6. ASSUME NEW j \in Jobs, NEW t \in Tokens, ClaimJob(j, t) PROVE TypeOK'
    <2>1. CASE Claim(j, t)
      BY <2>1, TypeGoto DEF TypeOK, Claim, ClaimRow, Statuses, Errors, Places
    <2>2. CASE StartTask(j, t)
      BY <2>2, TypeGoto DEF TypeOK, StartTask, rowVars, Places
    <2> QED
      BY <1>6, <2>1, <2>2 DEF ClaimJob
  <1> QED
    BY <1>1, <1>2, <1>3, <1>4, <1>5, <1>6 DEF TickPass

LEMMA TypeTask ==
  ASSUME TypeOK, NEW j \in Jobs, NEW t \in Tokens, TaskStep(j, t) PROVE TypeOK'
  <1>1. CASE WorkFails(j, t)
    BY <1>1, TypeGoto DEF TypeOK, WorkFails, rowVars, Places
  <1>2. CASE Publish(j, t)
    BY <1>2, TypeGoto, TypeRow DEF TypeOK, Publish, Final, Statuses, Errors, Places
  <1>3. CASE PauseStopped(j, t)
    <2>1. PICK o \in StopOutcomes(j) : Release(j, o[1], o[2])
      BY <1>3 DEF PauseStopped
    <2>2. o[1] \in Statuses /\ o[2] \in Errors
      BY DEF StopOutcomes, Statuses, Errors
    <2> QED
      BY <1>3, <2>1, <2>2, TypeGoto, TypeRow DEF TypeOK, PauseStopped, Places
  <1>4. CASE EndTask(j, t)
    BY <1>4, TypeGoto DEF TypeOK, EndTask, rowVars, Places
  <1> QED
    BY <1>1, <1>2, <1>3, <1>4 DEF TaskStep

LEMMA TypeStep == ASSUME TypeOK, [Next]_vars PROVE TypeOK'
  <1>1. ASSUME NEW j \in Jobs, LeaseExpires(j) PROVE TypeOK'
    BY <1>1 DEF TypeOK, LeaseExpires, taskVars
  <1>2. CASE Stop
    BY <1>2, TypeUnclaimed DEF TypeOK, Stop, rowVars, Places
  <1>3. CASE Start
    BY <1>3 DEF TypeOK, Start, rowVars, NoTasks, Empty, Places
  <1>4. CASE Crash
    BY <1>4 DEF TypeOK, Crash, rowVars, NoTasks, Empty, Places
  <1>5. CASE UNCHANGED vars
    BY <1>5 DEF TypeOK, vars, rowVars, taskVars
  <1> QED
    BY <1>1, <1>2, <1>3, <1>4, <1>5, TypeControls, TypeTick, TypeTask DEF Next

-----------------------------------------------------------------------------
(* What a step may do to the rows, forgetting the tasks and the error codes.  *)

Parked == {"queued", "paused", "failed"}

RowStep ==
  \/ UNCHANGED <<status, token, live, published>>
  \/ \E j \in Jobs : AdmitPrepared(j)
  \/ \E j \in Jobs, s \in Parked, e \in Errors :
       status[j] \in Open /\ Release(j, s, e) /\ UNCHANGED published
  \/ \E j \in Jobs, s \in Final :
       /\ status[j] = "running" /\ Release(j, s, "none")
       /\ published' = [published EXCEPT ![j] = @ + 1]
  \/ \E j \in Jobs : Discard(j)
  \/ RecoverExpired
  \/ \E j \in Jobs, t \in Tokens : ClaimRow(j, t) /\ UNCHANGED published
  \/ \E j \in Jobs : LeaseExpires(j)

LEMMA StepsRows == ASSUME [Next]_vars PROVE RowStep
  <1>1. ASSUME NEW j \in Jobs, Controls(j) PROVE RowStep
    <2>1. CASE Prepare(j) \/ AdmitDropped(j)
      BY <2>1 DEF RowStep, Prepare, AdmitDropped, rowVars
    <2>2. CASE AdmitPrepared(j)
      BY <2>2 DEF RowStep
    <2>3. CASE Pause(j)
      BY <2>3 DEF RowStep, Pause, Parked, Open, Active, Errors
    <2>4. CASE Resume(j)
      BY <2>4 DEF RowStep, Resume, Requeue, Parked, Open, Stopped, Errors
    <2>5. CASE Discard(j)
      BY <2>5 DEF RowStep
    <2> QED
      BY <1>1, <2>1, <2>2, <2>3, <2>4, <2>5 DEF Controls
  <1>2. ASSUME NEW j \in Jobs, TickJob(j) PROVE RowStep
    <2>1. CASE ResumeDue(j)
      BY <2>1 DEF RowStep, ResumeDue, Requeue, Parked, Open, Stopped, Errors
    <2>2. CASE StopWaiting(j)
      BY <2>2 DEF RowStep, StopWaiting, Parked, Open, Stopped, Errors
    <2>3. CASE SkipListed(j)
      BY <2>3 DEF RowStep, SkipListed, rowVars
    <2> QED
      BY <1>2, <2>1, <2>2, <2>3 DEF TickJob
  <1>3. ASSUME NEW j \in Jobs, NEW t \in Tokens, ClaimJob(j, t) PROVE RowStep
    BY <1>3 DEF RowStep, ClaimJob, Claim, StartTask, rowVars
  <1>4. ASSUME NEW j \in Jobs, NEW t \in Tokens, TaskStep(j, t) PROVE RowStep
    <2>1. CASE WorkFails(j, t) \/ EndTask(j, t)
      BY <2>1 DEF RowStep, WorkFails, EndTask, rowVars
    <2>2. CASE Publish(j, t)
      BY <2>2 DEF RowStep, Publish, Fence
    <2>3. CASE PauseStopped(j, t)
      <3>1. PICK o \in StopOutcomes(j) : Release(j, o[1], o[2])
        BY <2>3 DEF PauseStopped
      <3>2. o[1] \in Parked /\ o[2] \in Errors
        BY DEF StopOutcomes, Parked, Errors
      <3> QED
        BY <2>3, <3>1, <3>2 DEF RowStep, PauseStopped, OwnsRow, Open, Active
    <2> QED
      BY <1>4, <2>1, <2>2, <2>3 DEF TaskStep
  <1>5. CASE TickPass
    BY <1>5 DEF RowStep, TickPass, Reap, ReadQueue, EndTick, rowVars
  <1>6. CASE Stop \/ Start \/ Crash \/ UNCHANGED vars
    BY <1>6 DEF RowStep, Stop, Start, Crash, vars, rowVars
  <1> QED
    BY <1>1, <1>2, <1>3, <1>4, <1>5, <1>6 DEF Next, RowStep

-----------------------------------------------------------------------------
(* The rows *)

LEMMA LeaseStep ==
  ASSUME TypeOK, LeaseIffRunning, RowStep PROVE LeaseIffRunning'
  <1> USE DEF LeaseIffRunning, TypeOK
  <1>1. ASSUME NEW j \in Jobs, AdmitPrepared(j) PROVE LeaseIffRunning'
    BY <1>1, JobsAssumption DEF AdmitPrepared, StillNew, Submitted, SameRequest, Exists
  <1>2. ASSUME NEW j \in Jobs, NEW s \in Parked \cup Final, NEW e \in Errors, Release(j, s, e)
        PROVE  LeaseIffRunning'
    BY <1>2, JobsAssumption DEF Release, Parked, Final
  <1>3. ASSUME NEW j \in Jobs, Discard(j) PROVE LeaseIffRunning'
    BY <1>3, JobsAssumption DEF Discard, Stopped, Final
  <1>4. CASE RecoverExpired
    BY <1>4, JobsAssumption DEF RecoverExpired
  <1>5. ASSUME NEW j \in Jobs, NEW t \in Tokens, ClaimRow(j, t) PROVE LeaseIffRunning'
    BY <1>5, JobsAssumption DEF ClaimRow
  <1>6. ASSUME NEW j \in Jobs, LeaseExpires(j) PROVE LeaseIffRunning'
    BY <1>6 DEF LeaseExpires
  <1> QED
    BY <1>1, <1>2, <1>3, <1>4, <1>5, <1>6 DEF RowStep, Errors

LEMMA OneRunningStep ==
  ASSUME TypeOK, OneRunningPerOwner, RowStep PROVE OneRunningPerOwner'
  <1> USE DEF OneRunningPerOwner, TypeOK
  <1>1. ASSUME NEW j \in Jobs, NEW t \in Tokens, ClaimRow(j, t) PROVE OneRunningPerOwner'
    BY <1>1 DEF ClaimRow, RunningSibling, JobsOf
  <1>2. CASE ~ \E j \in Jobs, t \in Tokens : ClaimRow(j, t)
    <2>1. \A k \in Jobs : status'[k] = "running" => status[k] = "running"
      BY <1>2 DEF RowStep, AdmitPrepared, Release, Parked, Final, Discard, RecoverExpired,
                  LeaseExpires
    <2> QED
      BY <2>1
  <1> QED
    BY <1>1, <1>2

LEMMA OneJobStep ==
  ASSUME TypeOK, OneJobPerRequest, RowStep PROVE OneJobPerRequest'
  <1> USE DEF OneJobPerRequest, TypeOK, Exists
  <1>1. ASSUME NEW j \in Jobs, AdmitPrepared(j) PROVE OneJobPerRequest'
    BY <1>1 DEF AdmitPrepared, StillNew, Submitted, SameRequest
  <1>2. CASE ~ \E j \in Jobs : AdmitPrepared(j)
    <2>1. \A k \in Jobs : Exists(k)' => Exists(k)
      BY <1>2 DEF RowStep, Release, Open, Active, Stopped, Final, Discard, RecoverExpired,
                  ClaimRow, LeaseExpires
    <2> QED
      BY <2>1 DEF SameRequest
  <1> QED
    BY <1>1, <1>2

\* A candidate between its preparation and its admission has no row yet.
PreparedIsNew == \A j \in prepared : status[j] = "absent"

LEMMA PreparedStep ==
  ASSUME TypeOK, PreparedIsNew, [Next]_vars PROVE PreparedIsNew'
  <1> USE DEF PreparedIsNew, TypeOK
  <1>1. ASSUME NEW j \in Jobs, Prepare(j) PROVE PreparedIsNew'
    BY <1>1 DEF Prepare, rowVars
  <1>2. ASSUME NEW j \in Jobs, AdmitPrepared(j) PROVE PreparedIsNew'
    BY <1>2 DEF AdmitPrepared
  <1>3. ASSUME NEW j \in Jobs, AdmitDropped(j) PROVE PreparedIsNew'
    BY <1>3 DEF AdmitDropped, rowVars
  <1>4. CASE Crash
    BY <1>4 DEF Crash
  <1>5. CASE ~Crash /\ ~ \E j \in Jobs : Prepare(j) \/ AdmitPrepared(j) \/ AdmitDropped(j)
    <2>1. UNCHANGED prepared
      BY <1>5 DEF Next, Controls, Pause, Resume, Discard, Requeue, TickJob, ResumeDue, StopWaiting,
                  SkipListed, LeaseExpires, ClaimJob, Claim, StartTask, TaskStep, WorkFails,
                  Publish, PauseStopped, EndTask, TickPass, Reap, RecoverExpired, ReadQueue, EndTick,
                  Stop, Start, vars
    <2>2. \A k \in Jobs : status[k] = "absent" => status'[k] = "absent"
      BY <1>5, StepsRows DEF RowStep, Release, Open, Active, Stopped, Final, Discard,
                  RecoverExpired, ClaimRow, LeaseExpires
    <2> QED
      BY <2>1, <2>2
  <1> QED
    BY <1>1, <1>2, <1>3, <1>4, <1>5

LEMMA PublishedStep ==
  ASSUME TypeOK, PublishedOnce, PreparedIsNew, RowStep PROVE PublishedOnce'
  <1> USE DEF PublishedOnce, TypeOK, Final
  <1>1. ASSUME NEW j \in Jobs, AdmitPrepared(j) PROVE PublishedOnce'
    BY <1>1 DEF AdmitPrepared, PreparedIsNew
  <1>2. ASSUME NEW j \in Jobs, NEW s \in Parked, NEW e \in Errors,
               status[j] \in Open, Release(j, s, e), UNCHANGED published
        PROVE  PublishedOnce'
    BY <1>2 DEF Release, Parked, Open, Active, Stopped
  <1>3. ASSUME NEW j \in Jobs, NEW s \in Final, status[j] = "running", Release(j, s, "none"),
               published' = [published EXCEPT ![j] = @ + 1]
        PROVE  PublishedOnce'
    <2>1. published[j] = 0
      <3>1. published[j] # 1
        BY <1>3
      <3>2. published[j] \in Nat /\ published[j] <= 1
        OBVIOUS
      <3>3. \A n \in Nat : n <= 1 /\ n # 1 => n = 0
        OBVIOUS
      <3> QED
        BY <3>1, <3>2, <3>3
    <2>2. published'[j] = 1 /\ status'[j] \in Final
      BY <1>3, <2>1 DEF Release
    <2>3. \A k \in Jobs \ {j} : published'[k] = published[k] /\ status'[k] = status[k]
      BY <1>3 DEF Release
    <2> QED
      BY <2>2, <2>3
  <1>4. ASSUME NEW j \in Jobs, Discard(j) PROVE PublishedOnce'
    BY <1>4 DEF Discard, Stopped
  <1>5. CASE RecoverExpired
    BY <1>5 DEF RecoverExpired
  <1>6. ASSUME NEW j \in Jobs, NEW t \in Tokens, ClaimRow(j, t), UNCHANGED published
        PROVE  PublishedOnce'
    BY <1>6 DEF ClaimRow
  <1>7. ASSUME NEW j \in Jobs, LeaseExpires(j) PROVE PublishedOnce'
    BY <1>7 DEF LeaseExpires
  <1> QED
    BY <1>1, <1>2, <1>3, <1>4, <1>5, <1>6, <1>7 DEF RowStep

-----------------------------------------------------------------------------
(* The tasks *)

\* Half of EveryTaskHasSlot: a pause always finds the job's task.
TasksInSlots == \A j \in Jobs, t \in Tokens : Alive(j, t) => slot[j] = t

\* The tick claims one job at a time, and has room for its task.
ClaimsHaveRoom ==
  \A j \in Jobs, t \in Tokens : Claimed(j, t) =>
    /\ slot[j] = 0
    /\ \A k \in Jobs, u \in Tokens : Claimed(k, u) => k = j /\ u = t

LEMMA TasksStep ==
  ASSUME TypeOK, TasksInSlots, ClaimsHaveRoom, [Next]_vars
  PROVE  TasksInSlots' /\ ClaimsHaveRoom'
  <1> USE DEF TasksInSlots, ClaimsHaveRoom, TypeOK, Alive, Claimed
  <1>1. ASSUME NEW j \in Jobs, Pause(j) PROVE TasksInSlots' /\ ClaimsHaveRoom'
    BY <1>1 DEF Pause, CancelTask
  <1>2. CASE Reap
    BY <1>2 DEF Reap
  <1>3. ASSUME NEW j \in Jobs, NEW t \in Tokens, Claim(j, t)
        PROVE  TasksInSlots' /\ ClaimsHaveRoom'
    BY <1>3 DEF Claim, ClaimRow, HasSlot, NextListed, NoClaim, Goto
  <1>4. ASSUME NEW j \in Jobs, NEW t \in Tokens, StartTask(j, t)
        PROVE  TasksInSlots' /\ ClaimsHaveRoom'
    <2>1. \A u \in Tokens : ~Alive(j, u)
      BY <1>4, JobsAssumption DEF StartTask
    <2> QED
      BY <1>4, <2>1 DEF StartTask, Goto
  <1>5. ASSUME NEW j \in Jobs, NEW t \in Tokens, TaskStep(j, t)
        PROVE  TasksInSlots' /\ ClaimsHaveRoom'
    <2>1. Alive(j, t) /\ UNCHANGED slot /\ \E p \in {"ending", "done"} : Goto(j, t, p)
      BY <1>5 DEF TaskStep, WorkFails, Publish, PauseStopped, EndTask
    <2> QED
      BY <2>1 DEF Goto
  <1>6. CASE Stop
    BY <1>6 DEF Stop, Unclaimed
  <1>7. CASE EndTick
    BY <1>7 DEF EndTick, Unclaimed
  <1>8. CASE Start \/ Crash
    BY <1>8 DEF Start, Crash, NoTasks
  <1>9. CASE UNCHANGED <<pc, slot>>
    BY <1>9
  <1>10. CASE /\ ~ \E j \in Jobs : Pause(j)
              /\ ~ \E j \in Jobs, t \in Tokens : ClaimJob(j, t) \/ TaskStep(j, t)
              /\ ~(Reap \/ EndTick \/ Stop \/ Start \/ Crash)
    <2>1. UNCHANGED <<pc, slot>>
      BY <1>10 DEF Next, Controls, Prepare, AdmitPrepared, AdmitDropped, Resume, Discard, Requeue,
                   TickJob, ResumeDue, StopWaiting, SkipListed, LeaseExpires,
                   TickPass, RecoverExpired, ReadQueue, vars, taskVars
    <2> QED
      BY <2>1, <1>9
  <1> QED
    BY <1>1, <1>2, <1>3, <1>4, <1>5, <1>6, <1>7, <1>8, <1>10 DEF ClaimJob

-----------------------------------------------------------------------------
(* Counting *)

LEMMA FewerJobs ==
  ASSUME NEW S \in SUBSET Jobs, NEW T \in SUBSET S
  PROVE  /\ Cardinality(S) \in Nat /\ Cardinality(T) \in Nat
         /\ Cardinality(T) <= Cardinality(S)
  <1>1. IsFiniteSet(S)
    BY JobsAssumption, FS_Subset
  <1>2. IsFiniteSet(T)
    BY <1>1, FS_Subset
  <1> QED
    BY <1>1, <1>2, FS_Subset, FS_CardinalityType

LEMMA OneMoreJob ==
  ASSUME NEW S \in SUBSET Jobs, NEW j \in Jobs, NEW T \in SUBSET (S \cup {j}),
         NEW n \in Nat, Cardinality(S) < n
  PROVE  Cardinality(T) <= n
  <1>1. Cardinality(S) \in Nat
    BY FewerJobs
  <1>2. Cardinality(S \cup {j}) = IF j \in S THEN Cardinality(S) ELSE Cardinality(S) + 1
    <2>1. IsFiniteSet(S)
      BY JobsAssumption, FS_Subset
    <2> QED
      BY <2>1, FS_AddElement
  <1>3. Cardinality(T) \in Nat /\ Cardinality(T) <= Cardinality(S \cup {j})
    BY FewerJobs
  <1> QED
    BY <1>1, <1>2, <1>3

\* Only an admission adds to the unfinished jobs.
LEMMA OpenStep ==
  ASSUME TypeOK, OpenWithinLimit, RowStep PROVE OpenWithinLimit'
  <1>1. ASSUME NEW j \in Jobs, AdmitPrepared(j) PROVE OpenWithinLimit'
    <2>1. AllOpen' \subseteq AllOpen \cup {j}
      BY <1>1 DEF AdmitPrepared, AllOpen, TypeOK
    <2>2. Cardinality(AllOpen') <= MaxOpenGlobal
      <3>1. AllOpen \in SUBSET Jobs
        BY DEF AllOpen
      <3>2. Cardinality(AllOpen) < MaxOpenGlobal
        BY <1>1 DEF AdmitPrepared, HasRoom
      <3> QED
        BY <2>1, <3>1, <3>2, LimitsAssumption, OneMoreJob
    <2>3. ASSUME NEW o PROVE Cardinality(OpenOf(o)') <= MaxOpen \/ ~ \E k \in Jobs : OwnerOf[k] = o
      <3>1. OpenOf(o) \in SUBSET Jobs
        BY DEF OpenOf, JobsOf
      <3>2. CASE o = OwnerOf[j]
        <4>1. OpenOf(o)' \subseteq OpenOf(o) \cup {j}
          BY <1>1 DEF AdmitPrepared, OpenOf, JobsOf, TypeOK
        <4>2. Cardinality(OpenOf(o)) < MaxOpen
          BY <1>1, <3>2 DEF AdmitPrepared, HasRoom
        <4> QED
          BY <3>1, <4>1, <4>2, LimitsAssumption, OneMoreJob
      <3>3. CASE o # OwnerOf[j]
        <4>1. OpenOf(o)' = OpenOf(o)
          BY <1>1, <3>3 DEF AdmitPrepared, OpenOf, JobsOf, TypeOK
        <4> QED
          BY <4>1 DEF OpenWithinLimit
      <3> QED
        BY <3>2, <3>3
    <2>4. \A k \in Jobs : Cardinality(OpenOf(OwnerOf[k])') <= MaxOpen
      BY <2>3
    <2> QED
      BY <2>2, <2>4 DEF OpenWithinLimit
  <1>2. CASE ~ \E j \in Jobs : AdmitPrepared(j)
    <2>1. \A k \in Jobs : status'[k] \in Open => status[k] \in Open
      BY <1>2 DEF RowStep, TypeOK, Release, Parked, Open, Active, Stopped, Final, Discard,
                  RecoverExpired, ClaimRow, LeaseExpires
    <2>2. Cardinality(AllOpen') <= MaxOpenGlobal
      <3>1. AllOpen \in SUBSET Jobs /\ AllOpen' \in SUBSET AllOpen
        BY <2>1 DEF AllOpen
      <3>2. Cardinality(AllOpen) <= MaxOpenGlobal
        BY DEF OpenWithinLimit
      <3> QED
        BY <3>1, <3>2, LimitsAssumption, FewerJobs
    <2>3. ASSUME NEW k \in Jobs PROVE Cardinality(OpenOf(OwnerOf[k])') <= MaxOpen
      <3>1. OpenOf(OwnerOf[k]) \in SUBSET Jobs /\ OpenOf(OwnerOf[k])' \in SUBSET OpenOf(OwnerOf[k])
        BY <2>1 DEF OpenOf, JobsOf
      <3>2. Cardinality(OpenOf(OwnerOf[k])) <= MaxOpen
        BY DEF OpenWithinLimit
      <3> QED
        BY <3>1, <3>2, LimitsAssumption, FewerJobs
    <2> QED
      BY <2>2, <2>3 DEF OpenWithinLimit
  <1> QED
    BY <1>1, <1>2

\* The active jobs of an owner that no subscription edition has admitted, and the
\* limit for them.
OrdinaryActive(o) == {j \in ActiveOf(o) : j \notin EditionJobs}

OrdinaryWithinLimit == \A j \in Jobs : Cardinality(OrdinaryActive(OwnerOf[j])) <= MaxActive

\* The automatic retry is for editions, and whatever else queues a job has asked
\* for its owner's capacity.
LEMMA QueuesOne ==
  ASSUME TypeOK, [Next]_vars
  PROVE  \/ \A k \in Jobs \ EditionJobs : status'[k] \in Active => status[k] \in Active
         \/ \E j \in Jobs : /\ HasCapacity(OwnerOf[j])
                           /\ \A k \in Jobs \ {j} : status'[k] \in Active => status[k] \in Active
  <1> USE DEF TypeOK, Active
  <1>1. ASSUME NEW j \in Jobs, AdmitPrepared(j) \/ Resume(j)
        PROVE  /\ HasCapacity(OwnerOf[j])
               /\ \A k \in Jobs \ {j} : status'[k] \in Active => status[k] \in Active
    BY <1>1 DEF AdmitPrepared, Resume, Requeue, Release
  <1>2. CASE ~ \E j \in Jobs : AdmitPrepared(j) \/ Resume(j)
    <2>1. ASSUME NEW j \in Jobs, NEW t \in Tokens, ClaimJob(j, t) \/ TaskStep(j, t)
          PROVE  \A k \in Jobs : status'[k] \in Active => status[k] \in Active
      <3>1. CASE ClaimJob(j, t)
        BY <3>1 DEF ClaimJob, Claim, ClaimRow, StartTask, rowVars
      <3>2. CASE WorkFails(j, t) \/ EndTask(j, t)
        BY <3>2 DEF WorkFails, EndTask, rowVars
      <3>3. CASE Publish(j, t)
        <4>1. status[j] = "running" /\ \A k \in Jobs \ {j} : status'[k] = status[k]
          BY <3>3 DEF Publish, Fence, Release
        <4> QED
          BY <4>1
      <3>4. CASE PauseStopped(j, t)
        <4>1. status[j] = "running"
          BY <3>4 DEF PauseStopped, OwnsRow
        <4>2. \A k \in Jobs \ {j} : status'[k] = status[k]
          BY <3>4 DEF PauseStopped, Release
        <4> QED
          BY <4>1, <4>2
      <3> QED
        BY <2>1, <3>1, <3>2, <3>3, <3>4 DEF TaskStep
    <2>2. ASSUME NEW j \in Jobs, Controls(j) \/ TickJob(j) \/ LeaseExpires(j)
          PROVE  \A k \in Jobs \ EditionJobs : status'[k] \in Active => status[k] \in Active
      <3>1. CASE Controls(j)
        BY <1>2, <2>2, <3>1 DEF Controls, Prepare, AdmitDropped, Pause, Discard, Release, rowVars
      <3>2. CASE ResumeDue(j)
        <4>1. j \in EditionJobs /\ \A k \in Jobs \ {j} : status'[k] = status[k]
          BY <3>2 DEF ResumeDue, Requeue, Release
        <4> QED
          BY <4>1
      <3>3. CASE StopWaiting(j)
        BY <3>3 DEF StopWaiting, Release, Stopped, Final
      <3>4. CASE SkipListed(j) \/ LeaseExpires(j)
        BY <3>4 DEF SkipListed, LeaseExpires, rowVars
      <3> QED
        BY <2>2, <3>1, <3>2, <3>3, <3>4 DEF TickJob
    <2>3. CASE TickPass
      BY <2>3 DEF TickPass, Reap, RecoverExpired, ReadQueue, EndTick, rowVars
    <2>4. CASE Stop \/ Start \/ Crash \/ UNCHANGED vars
      BY <2>4 DEF Stop, Start, Crash, vars, rowVars
    <2> QED
      BY <2>1, <2>2, <2>3, <2>4 DEF Next
  <1> QED
    BY <1>1, <1>2

LEMMA ActiveStep ==
  ASSUME TypeOK, OrdinaryWithinLimit, [Next]_vars PROVE OrdinaryWithinLimit'
  <1>1. SUFFICES ASSUME NEW i \in Jobs
                 PROVE  Cardinality(OrdinaryActive(OwnerOf[i])') <= MaxActive
    BY DEF OrdinaryWithinLimit
  <1>2. /\ OrdinaryActive(OwnerOf[i]) \in SUBSET Jobs
        /\ Cardinality(OrdinaryActive(OwnerOf[i])) <= MaxActive
    BY DEF OrdinaryActive, ActiveOf, JobsOf, OrdinaryWithinLimit
  <1>3. CASE \A k \in Jobs \ EditionJobs : status'[k] \in Active => status[k] \in Active
    <2>1. OrdinaryActive(OwnerOf[i])' \in SUBSET OrdinaryActive(OwnerOf[i])
      BY <1>3 DEF OrdinaryActive, ActiveOf, JobsOf
    <2> QED
      BY <1>2, <2>1, LimitsAssumption, FewerJobs
  <1>4. ASSUME NEW j \in Jobs, HasCapacity(OwnerOf[j]),
               \A k \in Jobs \ {j} : status'[k] \in Active => status[k] \in Active
        PROVE  Cardinality(OrdinaryActive(OwnerOf[i])') <= MaxActive
    <2>1. CASE OwnerOf[j] = OwnerOf[i]
      <3>1. OrdinaryActive(OwnerOf[i])' \in SUBSET (ActiveOf(OwnerOf[i]) \cup {j})
        BY <1>4 DEF OrdinaryActive, ActiveOf, JobsOf
      <3>2. Cardinality(ActiveOf(OwnerOf[i])) < MaxActive
        BY <1>4, <2>1 DEF HasCapacity
      <3>3. ActiveOf(OwnerOf[i]) \in SUBSET Jobs
        BY DEF ActiveOf, JobsOf
      <3> QED
        BY <3>1, <3>2, <3>3, LimitsAssumption, OneMoreJob
    <2>2. CASE OwnerOf[j] # OwnerOf[i]
      <3>1. OrdinaryActive(OwnerOf[i])' \in SUBSET OrdinaryActive(OwnerOf[i])
        BY <1>4, <2>2 DEF OrdinaryActive, ActiveOf, JobsOf
      <3> QED
        BY <1>2, <3>1, LimitsAssumption, FewerJobs
    <2> QED
      BY <2>1, <2>2
  <1> QED
    BY <1>3, <1>4, QueuesOne

\* The other half of EveryTaskHasSlot: the places of _running, among them one for
\* the task of a claim that has just committed.
SlotsWithinLimit ==
  /\ Cardinality(Busy) <= Concurrency
  /\ ~NoClaim => Cardinality(Busy) < Concurrency

LEMMA SlotsStep ==
  ASSUME TypeOK, ClaimsHaveRoom, SlotsWithinLimit, [Next]_vars PROVE SlotsWithinLimit'
  <1>1. Busy \in SUBSET Jobs /\ Cardinality(Busy) <= Concurrency /\ Concurrency \in Nat
    BY LimitsAssumption DEF SlotsWithinLimit, Busy
  <1>2. ASSUME NEW j \in Jobs, NEW t \in Tokens, Claim(j, t) PROVE SlotsWithinLimit'
    <2>1. Busy' = Busy /\ Cardinality(Busy) < Concurrency
      BY <1>2 DEF Claim, ClaimRow, HasSlot, Busy
    <2> QED
      BY <1>1, <2>1 DEF SlotsWithinLimit
  <1>3. ASSUME NEW j \in Jobs, NEW t \in Tokens, StartTask(j, t) PROVE SlotsWithinLimit'
    <2>1. Cardinality(Busy) < Concurrency
      BY <1>3 DEF SlotsWithinLimit, NoClaim, StartTask
    <2>2. Busy' \in SUBSET (Busy \cup {j})
      BY <1>3 DEF StartTask, Busy, TypeOK
    <2>3. NoClaim'
      BY <1>3 DEF ClaimsHaveRoom, NoClaim, StartTask, Goto, Claimed, TypeOK
    <2> QED
      BY <1>1, <2>1, <2>2, <2>3, OneMoreJob DEF SlotsWithinLimit
  <1>4. CASE ~ \E j \in Jobs, t \in Tokens : ClaimJob(j, t)
    <2>1. Busy' \in SUBSET Busy /\ (NoClaim => NoClaim')
      <3> USE DEF Busy, NoClaim, Claimed, TypeOK
      <3>1. CASE Reap
        BY <3>1 DEF Reap
      <3>2. ASSUME NEW j \in Jobs, Pause(j) PROVE Busy' \in SUBSET Busy /\ (NoClaim => NoClaim')
        BY <3>2 DEF Pause, CancelTask
      <3>3. ASSUME NEW j \in Jobs, NEW t \in Tokens, TaskStep(j, t)
            PROVE  Busy' \in SUBSET Busy /\ (NoClaim => NoClaim')
        <4>1. UNCHANGED slot /\ \E p \in {"ending", "done"} : Goto(j, t, p)
          BY <3>3 DEF TaskStep, WorkFails, Publish, PauseStopped, EndTask
        <4> QED
          BY <4>1 DEF Goto
      <3>4. CASE Stop \/ EndTick
        BY <3>4 DEF Stop, EndTick, Unclaimed
      <3>5. CASE Start \/ Crash
        BY <3>5 DEF Start, Crash, NoTasks, Empty
      <3>6. CASE UNCHANGED <<pc, slot>>
        BY <3>6
      <3>7. CASE /\ ~ \E j \in Jobs : Pause(j)
                 /\ ~ \E j \in Jobs, t \in Tokens : TaskStep(j, t)
                 /\ ~(Reap \/ EndTick \/ Stop \/ Start \/ Crash)
        <4>1. UNCHANGED <<pc, slot>>
          BY <1>4, <3>7
          DEF Next, Controls, Prepare, AdmitPrepared, AdmitDropped, Resume, Discard, Requeue,
              TickJob, ResumeDue, StopWaiting, SkipListed, LeaseExpires, TickPass,
              RecoverExpired, ReadQueue, vars, taskVars
        <4> QED
          BY <4>1, <3>6
      <3> QED
        BY <3>1, <3>2, <3>3, <3>4, <3>5, <3>7
    <2>2. Cardinality(Busy') \in Nat /\ Cardinality(Busy) \in Nat
          /\ Cardinality(Busy') <= Cardinality(Busy)
      BY <1>1, <2>1, FewerJobs
    <2> QED
      BY <1>1, <2>1, <2>2 DEF SlotsWithinLimit
  <1> QED
    BY <1>2, <1>3, <1>4 DEF ClaimJob

LEMMA TasksCounted ==
  ASSUME TypeOK, TasksInSlots, SlotsWithinLimit PROVE EveryTaskHasSlot
  <1> DEFINE f == [jt \in AliveTasks |-> jt[1]]
  <1>1. ASSUME NEW jt \in AliveTasks
        PROVE  jt = <<jt[1], jt[2]>> /\ jt[1] \in Busy /\ slot[jt[1]] = jt[2]
    <2>1. jt \in Jobs \X Tokens /\ Alive(jt[1], jt[2])
      BY DEF AliveTasks
    <2>2. jt = <<jt[1], jt[2]>> /\ jt[1] \in Jobs /\ jt[2] \in Tokens
      BY <2>1
    <2>3. slot[jt[1]] = jt[2] /\ jt[2] # 0
      BY <2>1, <2>2, JobsAssumption DEF TasksInSlots
    <2> QED
      BY <2>2, <2>3 DEF Busy
  <1>2. f \in Injection(AliveTasks, Busy)
    <2>1. f \in [AliveTasks -> Busy]
      BY <1>1
    <2>2. ASSUME NEW a \in AliveTasks, NEW b \in AliveTasks, f[a] = f[b] PROVE a = b
      BY <1>1, <2>2
    <2> QED
      BY <2>1, <2>2 DEF Injection, IsInjective
  <1> HIDE DEF f
  <1>3. Busy \in SUBSET Jobs /\ IsFiniteSet(Busy)
    BY JobsAssumption, FS_Subset DEF Busy
  <1>4. IsFiniteSet(AliveTasks) /\ Cardinality(AliveTasks) <= Cardinality(Busy)
    BY <1>2, <1>3, FS_Injection
  <1>5. Cardinality(AliveTasks) \in Nat /\ Cardinality(Busy) \in Nat
    BY <1>3, <1>4, FS_CardinalityType
  <1> QED
    BY <1>4, <1>5, LimitsAssumption DEF EveryTaskHasSlot, TasksInSlots, SlotsWithinLimit

-----------------------------------------------------------------------------
(* The life cycle *)

LEMMA OnlyMoves ==
  ASSUME TypeOK, NEW j \in Jobs, NEW s,
         status' = [status EXCEPT ![j] = s], s # status[j] => <<status[j], s>> \in Moves
  PROVE  MovesAlong
  BY DEF MovesAlong, TypeOK

LEMMA LifeStep == ASSUME TypeOK, PreparedIsNew, [Next]_vars PROVE MovesAlong
  <1>1. ASSUME NEW j \in Jobs, Controls(j) PROVE MovesAlong
    <2>1. CASE Prepare(j) \/ AdmitDropped(j)
      BY <2>1 DEF Prepare, AdmitDropped, rowVars, MovesAlong
    <2>2. CASE AdmitPrepared(j)
      BY <2>2, OnlyMoves DEF AdmitPrepared, PreparedIsNew, Moves
    <2>3. CASE Pause(j)
      BY <2>3, OnlyMoves DEF Pause, Release, Moves
    <2>4. CASE Resume(j)
      BY <2>4, OnlyMoves DEF Resume, Requeue, Release, Moves
    <2>5. CASE Discard(j)
      BY <2>5, OnlyMoves DEF Discard, Moves
    <2> QED
      BY <1>1, <2>1, <2>2, <2>3, <2>4, <2>5 DEF Controls
  <1>2. ASSUME NEW j \in Jobs, TickJob(j) PROVE MovesAlong
    <2>1. CASE ResumeDue(j)
      BY <2>1, OnlyMoves DEF ResumeDue, Requeue, Release, Moves
    <2>2. CASE StopWaiting(j)
      BY <2>2, OnlyMoves DEF StopWaiting, Release, Stopped, Moves
    <2>3. CASE SkipListed(j)
      BY <2>3 DEF SkipListed, rowVars, MovesAlong
    <2> QED
      BY <1>2, <2>1, <2>2, <2>3 DEF TickJob
  <1>3. ASSUME NEW j \in Jobs, NEW t \in Tokens, ClaimJob(j, t) PROVE MovesAlong
    <2>1. CASE Claim(j, t)
      BY <2>1, OnlyMoves DEF Claim, ClaimRow, Moves
    <2>2. CASE StartTask(j, t)
      BY <2>2 DEF StartTask, rowVars, MovesAlong
    <2> QED
      BY <1>3, <2>1, <2>2 DEF ClaimJob
  <1>4. ASSUME NEW j \in Jobs, NEW t \in Tokens, TaskStep(j, t) PROVE MovesAlong
    <2>1. CASE WorkFails(j, t) \/ EndTask(j, t)
      BY <2>1 DEF WorkFails, EndTask, rowVars, MovesAlong
    <2>2. CASE Publish(j, t)
      <3>1. PICK s \in Final : Release(j, s, "none")
        BY <2>2 DEF Publish
      <3>2. <<status[j], s>> \in Moves
        BY <2>2 DEF Publish, Fence, Moves
      <3> QED
        BY <3>1, <3>2, OnlyMoves DEF Release
    <2>3. CASE PauseStopped(j, t)
      <3>1. PICK o \in StopOutcomes(j) : Release(j, o[1], o[2])
        BY <2>3 DEF PauseStopped
      <3>2. status[j] = "running" /\ o[1] \in {"paused", "failed"}
        BY <2>3 DEF PauseStopped, OwnsRow, StopOutcomes
      <3>3. <<status[j], o[1]>> \in Moves
        BY <3>2 DEF Moves, Active
      <3> QED
        BY <3>1, <3>3, OnlyMoves DEF Release
    <2> QED
      BY <1>4, <2>1, <2>2, <2>3 DEF TaskStep
  <1>5. CASE RecoverExpired
    BY <1>5 DEF RecoverExpired, MovesAlong, Moves, Active, TypeOK
  <1>6. CASE Reap \/ ReadQueue \/ EndTick \/ Stop \/ Start \/ Crash \/ UNCHANGED vars
    BY <1>6 DEF Reap, ReadQueue, EndTick, Stop, Start, Crash, vars, rowVars, MovesAlong
  <1>7. ASSUME NEW j \in Jobs, LeaseExpires(j) PROVE MovesAlong
    BY <1>7 DEF LeaseExpires, MovesAlong
  <1> QED
    BY <1>1, <1>2, <1>3, <1>4, <1>5, <1>6, <1>7 DEF Next, TickPass

-----------------------------------------------------------------------------
(* The theorems *)

\* The inductive invariant: the invariants of the rows and of the tasks, with the
\* types, PreparedIsNew, on which PublishedOnce rests, and ClaimsHaveRoom, on
\* which those of the tasks rest.
Inv ==
  /\ TypeOK /\ PreparedIsNew
  /\ LeaseIffRunning /\ OneRunningPerOwner /\ OneJobPerRequest /\ PublishedOnce
  /\ OpenWithinLimit
  /\ TasksInSlots /\ ClaimsHaveRoom /\ SlotsWithinLimit

LEMMA InvInit == Init => Inv
  <1> SUFFICES ASSUME Init PROVE Inv
    OBVIOUS
  <1>1. OpenWithinLimit
    <2>1. AllOpen = {} /\ \A o : OpenOf(o) = {}
      BY DEF Init, AllOpen, OpenOf, JobsOf, Open, Active, Stopped
    <2> QED
      BY <2>1, LimitsAssumption, FS_EmptySet DEF OpenWithinLimit
  <1>2. SlotsWithinLimit
    <2>1. Busy = {}
      BY DEF Init, Busy, Empty
    <2> QED
      BY <2>1, LimitsAssumption, FS_EmptySet DEF SlotsWithinLimit
  <1> QED
    BY <1>1, <1>2, TypeInit, JobsAssumption
    DEF Init, Inv, PreparedIsNew, LeaseIffRunning, OneRunningPerOwner, OneJobPerRequest,
        PublishedOnce, TasksInSlots, ClaimsHaveRoom, Claimed, Exists, Alive, NoTasks, Empty, Final

LEMMA InvStep == Inv /\ [Next]_vars => Inv'
  <1> SUFFICES ASSUME Inv, [Next]_vars PROVE Inv'
    OBVIOUS
  <1>1. RowStep
    BY StepsRows
  <1>2. TypeOK'
    BY TypeStep DEF Inv
  <1> QED
    BY <1>1, <1>2, PreparedStep, LeaseStep, OneRunningStep, OneJobStep, PublishedStep, OpenStep,
       TasksStep, SlotsStep
    DEF Inv

LEMMA InvCorrect == Spec => []Inv
  BY InvInit, InvStep, PTL DEF Spec

\* The row of an edition's job is never discarded.
EditionJobsKept == \A j \in EditionJobs : status[j] # "discarded"

LEMMA EditionJobsCorrect == Spec => []EditionJobsKept
  <1>1. Init => EditionJobsKept
    BY JobsAssumption DEF Init, EditionJobsKept
  <1>2. TypeOK /\ EditionJobsKept /\ [Next]_vars => EditionJobsKept'
    <2> SUFFICES ASSUME TypeOK, EditionJobsKept, RowStep PROVE EditionJobsKept'
      BY StepsRows
    <2> USE JobsAssumption DEF TypeOK, EditionJobsKept
    <2>1. ASSUME NEW j \in Jobs, AdmitPrepared(j) PROVE EditionJobsKept'
      BY <2>1 DEF AdmitPrepared
    <2>2. ASSUME NEW j \in Jobs, NEW s \in Parked \cup Final, NEW e, Release(j, s, e)
          PROVE  EditionJobsKept'
      BY <2>2 DEF Release, Parked, Final
    <2>3. ASSUME NEW j \in Jobs, Discard(j) PROVE EditionJobsKept'
      BY <2>3 DEF Discard
    <2>4. CASE RecoverExpired
      BY <2>4 DEF RecoverExpired
    <2>5. ASSUME NEW j \in Jobs, NEW t \in Tokens, ClaimRow(j, t) PROVE EditionJobsKept'
      BY <2>5 DEF ClaimRow
    <2>6. ASSUME NEW j \in Jobs, LeaseExpires(j) PROVE EditionJobsKept'
      BY <2>6 DEF LeaseExpires
    <2>7. CASE UNCHANGED status
      BY <2>7
    <2> QED
      BY <2>1, <2>2, <2>3, <2>4, <2>5, <2>6, <2>7 DEF RowStep
  <1>3. Inv => TypeOK
    BY DEF Inv
  <1> QED
    BY <1>1, <1>2, <1>3, InvCorrect, PTL DEF Spec

\* Every step keeps the types, the worker's restarts included.
THEOREM TypeCorrect == Spec => []TypeOK
  <1>1. Inv => TypeOK
    BY DEF Inv
  <1> QED
    BY <1>1, InvCorrect, PTL

\* A row holds a lease exactly while it runs.
THEOREM LeaseCorrect == Spec => []LeaseIffRunning
  <1>1. Inv => LeaseIffRunning
    BY DEF Inv
  <1> QED
    BY <1>1, InvCorrect, PTL

\* No two jobs of one owner ever run at once, for any number of jobs, owners,
\* tokens and restarts.
THEOREM OneRunningCorrect == Spec => []OneRunningPerOwner
  <1>1. Inv => OneRunningPerOwner
    BY DEF Inv
  <1> QED
    BY <1>1, InvCorrect, PTL

\* However often a browser sends a request, it has at most one job.
THEOREM OneJobCorrect == Spec => []OneJobPerRequest
  <1>1. Inv => OneJobPerRequest
    BY DEF Inv
  <1> QED
    BY <1>1, InvCorrect, PTL

\* A job publishes at most once, and is finished exactly when it has published.
THEOREM PublishedCorrect == Spec => []PublishedOnce
  <1>1. Inv => PublishedOnce
    BY DEF Inv
  <1> QED
    BY <1>1, InvCorrect, PTL

\* One request, one job, one report, for every number of copies and attempts.
THEOREM OneReportCorrect == Spec => []OneReportPerRequest
  <1>1. OneJobPerRequest /\ PublishedOnce => OneReportPerRequest
    BY DEF OneReportPerRequest
  <1> QED
    BY <1>1, OneJobCorrect, PublishedCorrect, PTL

\* The retained limits hold for every number of owners and jobs: nothing but an
\* admission, under the administration lock, adds an unfinished job.
THEOREM OpenCorrect == Spec => []OpenWithinLimit
  <1>1. Inv => OpenWithinLimit
    BY DEF Inv
  <1> QED
    BY <1>1, InvCorrect, PTL

\* Whatever the automatic retries of editions do, the active jobs of an owner that
\* belong to no edition stay within the active limit: only editions ever exceed it.
THEOREM OrdinaryCorrect == Spec => []OrdinaryWithinLimit
  <1>1. Init => OrdinaryWithinLimit
    <2> SUFFICES ASSUME Init PROVE OrdinaryWithinLimit
      OBVIOUS
    <2>1. \A o : OrdinaryActive(o) = {}
      BY DEF Init, OrdinaryActive, ActiveOf, JobsOf, Active
    <2> QED
      BY <2>1, LimitsAssumption, FS_EmptySet DEF OrdinaryWithinLimit
  <1>2. Inv /\ OrdinaryWithinLimit /\ [Next]_vars => OrdinaryWithinLimit'
    BY ActiveStep DEF Inv
  <1> QED
    BY <1>1, <1>2, InvCorrect, PTL DEF Spec

\* Where no job belongs to a subscription edition the active limit holds; with
\* one, an automatic retry breaks it.
THEOREM ActiveCorrect == EditionJobs = {} => (Spec => []ActiveWithinLimit)
  <1> SUFFICES ASSUME EditionJobs = {} PROVE Spec => []ActiveWithinLimit
    OBVIOUS
  <1>1. OrdinaryWithinLimit => ActiveWithinLimit
    <2>1. \A o : OrdinaryActive(o) = ActiveOf(o)
      BY DEF OrdinaryActive
    <2> QED
      BY <2>1 DEF OrdinaryWithinLimit, ActiveWithinLimit
  <1> QED
    BY <1>1, OrdinaryCorrect, PTL

\* A pause always finds the task of the job it stops, and the worker never has
\* more tasks than places, whatever becomes of leases between claim and start.
THEOREM TasksCorrect == Spec => []EveryTaskHasSlot
  <1>1. Inv => EveryTaskHasSlot
    BY TasksCounted DEF Inv
  <1> QED
    BY <1>1, InvCorrect, PTL

\* A row only moves along its life cycle: no task, control or recovery that acts
\* on what it saw earlier reopens or finishes a job out of turn.
THEOREM LifeCorrect == Spec => LifeCycle
  <1>1. Inv /\ [Next]_vars => MovesAlong
    BY LifeStep DEF Inv
  <1> QED
    BY <1>1, InvCorrect, PTL DEF Spec, LifeCycle

-----------------------------------------------------------------------------
(* The phase of a request *)

LEMMA PhaseValues ==
  /\ PhaseOf["queued"] = "waiting" /\ PhaseOf["running"] = "running"
  /\ PhaseOf["paused"] = "stopped" /\ PhaseOf["failed"] = "stopped"
  /\ PhaseOf["completed"] = "reported" /\ PhaseOf["needs_review"] = "reported"
  /\ PhaseOf["absent"] = "none" /\ PhaseOf["discarded"] = "none"
  BY DEF PhaseOf, Statuses, Stopped, Final

\* One row at most, so CHOOSE has no choice.
LEMMA PhaseAtRow ==
  ASSUME TypeOK, OneJobPerRequest, NEW j \in Jobs, Exists(j)
  PROVE  RowsOf(RequestOf(j)) = {j} /\ Phase[RequestOf(j)] = PhaseOf[status[j]]
  <1>1. RowsOf(RequestOf(j)) = {j}
    BY DEF RowsOf, RequestOf, OneJobPerRequest, SameRequest
  <1>2. RequestOf(j) \in Requests
    BY DEF Requests
  <1>3. (CHOOSE i \in {j} : TRUE) = j
    OBVIOUS
  <1> QED
    BY <1>1, <1>2, <1>3 DEF Phase

LEMMA PhaseWithoutRow ==
  ASSUME NEW r \in Requests, RowsOf(r) = {} PROVE Phase[r] = "none"
  BY DEF Phase

LEMMA PhaseOfRow ==
  ASSUME TypeOK, OneJobPerRequest, NEW j \in Jobs, Exists(j) \/ ~Submitted(j)
  PROVE  Phase[RequestOf(j)] = PhaseOf[status[j]]
  <1>1. CASE Exists(j)
    BY <1>1, PhaseAtRow
  <1>2. CASE ~Exists(j) /\ ~Submitted(j)
    <2>1. RowsOf(RequestOf(j)) = {} /\ RequestOf(j) \in Requests
      BY <1>2 DEF RowsOf, RequestOf, Requests, Submitted, SameRequest
    <2>2. status[j] \in {"absent", "discarded"}
      BY <1>2 DEF Exists
    <2> QED
      BY <2>1, <2>2, PhaseWithoutRow, PhaseValues
  <1> QED
    BY <1>1, <1>2

\* A request that is waiting, running, stopped or reported has a row there.
LEMMA RowAtPhase ==
  ASSUME TypeOK, OneJobPerRequest, NEW r \in Requests, Phase[r] # "none"
  PROVE  \E j \in Jobs : Exists(j) /\ RequestOf(j) = r /\ Phase[r] = PhaseOf[status[j]]
  <1>1. PICK j \in RowsOf(r) : TRUE
    BY PhaseWithoutRow
  <1>2. j \in Jobs /\ RequestOf(j) = r /\ Exists(j)
    BY <1>1 DEF RowsOf
  <1> QED
    BY <1>2, PhaseAtRow

LEMMA PhaseSteady == ASSUME UNCHANGED status PROVE Phase' = Phase
  <1>1. ASSUME NEW r \in Requests PROVE Phase'[r] = Phase[r]
    <2>1. RowsOf(r)' = RowsOf(r)
      BY DEF RowsOf, Exists
    <2> QED
      BY <2>1 DEF Phase
  <1>2. Phase = [r \in Requests |-> Phase[r]] /\ Phase' = [r \in Requests |-> Phase'[r]]
    BY DEF Phase
  <1> QED
    BY <1>1, <1>2

\* A step of one row moves its request and no other.
LEMMA PhaseMoves ==
  ASSUME TypeOK, OneJobPerRequest, TypeOK', OneJobPerRequest',
         NEW j \in Jobs, Exists(j) \/ ~Submitted(j),
         \A k \in Jobs \ {j} : status'[k] = status[k]
  PROVE  Phase' = [Phase EXCEPT ![RequestOf(j)] = PhaseOf[status'[j]]]
  <1>1. ASSUME NEW r \in Requests, r # RequestOf(j) PROVE Phase'[r] = Phase[r]
    <2>1. RowsOf(r)' = RowsOf(r) /\ j \notin RowsOf(r)
      BY <1>1 DEF RowsOf, Exists
    <2>2. CASE RowsOf(r) = {}
      BY <2>1, <2>2 DEF Phase
    <2>3. CASE RowsOf(r) # {}
      <3>1. (CHOOSE i \in RowsOf(r) : TRUE) \in RowsOf(r)
        BY <2>3
      <3>2. (CHOOSE i \in RowsOf(r) : TRUE) \in Jobs \ {j}
        BY <2>1, <3>1 DEF RowsOf
      <3> QED
        BY <2>1, <2>3, <3>2 DEF Phase
    <2> QED
      BY <2>2, <2>3
  <1>2. Phase'[RequestOf(j)] = PhaseOf[status'[j]]
    <2>1. Exists(j)' \/ ~Submitted(j)'
      BY DEF Submitted, SameRequest, OneJobPerRequest, Exists
    <2>2. CASE Exists(j)'
      <3>1. RowsOf(RequestOf(j))' = {j} /\ RequestOf(j) \in Requests
        BY <2>2 DEF RowsOf, RequestOf, Requests, OneJobPerRequest, SameRequest
      <3>2. (CHOOSE i \in {j} : TRUE) = j
        OBVIOUS
      <3> QED
        BY <3>1, <3>2 DEF Phase
    <2>3. CASE ~Exists(j)'
      <3>1. RowsOf(RequestOf(j))' = {} /\ RequestOf(j) \in Requests
        BY <2>1, <2>3 DEF RowsOf, RequestOf, Requests, Submitted, SameRequest, Exists
      <3>2. status'[j] \in {"absent", "discarded"}
        BY <2>3 DEF Exists
      <3>3. PhaseOf[status'[j]] = "none"
        BY <3>2, PhaseValues
      <3> QED
        BY <3>1, <3>3 DEF Phase
    <2> QED
      BY <2>2, <2>3
  <1>3. Phase = [r \in Requests |-> Phase[r]] /\ Phase' = [r \in Requests |-> Phase'[r]]
    BY DEF Phase
  <1> QED
    BY <1>1, <1>2, <1>3

-----------------------------------------------------------------------------
(* The reports of a request *)

LEMMA DeliveredFinite ==
  ASSUME TypeOK, PublishedOnce, NEW r
  PROVE  IsFiniteSet(Delivered(r)) /\ Cardinality(Delivered(r)) \in Nat
  <1>1. \A k \in Jobs : published[k] \in Nat /\ published[k] <= 1
    BY DEF TypeOK, PublishedOnce
  <1>2. \A k \in Jobs : 1..published[k] \subseteq {1}
    BY <1>1
  <1>3. Delivered(r) \in SUBSET (Jobs \X {1})
    BY <1>2 DEF Delivered
  <1>4. IsFiniteSet(Jobs \X {1})
    BY JobsAssumption, FS_Singleton, FS_Product
  <1> QED
    BY <1>3, <1>4, FS_Subset, FS_CardinalityType

LEMMA ReportsSteady == ASSUME UNCHANGED published PROVE Reports' = Reports
  <1>1. \A r : Delivered(r)' = Delivered(r)
    BY DEF Delivered
  <1> QED
    BY <1>1 DEF Reports

LEMMA ReportsGrow ==
  ASSUME TypeOK, PublishedOnce, NEW j \in Jobs, published[j] = 0,
         published' = [published EXCEPT ![j] = @ + 1]
  PROVE  Reports' = [Reports EXCEPT ![RequestOf(j)] = @ + 1]
  <1>1. published'[j] = 1 /\ \A k \in Jobs \ {j} : published'[k] = published[k]
    BY DEF TypeOK
  <1>2. 1..published[j] = {} /\ 1..published'[j] = {1}
    BY <1>1
  <1>3. ASSUME NEW r \in Requests, r # RequestOf(j) PROVE Reports'[r] = Reports[r]
    <2>1. Delivered(r)' = Delivered(r)
      BY <1>1, <1>3 DEF Delivered
    <2> QED
      BY <2>1 DEF Reports
  <1>4. Reports'[RequestOf(j)] = Reports[RequestOf(j)] + 1
    <2> DEFINE r == RequestOf(j)
    <2>1. Delivered(r)' = Delivered(r) \cup {<<j, 1>>}
      <3>1. ASSUME NEW x \in Delivered(r)' PROVE x \in Delivered(r) \cup {<<j, 1>>}
        <4>1. PICK k \in Jobs : RequestOf(k) = r /\ x \in {k} \X (1..published'[k])
          BY <3>1 DEF Delivered
        <4> QED
          BY <4>1, <1>1, <1>2 DEF Delivered
      <3>2. <<j, 1>> \in Delivered(r)'
        BY <1>2 DEF Delivered
      <3>3. ASSUME NEW x \in Delivered(r) PROVE x \in Delivered(r)'
        <4>1. PICK k \in Jobs : RequestOf(k) = r /\ x \in {k} \X (1..published[k])
          BY <3>3 DEF Delivered
        <4>2. k # j
          BY <4>1, <1>2
        <4> QED
          BY <4>1, <4>2, <1>1 DEF Delivered
      <3> QED
        BY <3>1, <3>2, <3>3
    <2>2. <<j, 1>> \notin Delivered(r)
      BY <1>2 DEF Delivered
    <2>3. Cardinality(Delivered(r)') = Cardinality(Delivered(r)) + 1
      <3>1. Cardinality(Delivered(r) \cup {<<j, 1>>}) = Cardinality(Delivered(r)) + 1
        BY <2>2, DeliveredFinite, FS_AddElement
      <3> QED
        BY <2>1, <3>1
    <2> QED
      BY <2>3 DEF Reports, Requests
  <1>5. Reports = [r \in Requests |-> Reports[r]] /\ Reports' = [r \in Requests |-> Reports'[r]]
    BY DEF Reports
  <1> QED
    BY <1>3, <1>4, <1>5

-----------------------------------------------------------------------------
(* The limits *)

\* The requests of an owner in given phases have a row each.
LEMMA RequestsHaveRows ==
  ASSUME TypeOK, OneJobPerRequest, NEW j \in Jobs, NEW P, "none" \notin P,
         NEW rows \in SUBSET Jobs,
         \A k \in JobsOf(OwnerOf[j]) : Exists(k) /\ PhaseOf[status[k]] \in P => k \in rows
  PROVE  /\ Cardinality(Service!OfOwner(RequestOf(j), P)) <= Cardinality(rows)
         /\ Cardinality(Service!OfOwner(RequestOf(j), P)) \in Nat
         /\ Cardinality(rows) \in Nat
  <1> DEFINE A == Service!OfOwner(RequestOf(j), P)
             Row(q) == CHOOSE k \in Jobs : Exists(k) /\ RequestOf(k) = q /\ Phase[q] = PhaseOf[status[k]]
             f == [q \in A |-> Row(q)]
  <1>1. ASSUME NEW q \in A PROVE Row(q) \in rows /\ RequestOf(Row(q)) = q
    <2>1. q \in Requests /\ q[1] = OwnerOf[j] /\ Phase[q] \in P
      BY DEF Service!OfOwner, RequestOf
    <2>2. \E k \in Jobs : Exists(k) /\ RequestOf(k) = q /\ Phase[q] = PhaseOf[status[k]]
      BY <2>1, RowAtPhase
    <2>3. Row(q) \in Jobs /\ Exists(Row(q)) /\ RequestOf(Row(q)) = q /\ Phase[q] = PhaseOf[status[Row(q)]]
      BY <2>2
    <2> HIDE DEF Row
    <2>4. \A k \in Jobs : RequestOf(k)[1] = OwnerOf[k]
      BY DEF RequestOf
    <2>5. Row(q) \in JobsOf(OwnerOf[j])
      BY <2>1, <2>3, <2>4 DEF JobsOf
    <2> QED
      BY <2>1, <2>3, <2>5
  <1>2. f \in Injection(A, rows)
    <2>1. f \in [A -> rows]
      BY <1>1
    <2>2. ASSUME NEW p \in A, NEW q \in A, f[p] = f[q] PROVE p = q
      BY <1>1, <2>2
    <2> QED
      BY <2>1, <2>2 DEF Injection, IsInjective
  <1> HIDE DEF f
  <1>3. IsFiniteSet(rows)
    BY JobsAssumption, FS_Subset
  <1>4. IsFiniteSet(A) /\ Cardinality(A) <= Cardinality(rows)
    BY <1>2, <1>3, FS_Injection
  <1> QED
    BY <1>3, <1>4, FS_CardinalityType

LEMMA RoomForRequest ==
  ASSUME TypeOK, OneJobPerRequest, NEW j \in Jobs, HasCapacity(OwnerOf[j]), HasRoom(OwnerOf[j])
  PROVE  /\ Cardinality(Service!OfOwner(RequestOf(j), {"waiting", "running"})) < MaxActive
         /\ Cardinality(Service!OfOwner(RequestOf(j), {"waiting", "running", "stopped"})) < MaxOpen
  <1>1. ActiveOf(OwnerOf[j]) \in SUBSET Jobs /\ OpenOf(OwnerOf[j]) \in SUBSET Jobs
    BY DEF ActiveOf, OpenOf, JobsOf
  <1>2. \A k \in JobsOf(OwnerOf[j]) : status[k] \in Statuses
    BY DEF JobsOf, TypeOK
  <1>3. \A k \in JobsOf(OwnerOf[j]) :
          PhaseOf[status[k]] \in {"waiting", "running"} => k \in ActiveOf(OwnerOf[j])
    BY <1>2, PhaseValues DEF ActiveOf, Active, Statuses
  <1>4. \A k \in JobsOf(OwnerOf[j]) :
          PhaseOf[status[k]] \in {"waiting", "running", "stopped"} => k \in OpenOf(OwnerOf[j])
    BY <1>2, PhaseValues DEF OpenOf, Open, Active, Stopped, Statuses
  <1>5. /\ Cardinality(Service!OfOwner(RequestOf(j), {"waiting", "running"}))
             <= Cardinality(ActiveOf(OwnerOf[j]))
        /\ Cardinality(Service!OfOwner(RequestOf(j), {"waiting", "running"})) \in Nat
        /\ Cardinality(ActiveOf(OwnerOf[j])) \in Nat
    BY <1>1, <1>3, RequestsHaveRows
  <1>6. /\ Cardinality(Service!OfOwner(RequestOf(j), {"waiting", "running", "stopped"}))
             <= Cardinality(OpenOf(OwnerOf[j]))
        /\ Cardinality(Service!OfOwner(RequestOf(j), {"waiting", "running", "stopped"})) \in Nat
        /\ Cardinality(OpenOf(OwnerOf[j])) \in Nat
    BY <1>1, <1>4, RequestsHaveRows
  <1> QED
    BY <1>5, <1>6, LimitsAssumption DEF HasCapacity, HasRoom

-----------------------------------------------------------------------------
(* The steps *)

Mapped == Service!Next \/ UNCHANGED <<Phase, Reports>>

\* One row moves along its life cycle and nothing is delivered.
LEMMA RowMapped ==
  ASSUME TypeOK, OneJobPerRequest, TypeOK', OneJobPerRequest', MovesAlong,
         NEW j \in Jobs, Exists(j), status'[j] \notin {"running", "completed", "needs_review"},
         \A k \in Jobs \ {j} : status'[k] = status[k], UNCHANGED published
  PROVE  Mapped
  <1> DEFINE r == RequestOf(j)
  <1>1. r \in Requests /\ Phase[r] = PhaseOf[status[j]] /\ UNCHANGED Reports
    BY PhaseAtRow, ReportsSteady DEF Requests
  <1>2. Phase' = [Phase EXCEPT ![r] = PhaseOf[status'[j]]]
    BY PhaseMoves
  <1>3. Phase = [q \in Requests |-> Phase[q]]
    BY DEF Phase
  <1>4. status[j] \in Statuses /\ status'[j] \in Statuses
    BY DEF TypeOK
  <1>5. status'[j] = status[j] \/ <<status[j], status'[j]>> \in Moves
    BY DEF MovesAlong
  <1>6. CASE PhaseOf[status'[j]] = Phase[r]
    BY <1>1, <1>2, <1>3, <1>6 DEF Mapped
  <1>7. CASE Phase[r] \in {"waiting", "running"} /\ PhaseOf[status'[j]] = "stopped"
    <2>1. Phase' = [q \in Requests |-> IF q \in {r} THEN "stopped" ELSE Phase[q]]
      BY <1>2, <1>3, <1>7
    <2>2. Service!Halt({r})
      BY <1>1, <1>7, <2>1 DEF Service!Halt
    <2>3. {r} \in (SUBSET Requests) \ {{}}
      BY <1>1
    <2> QED
      BY <2>2, <2>3 DEF Mapped, Service!Next
  <1>8. CASE Phase[r] = "stopped" /\ PhaseOf[status'[j]] = "waiting"
    <2>1. Service!Continue(r)
      BY <1>1, <1>2, <1>8 DEF Service!Continue, Service!Move
    <2> QED
      BY <1>1, <2>1 DEF Mapped, Service!Next
  <1>9. CASE Phase[r] \in {"stopped", "reported"} /\ PhaseOf[status'[j]] = "none"
    <2>1. Service!Forget(r)
      BY <1>1, <1>2, <1>9 DEF Service!Forget, Service!Move
    <2> QED
      BY <1>1, <2>1 DEF Mapped, Service!Next
  <1> HIDE DEF r
  <1>10. \/ PhaseOf[status'[j]] = PhaseOf[status[j]]
         \/ PhaseOf[status[j]] \in {"waiting", "running"} /\ PhaseOf[status'[j]] = "stopped"
         \/ PhaseOf[status[j]] = "stopped" /\ PhaseOf[status'[j]] = "waiting"
         \/ PhaseOf[status[j]] \in {"stopped", "reported"} /\ PhaseOf[status'[j]] = "none"
    BY <1>4, <1>5, PhaseValues DEF Exists, Statuses, Moves, Active, Stopped, Final
  <1> QED
    BY <1>1, <1>6, <1>7, <1>8, <1>9, <1>10

LEMMA AdmissionMapped ==
  ASSUME TypeOK, OneJobPerRequest, TypeOK', OneJobPerRequest', NEW j \in Jobs, AdmitPrepared(j)
  PROVE  Mapped
  <1> DEFINE r == RequestOf(j)
  <1>1. ~Submitted(j) /\ HasCapacity(OwnerOf[j]) /\ HasRoom(OwnerOf[j]) /\ UNCHANGED published
    BY DEF AdmitPrepared, StillNew
  <1>2. ~Exists(j)
    BY <1>1 DEF Submitted, SameRequest
  <1>3. r \in Requests /\ RowsOf(r) = {}
    BY <1>1 DEF RowsOf, RequestOf, Requests, Submitted, SameRequest
  <1>4. Phase[r] = "none"
    BY <1>3, PhaseWithoutRow
  <1>5. status'[j] = "queued" /\ \A k \in Jobs \ {j} : status'[k] = status[k]
    BY DEF AdmitPrepared, TypeOK
  <1>6. Phase' = [Phase EXCEPT ![r] = "waiting"]
    BY <1>1, <1>5, PhaseMoves, PhaseValues
  <1>7. Service!Submit(r)
    <2>1. /\ Cardinality(Service!OfOwner(r, {"waiting", "running"})) < MaxActive
          /\ Cardinality(Service!OfOwner(r, {"waiting", "running", "stopped"})) < MaxOpen
          /\ UNCHANGED Reports
      BY <1>1, RoomForRequest, ReportsSteady
    <2>2. \A X : Service!Cardinality(X) = Cardinality(X)
      BY DEF Cardinality, Service!Cardinality
    <2> HIDE DEF r
    <2> QED
      BY <1>4, <1>6, <2>1, <2>2 DEF Service!Submit, Service!Move
  <1> QED
    BY <1>3, <1>7 DEF Mapped, Service!Next

LEMMA ClaimMapped ==
  ASSUME TypeOK, OneJobPerRequest, TypeOK', OneJobPerRequest',
         NEW j \in Jobs, NEW t \in Tokens, ClaimRow(j, t), UNCHANGED published
  PROVE  Mapped
  <1> DEFINE r == RequestOf(j)
  <1>1. status[j] = "queued" /\ ~RunningSibling(j) /\ Exists(j)
    BY DEF ClaimRow, Exists
  <1>2. status'[j] = "running" /\ \A k \in Jobs \ {j} : status'[k] = status[k]
    BY DEF ClaimRow, TypeOK
  <1>3. r \in Requests /\ Phase[r] = "waiting"
    BY <1>1, PhaseAtRow, PhaseValues DEF Requests
  <1>4. Phase' = [Phase EXCEPT ![r] = "running"]
    BY <1>1, <1>2, PhaseMoves, PhaseValues
  <1>5. ASSUME NEW q \in Requests, q[1] = r[1], Phase[q] = "running" PROVE FALSE
    <2>1. PICK k \in Jobs : Exists(k) /\ RequestOf(k) = q /\ Phase[q] = PhaseOf[status[k]]
      BY <1>5, RowAtPhase
    <2>2. OwnerOf[k] = OwnerOf[j]
      BY <1>5, <2>1 DEF RequestOf
    <2>3. status[k] = "running"
      BY <1>5, <2>1, PhaseValues DEF TypeOK, Statuses
    <2> QED
      BY <1>1, <2>2, <2>3 DEF RunningSibling, JobsOf
  <1>6. Service!OfOwner(r, {"running"}) = {}
    BY <1>5 DEF Service!OfOwner
  <1>7. Service!Begin(r)
    BY <1>3, <1>4, <1>6, ReportsSteady DEF Service!Begin, Service!Move
  <1> QED
    BY <1>3, <1>7 DEF Mapped, Service!Next

LEMMA PublishMapped ==
  ASSUME TypeOK, OneJobPerRequest, PublishedOnce, TypeOK', OneJobPerRequest',
         NEW j \in Jobs, NEW s \in Final, status[j] = "running", Release(j, s, "none"),
         published' = [published EXCEPT ![j] = @ + 1]
  PROVE  Mapped
  <1> DEFINE r == RequestOf(j)
  <1>1. Exists(j) /\ status'[j] = s /\ \A k \in Jobs \ {j} : status'[k] = status[k]
    BY DEF Exists, Release, TypeOK
  <1>2. r \in Requests /\ Phase[r] = "running"
    BY <1>1, PhaseAtRow, PhaseValues DEF Requests
  <1>3. PhaseOf[s] = "reported"
    BY PhaseValues DEF Final
  <1>4. Phase' = [Phase EXCEPT ![r] = "reported"]
    BY <1>1, <1>3, PhaseMoves
  <1>5. published[j] = 0
    <2>1. published[j] \in Nat /\ published[j] <= 1 /\ published[j] # 1
      BY DEF TypeOK, PublishedOnce, Final
    <2>2. \A n \in Nat : n <= 1 /\ n # 1 => n = 0
      OBVIOUS
    <2> QED
      BY <2>1, <2>2
  <1>6. Service!Deliver(r)
    BY <1>2, <1>4, <1>5, ReportsGrow DEF Service!Deliver, Service!Move
  <1> QED
    BY <1>2, <1>6 DEF Mapped, Service!Next

\* Every expired lease at once.
LEMMA RecoveryMapped ==
  ASSUME TypeOK, OneJobPerRequest, RecoverExpired PROVE Mapped
  <1> DEFINE expired == {j \in Jobs : status[j] = "running" /\ ~live[j]}
             S == {RequestOf(j) : j \in expired}
  <1>1. \A k \in Jobs : status'[k] = IF k \in expired THEN "paused" ELSE status[k]
    BY DEF RecoverExpired
  <1>2. expired # {} /\ UNCHANGED published
    BY DEF RecoverExpired
  <1>3. ASSUME NEW j \in expired
        PROVE  RequestOf(j) \in Requests /\ Phase[RequestOf(j)] = "running"
    BY PhaseAtRow, PhaseValues DEF Exists, Requests
  <1>4. ASSUME NEW r \in Requests PROVE RowsOf(r)' = RowsOf(r)
    BY <1>1 DEF RowsOf, Exists
  <1> HIDE DEF expired
  <1>5. ASSUME NEW r \in Requests PROVE Phase'[r] = IF r \in S THEN "stopped" ELSE Phase[r]
    <2>1. CASE RowsOf(r) = {}
      <3>1. Phase[r] = "none" /\ Phase'[r] = "none"
        BY <1>4, <2>1 DEF Phase
      <3> QED
        BY <1>3, <3>1
    <2>2. CASE RowsOf(r) # {}
      <3>1. PICK c \in RowsOf(r) : c = CHOOSE j \in RowsOf(r) : TRUE
        BY <2>2
      <3>2. Phase[r] = PhaseOf[status[c]] /\ Phase'[r] = PhaseOf[status'[c]]
        BY <1>4, <2>2, <3>1 DEF Phase
      <3>3. c \in Jobs /\ RequestOf(c) = r /\ Exists(c)
        BY <3>1 DEF RowsOf
      <3>4. r \in S <=> c \in expired
        <4>1. ASSUME NEW k \in expired, RequestOf(k) = r PROVE k = c
          <5>1. k \in Jobs /\ status[k] = "running"
            BY DEF expired
          <5> QED
            BY <5>1, <4>1, <3>3 DEF OneJobPerRequest, SameRequest, RequestOf, Exists
        <4> QED
          BY <3>3, <4>1
      <3> QED
        BY <1>1, <3>2, <3>3, <3>4, PhaseValues
    <2> QED
      BY <2>1, <2>2
  <1>6. Phase' = [r \in Requests |-> IF r \in S THEN "stopped" ELSE Phase[r]]
    <2>1. Phase' = [r \in Requests |-> Phase'[r]]
      BY DEF Phase
    <2> HIDE DEF S
    <2> QED
      BY <1>5, <2>1
  <1>7. S \in (SUBSET Requests) \ {{}} /\ \A r \in S : Phase[r] \in {"waiting", "running"}
    BY <1>2, <1>3
  <1>8. Service!Halt(S)
    BY <1>2, <1>6, <1>7, ReportsSteady DEF Service!Halt
  <1> QED
    BY <1>7, <1>8 DEF Mapped, Service!Next

LEMMA StepMapped == ASSUME Inv, [Next]_vars PROVE Mapped
  <1>1. TypeOK /\ OneJobPerRequest /\ PublishedOnce /\ TypeOK' /\ OneJobPerRequest'
    BY InvStep DEF Inv
  <1>2. MovesAlong
    BY LifeStep DEF Inv
  <1>3. CASE UNCHANGED <<status, published>>
    BY <1>3, PhaseSteady, ReportsSteady DEF Mapped
  <1>4. ASSUME NEW j \in Jobs, AdmitPrepared(j) PROVE Mapped
    BY <1>1, <1>4, AdmissionMapped
  <1>5. ASSUME NEW j \in Jobs, NEW s \in Parked, NEW e \in Errors,
               status[j] \in Open, Release(j, s, e), UNCHANGED published
        PROVE  Mapped
    <2>1. Exists(j) /\ status'[j] = s /\ \A k \in Jobs \ {j} : status'[k] = status[k]
      BY <1>1, <1>5 DEF Exists, Open, Active, Stopped, Release, TypeOK
    <2>2. s \notin {"running", "completed", "needs_review"}
      BY DEF Parked
    <2> QED
      BY <1>1, <1>2, <1>5, <2>1, <2>2, RowMapped
  <1>6. ASSUME NEW j \in Jobs, NEW s \in Final, status[j] = "running", Release(j, s, "none"),
               published' = [published EXCEPT ![j] = @ + 1]
        PROVE  Mapped
    BY <1>1, <1>6, PublishMapped
  <1>7. ASSUME NEW j \in Jobs, Discard(j) PROVE Mapped
    <2>1. Exists(j) /\ status'[j] = "discarded" /\ UNCHANGED published
          /\ \A k \in Jobs \ {j} : status'[k] = status[k]
      BY <1>1, <1>7 DEF Exists, Discard, Stopped, Final, TypeOK
    <2> QED
      BY <1>1, <1>2, <2>1, RowMapped
  <1>8. CASE RecoverExpired
    BY <1>1, <1>8, RecoveryMapped
  <1>9. ASSUME NEW j \in Jobs, NEW t \in Tokens, ClaimRow(j, t), UNCHANGED published PROVE Mapped
    BY <1>1, <1>9, ClaimMapped
  <1>10. ASSUME NEW j \in Jobs, LeaseExpires(j) PROVE Mapped
    BY <1>3, <1>10 DEF LeaseExpires
  <1> QED
    BY <1>3, <1>4, <1>5, <1>6, <1>7, <1>8, <1>9, <1>10, StepsRows DEF RowStep

LEMMA InitMapped == ASSUME Init PROVE Service!Init
  <1>1. \A r \in Requests : RowsOf(r) = {} /\ Delivered(r) = {}
    <2>1. \A j \in Jobs : ~Exists(j) /\ 1..published[j] = {}
      BY DEF Init, Exists, Empty
    <2> QED
      BY <2>1 DEF RowsOf, Delivered
  <1>2. \A r \in Requests : Phase[r] = "none" /\ Reports[r] = 0
    BY <1>1, FS_EmptySet DEF Phase, Reports
  <1>3. Phase = [r \in Requests |-> Phase[r]] /\ Reports = [r \in Requests |-> Reports[r]]
    BY DEF Phase, Reports
  <1> QED
    BY <1>2, <1>3 DEF Service!Init

\* Whatever the interleaving of owners, ticks, tasks, expiries and restarts, and
\* for any number of jobs and limits, each request sees only what the service
\* allows: it is worked on once at a time and delivers one report per completion.
THEOREM ServiceCorrect == Spec => ImplementsService
  <1>1. Init => Service!Init
    BY InitMapped
  <1>2. Inv /\ [Next]_vars => [Service!Next]_Service!vars
    BY StepMapped DEF Mapped, Service!vars
  <1> QED
    BY <1>1, <1>2, InvCorrect, PTL DEF Spec, ImplementsService, Service!Spec
=============================================================================
