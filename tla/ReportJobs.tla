----------------------------- MODULE ReportJobs -----------------------------
(***************************************************************************)
(* The durable report-job queue: the rows of the table report_jobs, the    *)
(* single in-process worker that leases and executes them, and the owner's *)
(* controls.                                                               *)
(*                                                                         *)
(* A job is named by a number, the rank of its created_at.  `token` is the *)
(* row's lease token (0 for NULL); the fresh uuid4 drawn by a claim is any *)
(* token no task still holds, so a finite supply lasts for ever.  `live`   *)
(* says that lease_until is still in the future: renewing a live lease     *)
(* keeps it live, and time may end it at any moment (LeaseExpires).        *)
(* Every row update is one compare-and-set on (revision, status, token),   *)
(* so an update whose row changed since it was read changes nothing.       *)
(*                                                                         *)
(* A task is one run of ReportJobWorker.process, named by the token it was *)
(* started with.  `slot` is the worker's dictionary _running.              *)
(***************************************************************************)
EXTENDS Integers, FiniteSets

CONSTANTS
  Jobs,          \* jobs, as ranks of created_at; each is prepared at most once
  Tokens,        \* lease tokens; 0 is none
  OwnerOf,       \* the owner who submits the job
  KeyOf,         \* the request UUID the owner's browser sent for it
  EditionJobs,   \* the jobs admitted for a subscription edition
  MaxActive,     \* MAX_ACTIVE_PER_OWNER
  MaxOpen,       \* MAX_OPEN_PER_OWNER
  MaxOpenGlobal, \* MAX_OPEN_GLOBAL
  Concurrency    \* the worker's CONCURRENCY

ASSUME JobsAssumption ==
  /\ Jobs \subseteq Nat /\ IsFiniteSet(Jobs) /\ EditionJobs \subseteq Jobs
  /\ 0 \notin Tokens /\ IsFiniteSet(Tokens)
ASSUME LimitsAssumption ==
  /\ MaxActive \in Nat \ {0} /\ MaxOpen \in Nat /\ MaxOpenGlobal \in Nat
  /\ Concurrency \in Nat \ {0}

VARIABLES
  status,     \* the row's status; "absent" before it exists, "discarded" after
  token,      \* lease_token
  live,       \* lease_until > now
  error,      \* the class of the row's error code
  published,  \* number of report versions inserted for the job
  prepared,   \* candidates between ReportJobService.prepare and admit_prepared
  pc,         \* where each task is
  slot,       \* ReportJobWorker._running: the token of the job's task, or 0
  listed,     \* the ids the current tick read with repo.queued, still to visit
  up          \* the worker loop is running

rowVars == <<status, token, live, error, published>>
taskVars == <<pc, slot, listed, up>>
vars == <<rowVars, prepared, taskVars>>

Statuses == {"absent", "queued", "running", "paused", "failed",
             "completed", "needs_review", "discarded"}
Active == {"queued", "running"}
Final == {"completed", "needs_review"}
Stopped == {"paused", "failed"}
Open == Active \cup Stopped
\* NULL; a code that lets the job resume; one of NON_RESUMABLE_ERRORS;
\* known_transient_failure, which only editions get.
Errors == {"none", "interrupted", "final", "transient"}
\* no such task; claimed and about to be created; inside execute_job; inside
\* process's except or else; finished
Places == {"none", "claimed", "working", "ending", "done"}

Exists(j) == status[j] \notin {"absent", "discarded"}
JobsOf(o) == {j \in Jobs : OwnerOf[j] = o}
SameRequest(j, k) == OwnerOf[j] = OwnerOf[k] /\ KeyOf[j] = KeyOf[k]
ActiveOf(o) == {j \in JobsOf(o) : status[j] \in Active}
OpenOf(o) == {j \in JobsOf(o) : status[j] \in Open}
AllOpen == {j \in Jobs : status[j] \in Open}
Alive(j, t) == pc[j][t] \in {"working", "ending"}
AliveTasks == {jt \in Jobs \X Tokens : Alive(jt[1], jt[2])}
NoTasks == [j \in Jobs |-> [t \in Tokens |-> "none"]]
Empty == [j \in Jobs |-> 0]

Init ==
  /\ status = [j \in Jobs |-> "absent"]
  /\ token = Empty
  /\ live = [j \in Jobs |-> FALSE]
  /\ error = [j \in Jobs |-> "none"]
  /\ published = Empty
  /\ prepared = {}
  /\ pc = NoTasks
  /\ slot = Empty
  /\ listed = {}
  /\ up = TRUE

-----------------------------------------------------------------------------
(* Guards and updates shared by several operations.  A definition commented   *)
(* "Faulty:" is a plausible mistake in the next one, which the specification  *)
(* never uses: the runs put it in the next one's place to see that a property *)
(* notices.                                                                   *)

\* require_capacity(creating=False): count_active
HasCapacity(o) == Cardinality(ActiveOf(o)) < MaxActive

\* Faulty: stopped jobs are not counted.
RoomAmongActive(o) == /\ Cardinality(ActiveOf(o)) < MaxOpen
                      /\ Cardinality({j \in Jobs : status[j] \in Active}) < MaxOpenGlobal

\* the rest of require_capacity(creating=True): count_open
HasRoom(o) == /\ Cardinality(OpenOf(o)) < MaxOpen
              /\ Cardinality(AllOpen) < MaxOpenGlobal

\* get_by_request finds a row for the job's request.
Submitted(j) == \E k \in Jobs : Exists(k) /\ SameRequest(j, k)
\* The second look for the request, under the administration lock.
StillNew(j) == ~Submitted(j)

\* Faulty: asks the worker's tasks instead of the rows.
SiblingHasTask(j) == \E k \in JobsOf(OwnerOf[j]) \ {j} : slot[k] # 0

\* no_running_sibling and the index uq_report_jobs_running_owner
RunningSibling(j) == \E k \in JobsOf(OwnerOf[j]) \ {j} : status[k] = "running"

\* Faulty: a task that was not cancelled is taken to hold its lease.
TaskStillKnown(j, t) == slot[j] = t

\* ReportJobCheckpoints._leased and the predicates of repo.complete
Fence(j, t) == status[j] = "running" /\ token[j] = t /\ live[j]

\* Faulty: the stopping task trusts the row it was started with.
StartedWithRow(j, t) == slot[j] = t

\* The weaker fence of a stopping task: expiry does not matter.
OwnsRow(j, t) == status[j] = "running" /\ token[j] = t

\* Leave the queued or running state: the lease columns become NULL.
Release(j, s, e) ==
  /\ status' = [status EXCEPT ![j] = s]
  /\ token' = [token EXCEPT ![j] = 0]
  /\ live' = [live EXCEPT ![j] = FALSE]
  /\ error' = [error EXCEPT ![j] = e]

\* repo.resume: the row is queued again with no error.
Requeue(j) ==
  /\ status[j] \in Stopped
  /\ Release(j, "queued", "none")
  /\ UNCHANGED <<published, prepared, taskVars>>

Goto(j, t, place) == pc' = [pc EXCEPT ![j][t] = place]

\* ReportJobWorker.cancel(j, t): only the task started with that very token.
CancelTask(j, t) ==
  pc' = IF t # 0 /\ slot[j] = t /\ pc[j][t] = "working"
        THEN [pc EXCEPT ![j][t] = "ending"] ELSE pc

-----------------------------------------------------------------------------
(* Admission: ReportJobService.create. *)

\* The first lookup finds no job for the request, and the inputs are frozen
\* outside every lock.  created_at is taken here, so ranks grow in this order.
Prepare(j) ==
  /\ status[j] = "absent" /\ j \notin prepared
  /\ \A k \in Jobs : k > j => status[k] = "absent" /\ k \notin prepared
  /\ ~Submitted(j)
  /\ prepared' = prepared \cup {j}
  /\ UNCHANGED <<rowVars, taskVars>>

\* admit_prepared under the administration lock: a second look for the
\* request, the capacity checks, and the insert.
AdmitPrepared(j) ==
  /\ j \in prepared
  /\ StillNew(j)
  /\ HasCapacity(OwnerOf[j]) /\ HasRoom(OwnerOf[j])
  /\ status' = [status EXCEPT ![j] = "queued"]
  /\ prepared' = prepared \ {j}
  /\ UNCHANGED <<token, live, error, published, taskVars>>

\* The same handler answering with the existing job, a refusal, or an error.
AdmitDropped(j) ==
  /\ j \in prepared
  /\ prepared' = prepared \ {j}
  /\ UNCHANGED <<rowVars, taskVars>>

-----------------------------------------------------------------------------
(* The owner's controls. *)

\* pause: one transaction, then ReportJobWorker.cancel for the lease it saw,
\* still inside the source guard that every requeue needs.
Pause(j) ==
  /\ status[j] \in Active
  /\ Release(j, "paused", "none")
  /\ CancelTask(j, token[j])
  /\ UNCHANGED <<published, prepared, slot, listed, up>>

\* resume, and every other requeue that calls require_capacity: the schedule's
\* _resume_active and the probe of blocked editions.  A failed row belongs to a
\* failed edition, which refuses.
Resume(j) ==
  /\ status[j] = "paused" /\ error[j] # "final"
  /\ HasCapacity(OwnerOf[j])
  /\ Requeue(j)

\* discard: never for a job of a subscription edition.
Discard(j) ==
  /\ j \notin EditionJobs
  /\ status[j] \in Stopped \cup Final
  /\ status' = [status EXCEPT ![j] = "discarded"]
  /\ error' = [error EXCEPT ![j] = "none"]
  /\ UNCHANGED <<token, live, published, prepared, taskVars>>

-----------------------------------------------------------------------------
(* ReportJobWorker.tick.  `listed` is empty between its queue pass and the   *)
(* next tick's.                                                              *)

Idle == up /\ listed = {}

\* Drop finished tasks from _running.
Reap ==
  LET finished == {j \in Jobs : slot[j] # 0 /\ pc[j][slot[j]] = "done"} IN
  /\ Idle /\ finished # {}
  /\ slot' = [j \in Jobs |-> IF j \in finished THEN 0 ELSE slot[j]]
  /\ pc' = [j \in Jobs |-> [t \in Tokens |->
              IF j \in finished /\ t = slot[j] THEN "none" ELSE pc[j][t]]]
  /\ UNCHANGED <<rowVars, prepared, listed, up>>

\* expired_failure: an interruption, or a section's token budget used up.
Interruptions == {"interrupted", "final"}

\* recover_expired: one statement for the whole page of expired leases.
RecoverExpired ==
  LET expired == {j \in Jobs : status[j] = "running" /\ ~live[j]} IN
  /\ Idle /\ expired # {}
  /\ status' = [j \in Jobs |-> IF j \in expired THEN "paused" ELSE status[j]]
  /\ token' = [j \in Jobs |-> IF j \in expired THEN 0 ELSE token[j]]
  /\ \E why \in [expired -> Interruptions] :
       error' = [j \in Jobs |-> IF j \in expired THEN why[j] ELSE error[j]]
  /\ UNCHANGED <<live, published, prepared, taskVars>>

\* SubscriptionRetry.resume_due, as far as it moves the row: it is the one
\* requeue that does not look at the owner's active jobs.
ResumeDue(j) ==
  /\ Idle /\ j \in EditionJobs
  /\ status[j] = "paused" /\ error[j] = "transient"
  /\ Requeue(j)

\* resume_due giving up: stop_waiting.
StopWaiting(j) ==
  /\ Idle /\ j \in EditionJobs
  /\ status[j] = "paused" /\ error[j] = "transient"
  /\ \E s \in Stopped : Release(j, s, "interrupted")
  /\ UNCHANGED <<published, prepared, taskVars>>

\* Faulty: the rank is taken over the owner's unfinished jobs.
OldestOpen == {j \in Jobs :
                 /\ status[j] = "queued" /\ ~RunningSibling(j)
                 /\ \A k \in OpenOf(OwnerOf[j]) : j <= k}

\* fair_queued_ids: each owner's oldest queued job, for owners without a
\* running job, oldest first.
Heads == {j \in Jobs :
            /\ status[j] = "queued" /\ ~RunningSibling(j)
            /\ \A k \in JobsOf(OwnerOf[j]) : status[k] = "queued" => j <= k}
FirstHeads == {j \in Heads : Cardinality({k \in Heads : k < j}) < Concurrency}

ReadQueue ==
  /\ Idle /\ Heads # {}
  /\ listed' = FirstHeads
  /\ UNCHANGED <<rowVars, prepared, pc, slot, up>>

Busy == {j \in Jobs : slot[j] # 0}
\* The claim has committed, and the tick is about to create the task.
Claimed(j, t) == pc[j][t] = "claimed"
NoClaim == \A j \in Jobs, t \in Tokens : ~Claimed(j, t)
NextListed(j) == j \in listed /\ (\A k \in listed : j <= k) /\ NoClaim
\* Faulty: `key in self._running` is not asked.
HasRoomForTask(j) == Cardinality(Busy) < Concurrency
HasSlot(j) == slot[j] = 0 /\ Cardinality(Busy) < Concurrency

\* repo.claim with a fresh token.
ClaimRow(j, t) ==
  /\ up /\ NextListed(j) /\ HasSlot(j)
  /\ status[j] = "queued" /\ ~RunningSibling(j)
  /\ pc[j][t] = "none"
  /\ status' = [status EXCEPT ![j] = "running"]
  /\ token' = [token EXCEPT ![j] = t]
  /\ live' = [live EXCEPT ![j] = TRUE]
  /\ error' = [error EXCEPT ![j] = "none"]

Claim(j, t) ==
  /\ ClaimRow(j, t)
  /\ Goto(j, t, "claimed")
  /\ UNCHANGED <<published, prepared, slot, listed, up>>

\* The session is closed and the task enters _running.  A control may have
\* taken the lease in between, and had no task to cancel: it starts all the same.
StartTask(j, t) ==
  /\ Claimed(j, t)
  /\ Goto(j, t, "working")
  /\ slot' = [slot EXCEPT ![j] = t]
  /\ listed' = listed \ {j}
  /\ UNCHANGED <<rowVars, prepared, up>>

\* No task will be created for a claim: nobody holds its lease.
Unclaimed == [j \in Jobs |-> [t \in Tokens |-> IF Claimed(j, t) THEN "none" ELSE pc[j][t]]]

\* `continue`: this id has a task, is no longer queued, or lost its claim.
SkipListed(j) ==
  /\ NextListed(j)
  /\ slot[j] # 0 \/ status[j] # "queued" \/ RunningSibling(j)
  /\ listed' = listed \ {j}
  /\ UNCHANGED <<rowVars, prepared, pc, slot, up>>

\* `break` when every slot is taken, or the tick fails on a database error,
\* possibly after a claim committed.
EndTick ==
  /\ listed # {}
  /\ listed' = {}
  /\ pc' = Unclaimed
  /\ UNCHANGED <<rowVars, prepared, slot, up>>

-----------------------------------------------------------------------------
(* ReportJobWorker.process *)

LeaseExpires(j) ==
  /\ live[j]
  /\ live' = [live EXCEPT ![j] = FALSE]
  /\ UNCHANGED <<status, token, error, published, prepared, taskVars>>

\* Any failure of execute_job: a lost lease, the heartbeat cancelling it, the
\* deadline, a provider, validation or budget error.
WorkFails(j, t) ==
  /\ pc[j][t] = "working"
  /\ Goto(j, t, "ending")
  /\ UNCHANGED <<rowVars, prepared, slot, listed, up>>

\* The final transaction: report, version and the job's completion, under the
\* lease fence.  The task may or may not learn that it committed; both paths
\* lead to finish_published_attempt.
Publish(j, t) ==
  /\ pc[j][t] = "working"
  /\ Fence(j, t)
  /\ \E s \in Final : Release(j, s, "none")
  /\ published' = [published EXCEPT ![j] = @ + 1]
  /\ Goto(j, t, "ending")
  /\ UNCHANGED <<prepared, slot, listed, up>>

\* Faulty: the edition's workflow is saved as the job's status.
WorkflowOutcomes(j) ==
  {<<"paused", "interrupted">>, <<"paused", "final">>} \cup
  IF j \in EditionJobs THEN {<<"retry_wait", "transient">>} ELSE {}

\* The status and error class a stopped task saves.
StopOutcomes(j) ==
  {<<"paused", "interrupted">>, <<"paused", "final">>} \cup
  IF j \in EditionJobs
  THEN {<<"paused", "transient">>, <<"failed", "interrupted">>} ELSE {}

\* SubscriptionRetry.pause: the stopped task saves its outcome, even after the
\* lease ran out, while its token still owns the running row.
PauseStopped(j, t) ==
  /\ pc[j][t] = "ending"
  /\ OwnsRow(j, t)
  /\ \E o \in StopOutcomes(j) : Release(j, o[1], o[2])
  /\ Goto(j, t, "done")
  /\ UNCHANGED <<published, prepared, slot, listed, up>>

\* Nothing to save (already published, or the row is no longer the task's),
\* or the save failed and the lease is left to expire.
EndTask(j, t) ==
  /\ pc[j][t] = "ending"
  /\ Goto(j, t, "done")
  /\ UNCHANGED <<rowVars, prepared, slot, listed, up>>

-----------------------------------------------------------------------------
(* The process. *)

\* ReportJobWorker.stop: cancel the loop, then every task.
Stop ==
  /\ up
  /\ up' = FALSE
  /\ pc' = [j \in Jobs |-> [t \in Tokens |->
              IF pc[j][t] = "working" /\ slot[j] = t THEN "ending" ELSE Unclaimed[j][t]]]
  /\ listed' = {}
  /\ UNCHANGED <<rowVars, prepared, slot>>

\* stop() has gathered every task; a later start() begins with none.
Start ==
  /\ ~up /\ AliveTasks = {}
  /\ up' = TRUE
  /\ slot' = Empty
  /\ pc' = NoTasks
  /\ UNCHANGED <<rowVars, prepared, listed>>

\* The process dies and is started again: only the rows survive.
Crash ==
  /\ up' = TRUE
  /\ slot' = Empty
  /\ pc' = NoTasks
  /\ listed' = {}
  /\ prepared' = {}
  /\ UNCHANGED rowVars

-----------------------------------------------------------------------------
Controls(j) == Prepare(j) \/ AdmitPrepared(j) \/ AdmitDropped(j)
               \/ Pause(j) \/ Resume(j) \/ Discard(j)
TickJob(j) == ResumeDue(j) \/ StopWaiting(j) \/ SkipListed(j)
TickPass == Reap \/ RecoverExpired \/ ReadQueue \/ EndTick
ClaimJob(j, t) == Claim(j, t) \/ StartTask(j, t)
TaskStep(j, t) == WorkFails(j, t) \/ Publish(j, t) \/ PauseStopped(j, t) \/ EndTask(j, t)

Next ==
  \/ \E j \in Jobs : Controls(j) \/ TickJob(j) \/ LeaseExpires(j)
  \/ \E j \in Jobs, t \in Tokens : ClaimJob(j, t) \/ TaskStep(j, t)
  \/ TickPass \/ Stop \/ Start \/ Crash

Spec == Init /\ [][Next]_vars

(* Fairness.  The tick is a loop without exit, and every tick begins with     *)
(* Reap and RecoverExpired and visits each listed job: strong fairness of     *)
(* these and of Claim says that database errors do not end every tick early.  *)
(* execute_job ends by itself or at its 1800 s deadline and the clean-up      *)
(* after it is a few short transactions; a lease nobody renews runs out with  *)
(* the clock.  Owners, successes and the edition workflow are owed nothing.   *)
Orphan(j) == status[j] = "running" /\ ~ \E t \in Tokens : Alive(j, t)
VisitListed == EndTick \/ \E j \in Jobs : SkipListed(j) \/ \E t \in Tokens : ClaimJob(j, t)
Fairness ==
  /\ SF_vars(Reap) /\ SF_vars(RecoverExpired) /\ WF_vars(ReadQueue) /\ WF_vars(VisitListed)
  /\ \A j \in Jobs :
       /\ SF_vars(\E t \in Tokens : Claim(j, t))
       /\ WF_vars(Orphan(j) /\ LeaseExpires(j))
       /\ \A t \in Tokens : WF_vars(TaskStep(j, t))
FairSpec == Spec /\ Fairness

-----------------------------------------------------------------------------
(* Properties *)

\* Every variable has its type.
TypeOK ==
  /\ status \in [Jobs -> Statuses]
  /\ token \in [Jobs -> Tokens \cup {0}]
  /\ live \in [Jobs -> BOOLEAN]
  /\ error \in [Jobs -> Errors]
  /\ published \in [Jobs -> Nat]
  /\ prepared \in SUBSET Jobs
  /\ pc \in [Jobs -> [Tokens -> Places]]
  /\ slot \in [Jobs -> Tokens \cup {0}]
  /\ listed \in SUBSET Jobs
  /\ up \in BOOLEAN

\* A row holds a lease exactly while it runs (the check constraint on
\* report_jobs): no control, recovery or late save leaves half a lease behind.
LeaseIffRunning ==
  \A j \in Jobs : (token[j] # 0 <=> status[j] = "running") /\ (live[j] => status[j] = "running")

\* Two jobs of one owner never run at once, however claims, pauses, expiries,
\* resumes and restarts interleave.
OneRunningPerOwner ==
  \A j, k \in Jobs : status[j] = "running" /\ status[k] = "running" /\ OwnerOf[j] = OwnerOf[k]
                     => j = k

\* A request a browser sends twice has one job, although both copies may be
\* prepared before either is admitted.
OneJobPerRequest ==
  \A j, k \in Jobs : Exists(j) /\ Exists(k) /\ SameRequest(j, k) => j = k

\* The owner's queued and running jobs stay within MAX_ACTIVE_PER_OWNER through
\* admissions and resumes.
ActiveWithinLimit == \A j \in Jobs : Cardinality(ActiveOf(OwnerOf[j])) <= MaxActive

\* Unfinished jobs stay within the owner's and the installation's retained limit.
OpenWithinLimit ==
  /\ \A j \in Jobs : Cardinality(OpenOf(OwnerOf[j])) <= MaxOpen
  /\ Cardinality(AllOpen) <= MaxOpenGlobal

\* A job publishes at most one report, and only finished jobs have one: a task
\* that lost the answer to its final commit cannot reopen the job.
PublishedOnce ==
  \A j \in Jobs : /\ published[j] <= 1
                  /\ status[j] \in Final => published[j] = 1
                  /\ published[j] = 1 => status[j] \in Final \cup {"discarded"}

\* A request ends in at most one report: it has one job although a browser sends
\* it twice, and the job publishes once although the answer to its final commit
\* may be lost.
OneReportPerRequest == OneJobPerRequest /\ PublishedOnce

\* Every task alive is the one its job has in _running, so a pause can cancel
\* it, a second run of the job cannot start beside it, and at most Concurrency
\* tasks are alive, also after leases expired under working tasks.
EveryTaskHasSlot ==
  /\ \A j \in Jobs, t \in Tokens : Alive(j, t) => slot[j] = t
  /\ Cardinality(AliveTasks) <= Concurrency

\* The life cycle of a row
Moves ==
  {<<"absent", "queued">>, <<"queued", "running">>} \cup
  (Active \X {"paused"}) \cup ({"running"} \X (Final \cup {"failed"})) \cup
  {<<"paused", "queued">>, <<"paused", "failed">>} \cup
  ((Stopped \cup Final) \X {"discarded"})
MovesAlong == \A j \in Jobs : status'[j] # status[j] => <<status[j], status'[j]>> \in Moves

\* A row is only moved along its life cycle; above all, a task that keeps
\* working after its lease expired or its owner paused it never finishes the job.
LifeCycle == [][MovesAlong]_status

\* From some time on the worker is up and neither stopped nor killed.
LeftRunning == <>[]up /\ <>[][~Stop /\ ~Crash]_vars

\* No job runs for ever: its task ends it, or its lease expires and the tick
\* recovers it, also when the claim was made for a task that never started.
RunningEnds ==
  LeftRunning => \A j \in Jobs : status[j] = "running" ~> status[j] # "running"

\* Some stopped job is put back in the queue.
Requeued == \E k \in Jobs : status[k] \in Stopped /\ status'[k] = "queued"

\* Unless jobs are requeued for ever, every queued job is started or stopped:
\* neither the one-per-owner rule, nor the oldest-first rule, nor the worker's
\* few slots starve it.
QueueServed ==
  LeftRunning /\ <>[][~Requeued]_vars
    => \A j \in Jobs : status[j] = "queued" ~> status[j] # "queued"

\* The queue moves: what runs ends, and a job that stays queued is served.
QueueMoves == RunningEnds /\ QueueServed
=============================================================================
