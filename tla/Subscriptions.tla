---------------------------- MODULE Subscriptions ----------------------------
(***************************************************************************)
(* Subscription editions: the research runs a schedule or its owner asks   *)
(* for, each carried by one job of the queue.  Every action is an action   *)
(* of ReportJobs, or leaves the jobs alone, together with what the same    *)
(* transaction does to editions, their attempts and the subscription.      *)
(*                                                                         *)
(* An edition is named by its job's request key, and those of a            *)
(* subscription are ordered by the slot they are due at; the Manual ones   *)
(* are the owner's "run now".  Several candidate jobs may be prepared for  *)
(* one edition, and the one admitted is its job.                           *)
(***************************************************************************)
EXTENDS ReportJobs

CONSTANTS
  SubOf,      \* the subscription of an edition
  Manual,     \* the editions with trigger run_now
  MaxRetries  \* len(RETRY_DELAYS)

Editions == {KeyOf[j] : j \in EditionJobs}
Subs == {SubOf[e] : e \in Editions}

ASSUME EditionsAssumption ==
  /\ Editions \subseteq Nat \ {0} /\ Manual \subseteq Editions
  /\ SubOf \in [Editions -> Subs]
  \* the request key of an edition is derived from its id
  /\ \A j \in EditionJobs, k \in Jobs :
       KeyOf[j] = KeyOf[k] => k \in EditionJobs /\ OwnerOf[j] = OwnerOf[k]
  /\ MaxRetries \in Nat

VARIABLES
  workflow,    \* the edition's workflow; "none" before it is reserved
  reason,      \* the class of a paused or blocked edition's safe_reason
  attempt,     \* the number of the edition's latest attempt, up to MaxRetries + 1
  lease,       \* the lease token of that attempt while it is open, else 0
  spent,       \* the editions whose job has used its calls or tokens up
  auto,        \* automatic retries so far (not in the code: history)
  activation   \* of a subscription

editionVars == <<workflow, reason, attempt, lease, spent, auto>>
subVars == <<editionVars, activation>>
allVars == <<vars, subVars>>

Pending == {"pending"}
Working == {"queued", "running"}
Resumable == {"paused", "blocked", "retry_wait"}
ActiveWorkflows == Pending \cup Working \cup Resumable
Closed == {"completed", "failed", "cancelled", "skipped"}
Workflows == {"none"} \cup ActiveWorkflows \cup Closed
\* NULL; schedule_paused; one of JOB_BLOCK_REASONS; any other.
Reasons == {"none", "schedule", "probed", "other"}
\* "paused" by the schedule control, or disabled by an "edited" definition
Activations == {"enabled", "paused", "edited", "archived"}

EditionOf(j) == KeyOf[j]
IsEdition(j) == j \in EditionJobs
EditionsOf(s) == {e \in Editions : SubOf[e] = s}
JobsFor(e) == {j \in EditionJobs : KeyOf[j] = e /\ Exists(j)}
HasJob(e) == JobsFor(e) # {}
Enabled(e) == activation[SubOf[e]] = "enabled"
ActiveEditions(s) == {e \in EditionsOf(s) : workflow[e] \in ActiveWorkflows}
Earlier(e) == {f \in EditionsOf(SubOf[e]) \ Manual : f < e}

SubInit ==
  /\ Init
  /\ workflow = [e \in Editions |-> "none"]
  /\ reason = [e \in Editions |-> "none"]
  /\ attempt = [e \in Editions |-> 0]
  /\ lease = [e \in Editions |-> 0]
  /\ spent = {}
  /\ auto = [e \in Editions |-> 0]
  /\ activation = [s \in Subs |-> "enabled"]

-----------------------------------------------------------------------------
(* Updates of one edition *)

\* advance, where only the workflow and its reason matter.
Advance(e, w, r) ==
  /\ workflow' = [workflow EXCEPT ![e] = w]
  /\ reason' = [reason EXCEPT ![e] = r]

\* finish_attempt
CloseAttempt(e) == lease' = [lease EXCEPT ![e] = 0]

\* start_attempt closes an attempt a control left open and opens one for t.
NewLease(e, t) == t

\* The number of the new attempt
NextAttempt(e) == IF attempt[e] > MaxRetries THEN attempt[e] ELSE attempt[e] + 1

OnlyEdition == UNCHANGED <<attempt, lease, spent, auto, activation>>

-----------------------------------------------------------------------------
(* Admission *)

\* Faulty: what was read while preparing, or with the list of due editions, is
\* trusted.
WasEnabled(e) == TRUE

\* The subscription is read again under the locks.
StillEnabled(e) == Enabled(e)

\* A job-less pending edition yields to a newer slot; it is never a manual
\* edition that takes its place.
Supersedable(e, f) ==
  /\ workflow[f] = "pending"
  /\ e \notin Manual /\ (f \in Manual \/ f < e)

\* The edition is waiting, or may be reserved: `active` is none or superseded.
Admissible(e) ==
  \/ workflow[e] = "pending"
  \/ /\ workflow[e] = "none"
     /\ \A f \in ActiveEditions(SubOf[e]) : Supersedable(e, f)

\* Faulty: the edition it takes the place of is left pending.
ReserveAlone(e, w) ==
  /\ workflow' = [f \in Editions |->
       CASE f = e -> w
         [] f # e /\ e \notin Manual /\ f \in Earlier(e) /\ workflow[f] = "none" -> "skipped"
         [] OTHER -> workflow[f]]
  /\ reason' = [reason EXCEPT ![e] = IF w = "blocked" THEN "other" ELSE "none"]

\* reserve, with skip_unstarted for the superseded edition and record_skipped
\* for the slots missed before a scheduled one; then `advance`.
Reserve(e, w) ==
  /\ workflow' = [f \in Editions |->
       CASE f = e -> w
         [] f # e /\ workflow[e] = "none" /\ f \in ActiveEditions(SubOf[e]) -> "skipped"
         [] f # e /\ e \notin Manual /\ f \in Earlier(e) /\ workflow[f] = "none" -> "skipped"
         [] OTHER -> workflow[f]]
  /\ reason' = [reason EXCEPT ![e] = IF w = "blocked" THEN "other" ELSE "none"]

\* _prepare and _prepare_manual freeze the edition outside every lock.  The
\* superseded edition they remember is the one found at admission, or the
\* candidate is dropped.
SubPrepare(j) ==
  /\ Prepare(j)
  /\ IsEdition(j) => /\ Enabled(EditionOf(j))
                     /\ workflow[EditionOf(j)] \in {"none", "pending"}
                     /\ EditionOf(j) \in Manual \/ Admissible(EditionOf(j))
  /\ UNCHANGED subVars

SubAdmit(j) ==
  /\ AdmitPrepared(j)
  /\ IF IsEdition(j)
     THEN StillEnabled(EditionOf(j)) /\ Admissible(EditionOf(j)) /\ Reserve(EditionOf(j), "queued")
     ELSE UNCHANGED <<workflow, reason>>
  /\ OnlyEdition

SubAdmitDropped(j) == AdmitDropped(j) /\ UNCHANGED subVars

\* admission_wait: the edition is saved without a job, to be tried again when
\* there is capacity, or later when a monthly or research limit allows it.
AdmitWait(j) ==
  LET e == EditionOf(j) IN
  /\ AdmitDropped(j)
  /\ IsEdition(j) /\ StillNew(j) /\ StillEnabled(e) /\ Admissible(e)
  /\ \/ ~(HasCapacity(OwnerOf[j]) /\ HasRoom(OwnerOf[j])) /\ Reserve(e, "pending")
     \/ Reserve(e, "blocked")
  /\ OnlyEdition

\* reopen_admission_block
Reopen(e) ==
  /\ workflow[e] = "blocked" /\ ~HasJob(e)
  /\ Advance(e, "pending", "none")
  /\ OnlyEdition /\ UNCHANGED vars

\* skip_covered_due: a completed edition already covers the slots up to e.
SkipCovered(e) ==
  LET s == SubOf[e] IN
  /\ Enabled(e) /\ e \notin Manual /\ workflow[e] = "none"
  /\ \E f \in EditionsOf(s) : workflow[f] = "completed"
  /\ \A f \in ActiveEditions(s) : workflow[f] = "pending"
  /\ workflow' = [f \in Editions |->
       IF f \in ActiveEditions(s) \/ (f \in Earlier(e) \cup {e} /\ workflow[f] = "none")
       THEN "skipped" ELSE workflow[f]]
  /\ UNCHANGED reason /\ OnlyEdition /\ UNCHANGED vars

-----------------------------------------------------------------------------
(* The owner's controls *)

\* control_subscription_job and control_edition, "pause"
SubPause(j) ==
  /\ Pause(j)
  /\ IF IsEdition(j)
     THEN workflow[EditionOf(j)] \in Working /\ Advance(EditionOf(j), "paused", "other")
     ELSE UNCHANGED <<workflow, reason>>
  /\ OnlyEdition

\* "resume" and "retry": report_job_gate wants the subscription enabled, and
\* resumed_payload a budget.
SubResume(j) ==
  /\ Resume(j)
  /\ IF IsEdition(j)
     THEN /\ Enabled(EditionOf(j)) /\ EditionOf(j) \notin spent
          /\ workflow[EditionOf(j)] \in Resumable
          /\ Advance(EditionOf(j), "queued", "none")
     ELSE UNCHANGED <<workflow, reason>>
  /\ OnlyEdition

SubDiscard(j) == Discard(j) /\ UNCHANGED subVars

\* The jobs of the subscription's active edition.
ActiveJobs(s) == {j \in Jobs : \E e \in ActiveEditions(s) : j \in JobsFor(e)}
SetActivation(s, a) == activation' = [activation EXCEPT ![s] = a]
NotArchived(s) == activation[s] # "archived"

\* Faulty: only a running job is paused.
RunningOf(s) == {j \in ActiveJobs(s) : status[j] = "running"}

\* The job a schedule control has to stop
ToStop(s) == {j \in ActiveJobs(s) : status[j] \in Active}

StopJobs(s) == IF ToStop(s) = {} THEN UNCHANGED vars ELSE \E j \in ToStop(s) : Pause(j)

\* POST pause, also when the subscription is disabled already.
Disable(s) ==
  LET pausable == {e \in ActiveEditions(s) : HasJob(e) /\ workflow[e] \in Working \cup {"retry_wait"}} IN
  /\ NotArchived(s)
  /\ SetActivation(s, "paused")
  /\ StopJobs(s)
  /\ IF pausable = {} THEN UNCHANGED <<workflow, reason>>
     ELSE \E e \in pausable : Advance(e, "paused", "schedule")
  /\ UNCHANGED <<attempt, lease, spent, auto>>

\* POST resume of a disabled subscription: an edition the schedule control
\* paused must resume in the same transaction, or nothing changes.
Enable(s) ==
  LET waiting == {e \in ActiveEditions(s) : workflow[e] = "paused" /\ reason[e] = "schedule"} IN
  /\ activation[s] \in {"paused", "edited"}
  /\ SetActivation(s, "enabled")
  /\ IF waiting = {} THEN UNCHANGED <<vars, workflow, reason>>
     ELSE \E e \in waiting, j \in Jobs :
            /\ j \in JobsFor(e) /\ Resume(j) /\ e \notin spent
            /\ Advance(e, "queued", "none")
  /\ UNCHANGED <<attempt, lease, spent, auto>>

\* PUT: the definition is saved with another value of enabled.
EditActivation(s) ==
  /\ NotArchived(s)
  /\ SetActivation(s, IF activation[s] = "enabled" THEN "edited" ELSE "enabled")
  /\ UNCHANGED <<vars, editionVars>>

\* Faulty: every edition of the subscription is cancelled.
AllEditions(s) == EditionsOf(s)

\* The edition a deletion cancels
ToCancel(s) == ActiveEditions(s)

\* DELETE: the active edition is cancelled for ever.
Archive(s) ==
  /\ NotArchived(s)
  /\ SetActivation(s, "archived")
  /\ StopJobs(s)
  /\ workflow' = [e \in Editions |-> IF e \in ToCancel(s) THEN "cancelled" ELSE workflow[e]]
  /\ UNCHANGED <<reason, attempt, lease, spent, auto>>

-----------------------------------------------------------------------------
(* The background loops *)

\* The first transaction of a tick: expired jobs, then their editions, then
\* the open attempts of jobs that stopped by other means.
SubRecover ==
  /\ RecoverExpired \/ (Idle /\ UNCHANGED vars)
  /\ LET stopped(e) == \E j \in JobsFor(e) : status'[j] \in Stopped \cup Final
         recovered == {e \in Editions : workflow[e] = "running" /\
                         \E j \in JobsFor(e) : status'[j] = "paused"}
     IN
     /\ workflow' = [e \in Editions |-> IF e \in recovered THEN "paused" ELSE workflow[e]]
     /\ reason' = [e \in Editions |-> IF e \in recovered THEN "other" ELSE reason[e]]
     /\ lease' = [e \in Editions |-> IF stopped(e) THEN 0 ELSE lease[e]]
  /\ UNCHANGED <<attempt, spent, auto, activation>>

SubResumeDue(j) ==
  LET e == EditionOf(j) IN
  /\ ResumeDue(j)
  /\ workflow[e] = "retry_wait" /\ StillEnabled(e) /\ lease[e] = 0 /\ e \notin spent
  /\ Advance(e, "queued", "none")
  /\ auto' = [auto EXCEPT ![e] = @ + 1]
  /\ UNCHANGED <<attempt, lease, spent, activation>>

\* The horizon of a day passed; or the saved payload, the budget or the
\* monthly limit no longer allows an automatic retry.
SubStopWaiting(j) ==
  LET e == EditionOf(j) IN
  /\ StopWaiting(j)
  /\ workflow[e] = "retry_wait" /\ StillEnabled(e) /\ lease[e] = 0
  /\ \/ status'[j] = "failed" /\ Advance(e, "failed", "none")
     \/ status'[j] = "paused" /\ Advance(e, "paused", "other")
     \/ status'[j] = "paused" /\ Advance(e, "blocked", "probed")
  /\ OnlyEdition

\* resume_blocked; a probe that is refused is only postponed.
Probe(j) ==
  LET e == EditionOf(j) IN
  /\ IsEdition(j) /\ Resume(j)
  /\ workflow[e] = "blocked" /\ reason[e] = "probed" /\ StillEnabled(e) /\ e \notin spent
  /\ Advance(e, "queued", "none")
  /\ OnlyEdition

StartAttempt(e, t) ==
  /\ workflow[e] = "queued"
  /\ workflow' = [workflow EXCEPT ![e] = "running"]
  /\ attempt' = [attempt EXCEPT ![e] = NextAttempt(e)]
  /\ lease' = [lease EXCEPT ![e] = NewLease(e, t)]
  /\ UNCHANGED <<reason, spent, auto, activation>>

SubClaim(j, t) ==
  /\ Claim(j, t)
  /\ IF IsEdition(j) THEN StartAttempt(EditionOf(j), t) ELSE UNCHANGED subVars

\* ReportJobCalls.reserve and settle, as far as has_budget can tell.
Spend(j, t) ==
  /\ IsEdition(j) /\ EditionOf(j) \notin spent
  /\ pc[j][t] = "working" /\ Fence(j, t) /\ Enabled(EditionOf(j))
  /\ spent' = spent \cup {EditionOf(j)}
  /\ UNCHANGED <<vars, workflow, reason, attempt, lease, auto, activation>>

\* publish_subscription_edition inside the job's final transaction
SubPublish(j, t) ==
  /\ Publish(j, t)
  /\ IF IsEdition(j)
     THEN /\ Enabled(EditionOf(j)) /\ workflow[EditionOf(j)] \in Working
          /\ Advance(EditionOf(j), "completed", "none")
     ELSE UNCHANGED <<workflow, reason>>
  /\ OnlyEdition

\* decide_retry: failed_attempt is within RETRY_DELAYS.
RetriesLeft(e) == attempt[e] <= MaxRetries

\* Faulty: the retry decision's name is saved as the workflow.
DecisionOutcome(e, s, err) ==
  CASE s = "failed" -> {<<"fail", "none">>}
    [] err = "transient" -> {<<"retry_wait", "none">>}
    [] OTHER -> {<<"pause_for_resume", "other">>, <<"block", "other">>}

\* The edition's outcome for the job's (status, error class)
EditionOutcome(e, s, err) ==
  CASE s = "failed" -> {<<"failed", "none">>}
    [] err = "transient" -> IF RetriesLeft(e) /\ e \notin spent
                            THEN {<<"retry_wait", "none">>} ELSE {}
    [] err = "final" -> {<<"paused", "other">>}
    [] OTHER -> {<<"paused", "other">>, <<"blocked", "probed">>, <<"blocked", "other">>}

\* SubscriptionRetry.pause rolls back unless the attempt it ends is the task's.
SubPauseStopped(j, t) ==
  LET e == EditionOf(j) IN
  /\ PauseStopped(j, t)
  /\ IF IsEdition(j)
     THEN /\ workflow[e] = "running" /\ lease[e] = t
          /\ \E o \in EditionOutcome(e, status'[j], error'[j]) : Advance(e, o[1], o[2])
          /\ CloseAttempt(e)
     ELSE UNCHANGED <<workflow, reason, lease>>
  /\ UNCHANGED <<attempt, spent, auto, activation>>

\* After a publication the attempt is closed, unless the database fails.
SubEndTask(j, t) ==
  LET e == EditionOf(j) IN
  /\ EndTask(j, t)
  /\ \/ UNCHANGED lease
     \/ IsEdition(j) /\ status[j] \in Final /\ lease[e] = t /\ CloseAttempt(e)
  /\ UNCHANGED <<workflow, reason, attempt, spent, auto, activation>>

-----------------------------------------------------------------------------
SubControls(j) == SubPrepare(j) \/ SubAdmit(j) \/ SubAdmitDropped(j) \/ AdmitWait(j)
                  \/ SubPause(j) \/ SubResume(j) \/ SubDiscard(j)
ScheduleControls(s) == Disable(s) \/ Enable(s) \/ EditActivation(s) \/ Archive(s)
EditionLoops(e) == Reopen(e) \/ SkipCovered(e)
SubTickJob(j) == SubResumeDue(j) \/ SubStopWaiting(j) \/ Probe(j)
SubTask(j, t) == SubPublish(j, t) \/ SubPauseStopped(j, t) \/ SubEndTask(j, t) \/ Spend(j, t)
\* Steps of the queue that no edition takes part in
QueueOnly ==
  /\ \/ Reap \/ ReadQueue \/ EndTick \/ Stop \/ Start \/ Crash
     \/ \E j \in Jobs : SkipListed(j) \/ LeaseExpires(j) \/ \E t \in Tokens : StartTask(j, t) \/ WorkFails(j, t)
  /\ UNCHANGED subVars

SubNext ==
  \/ \E j \in Jobs : SubControls(j) \/ SubTickJob(j)
  \/ \E s \in Subs : ScheduleControls(s)
  \/ \E e \in Editions : EditionLoops(e)
  \/ \E j \in Jobs, t \in Tokens : SubClaim(j, t) \/ SubTask(j, t)
  \/ SubRecover \/ QueueOnly

SubSpec == SubInit /\ [][SubNext]_allVars

-----------------------------------------------------------------------------
(* Properties *)

\* Every variable has its type.
SubTypeOK ==
  /\ TypeOK
  /\ workflow \in [Editions -> Workflows]
  /\ reason \in [Editions -> Reasons]
  /\ attempt \in [Editions -> 0..(MaxRetries + 1)]
  /\ lease \in [Editions -> Tokens \cup {0}]
  /\ spent \in SUBSET Editions
  /\ auto \in [Editions -> Nat]
  /\ activation \in [Subs -> Activations]

\* The workflows an edition may have while its job has the status s
Matching(s) ==
  CASE s = "queued" -> {"queued"}
    [] s = "running" -> {"running"}
    [] s = "paused" -> Resumable \cup {"cancelled"}
    [] s = "failed" -> {"failed"}
    [] s \in Final -> {"completed"}

\* An edition and its job never drift apart, although five writers (worker,
\* retry loop, probe, job controls, schedule controls) move both: in particular
\* no control strands a paused job under an edition that still says running.
JobMatchesEdition ==
  \A e \in Editions :
    /\ \A j \in JobsFor(e) : workflow[e] \in Matching(status[j])
    /\ ~HasJob(e) => workflow[e] \in {"none", "pending", "blocked", "cancelled", "skipped"}

\* A subscription has at most one active edition: a due slot, a catch-up and a
\* "run now" prepared at the same time are not all admitted.
OneActiveEdition == \A s \in Subs : Cardinality(ActiveEditions(s)) <= 1

\* While an edition runs, its open attempt is the job's current lease, so usage
\* and outcome are booked on the attempt that did the work.
AttemptIsLease ==
  \A e \in Editions : workflow[e] = "running" =>
    \E j \in JobsFor(e) : lease[e] = token[j] /\ token[j] # 0

\* The edition follows its job, in its workflow and in the attempt it is booked on.
EditionFollowsJob == JobMatchesEdition /\ AttemptIsLease

\* A subscription that was paused or deleted has nothing in the queue: neither a
\* due retry, a probe, nor a candidate prepared before slips past the control.
PausedIsQuiet ==
  \A s \in Subs : activation[s] \in {"paused", "archived"} =>
    \A e \in EditionsOf(s) : workflow[e] \notin Working

\* However pauses, resumes, crashes and lost leases mix with failures, an edition
\* is retried automatically at most MaxRetries times.
RetriesBounded == \A e \in Editions : auto[e] <= MaxRetries

\* A finished edition, or one whose subscription is deleted, stays as it is.
ClosedKept ==
  \A e \in Editions :
    /\ workflow[e] \in Closed => workflow'[e] = workflow[e]
    /\ activation[SubOf[e]] = "archived" => workflow'[e] = workflow[e]

\* A finished edition is never reopened, and none starts after the deletion of
\* its subscription.
ClosedStays == [][ClosedKept]_subVars

\* DURABLE_RESEARCH_JOBS.md: "Paused jobs that cannot resume can be discarded
\* after confirmation. Discard removes their saved progress and releases
\* capacity".
CanDiscard(j) == ~IsEdition(j)
CanResume(j) ==
  /\ error[j] # "final"
  /\ IsEdition(j) => workflow[EditionOf(j)] \in Resumable /\ EditionOf(j) \notin spent
PausedJobsCanLeave == \A j \in Jobs : status[j] = "paused" => CanResume(j) \/ CanDiscard(j)

\* SUBSCRIPTIONS_OPERATIONS.md: "Resume re-enables the saved cadence and resumes
\* only a job paused by the schedule control": nothing but a full queue may
\* refuse to enable a paused subscription.
ScheduleCanResume ==
  \A s \in Subs : activation[s] = "paused" =>
    \A e \in ActiveEditions(s) :
      workflow[e] = "paused" /\ reason[e] = "schedule" => \A j \in JobsFor(e) : CanResume(j)
=============================================================================
