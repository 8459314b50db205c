-------------------------- MODULE SubscriptionsProofs --------------------------
(***************************************************************************)
(* Theorems about Subscriptions.  Its steps are steps of the queue, so     *)
(* every theorem about ReportJobs holds of it.  On top of them: edition,   *)
(* job and attempt keep together, one edition of a subscription is active, *)
(* a paused subscription is quiet, retries are bounded, ends are final.    *)
(***************************************************************************)
EXTENDS SubscriptionsService, ReportJobsProofs

-----------------------------------------------------------------------------
(* The queue under the editions *)

LEMMA SubControlIsControl ==
  ASSUME NEW j \in Jobs, SubControls(j) PROVE Controls(j)
  BY DEF SubControls, SubPrepare, SubAdmit, SubAdmitDropped, AdmitWait, SubPause, SubResume,
         SubDiscard, Controls

LEMMA StopJobsIsStep == ASSUME NEW s \in Subs, StopJobs(s) PROVE [Next]_vars
  <1>1. ASSUME NEW j \in Jobs, Pause(j) PROVE Next
    BY <1>1 DEF Controls, Next
  <1> QED
    BY <1>1 DEF StopJobs, ToStop, ActiveJobs

LEMMA SubStep == ASSUME [SubNext]_allVars PROVE [Next]_vars
  <1>1. ASSUME NEW j \in Jobs, SubControls(j) PROVE Next
    BY <1>1, SubControlIsControl DEF Next
  <1>2. ASSUME NEW j \in Jobs, SubTickJob(j) PROVE Next
    <2>1. TickJob(j) \/ Controls(j)
      BY <1>2 DEF SubTickJob, SubResumeDue, SubStopWaiting, Probe, TickJob, Controls
    <2> QED
      BY <2>1 DEF Next
  <1>3. ASSUME NEW s \in Subs, ScheduleControls(s) PROVE [Next]_vars
    <2>1. CASE Disable(s) \/ Archive(s)
      BY <2>1, StopJobsIsStep DEF Disable, Archive
    <2>2. CASE Enable(s)
      <3>1. UNCHANGED vars \/ \E j \in Jobs : Resume(j)
        BY <2>2 DEF Enable
      <3> QED
        BY <3>1 DEF Controls, Next
    <2>3. CASE EditActivation(s)
      BY <2>3 DEF EditActivation
    <2> QED
      BY <1>3, <2>1, <2>2, <2>3 DEF ScheduleControls
  <1>4. ASSUME NEW e \in Editions, EditionLoops(e) PROVE UNCHANGED vars
    BY <1>4 DEF EditionLoops, Reopen, SkipCovered
  <1>5. ASSUME NEW j \in Jobs, NEW t \in Tokens, SubClaim(j, t) PROVE Next
    BY <1>5 DEF SubClaim, ClaimJob, Next
  <1>6. ASSUME NEW j \in Jobs, NEW t \in Tokens, SubTask(j, t) PROVE [Next]_vars
    <2>1. TaskStep(j, t) \/ UNCHANGED vars
      BY <1>6 DEF SubTask, SubPublish, SubPauseStopped, SubEndTask, Spend, TaskStep
    <2> QED
      BY <2>1 DEF Next
  <1>7. CASE SubRecover
    BY <1>7 DEF SubRecover, TickPass, Next
  <1>8. CASE QueueOnly
    <2>1. CASE Reap \/ ReadQueue \/ EndTick \/ Stop \/ Start \/ Crash
      BY <2>1 DEF TickPass, Next
    <2>2. CASE \E j \in Jobs : SkipListed(j) \/ LeaseExpires(j)
      BY <2>2 DEF TickJob, Next
    <2>3. CASE \E j \in Jobs, t \in Tokens : StartTask(j, t) \/ WorkFails(j, t)
      BY <2>3 DEF ClaimJob, TaskStep, Next
    <2> QED
      BY <1>8, <2>1, <2>2, <2>3 DEF QueueOnly
  <1>9. CASE UNCHANGED allVars
    BY <1>9 DEF allVars
  <1> QED
    BY <1>1, <1>2, <1>3, <1>4, <1>5, <1>6, <1>7, <1>8, <1>9 DEF SubNext

\* The editions ride on the queue without bending its rules: whatever is proved
\* of ReportJobs holds with subscriptions, retries and probes at work.
THEOREM SubscriptionsUseQueue == SubSpec => Spec
  <1>1. SubInit => Init
    BY DEF SubInit
  <1>2. [SubNext]_allVars => [Next]_vars
    BY SubStep
  <1> QED
    BY <1>1, <1>2, PTL DEF SubSpec, Spec

\* To the owner, editions are reports like any other: with their attempts, retries
\* and probes at work, each request of the queue is served as ReportService says.
THEOREM EditionsServed == SubSpec => ImplementsService
  BY SubscriptionsUseQueue, ServiceCorrect

-----------------------------------------------------------------------------
(* What a step may do to the editions, forgetting the jobs, the reasons and   *)
(* the leases of attempts.                                                    *)

\* Where an update of one active edition may lead
Onward(e) == {w \in Workflows :
  \/ w = "pending" /\ workflow[e] = "blocked"
  \/ w \in {"paused", "blocked", "failed"} /\ workflow[e] \in Working \cup {"retry_wait"}
  \/ w = "retry_wait" /\ workflow[e] = "running" /\ RetriesLeft(e)
  \/ w = "queued" /\ workflow[e] \in Resumable /\ Enabled(e)
  \/ w = "completed" /\ workflow[e] \in Working /\ Enabled(e)}

Reserves(e) == /\ Enabled(e) /\ Admissible(e)
               /\ \E w \in {"queued", "pending", "blocked"} : Reserve(e, w)
               /\ UNCHANGED <<attempt, auto, activation>>
Advances(e) == /\ workflow[e] \in ActiveWorkflows
               /\ \E w \in Onward(e) : workflow' = [workflow EXCEPT ![e] = w]
               /\ UNCHANGED <<attempt, auto, activation>>
Retries(e) == /\ workflow[e] = "retry_wait" /\ Enabled(e)
              /\ workflow' = [workflow EXCEPT ![e] = "queued"]
              /\ auto' = [auto EXCEPT ![e] = @ + 1]
              /\ UNCHANGED <<attempt, activation>>
Starts(e) == /\ workflow[e] = "queued"
             /\ workflow' = [workflow EXCEPT ![e] = "running"]
             /\ attempt' = [attempt EXCEPT ![e] = NextAttempt(e)]
             /\ UNCHANGED <<auto, activation>>
\* Every running edition whose job was recovered
Recovers ==
  /\ \E R \in SUBSET {e \in Editions : workflow[e] = "running"} :
       workflow' = [e \in Editions |-> IF e \in R THEN "paused" ELSE workflow[e]]
  /\ UNCHANGED <<attempt, auto, activation>>

EditionStep ==
  \/ UNCHANGED <<workflow, attempt, auto, activation>>
  \/ \E e \in Editions : Reserves(e) \/ Advances(e) \/ Retries(e) \/ Starts(e) \/ SkipCovered(e)
  \/ \E s \in Subs : ScheduleControls(s)
  \/ Recovers

LEMMA EditionOfJob == ASSUME NEW j \in EditionJobs PROVE EditionOf(j) \in Editions
  BY DEF EditionOf, Editions

\* What Onward holds, and that it leads from an active edition.
LEMMA OnwardLeads ==
  ASSUME NEW e
  PROVE  /\ workflow[e] = "blocked" => "pending" \in Onward(e)
         /\ workflow[e] \in Working \cup {"retry_wait"} => {"paused", "blocked", "failed"} \subseteq Onward(e)
         /\ workflow[e] = "running" /\ RetriesLeft(e) => "retry_wait" \in Onward(e)
         /\ workflow[e] \in Resumable /\ Enabled(e) => "queued" \in Onward(e)
         /\ workflow[e] \in Working /\ Enabled(e) => "completed" \in Onward(e)
         /\ {"blocked", "retry_wait", "running"} \cup Working \cup Resumable \subseteq ActiveWorkflows
  BY DEF Onward, Workflows, ActiveWorkflows, Pending, Working, Resumable, Closed

LEMMA StepsEditions == ASSUME [SubNext]_allVars PROVE EditionStep
  <1> USE DEF EditionStep, OnlyEdition
  <1>1. ASSUME NEW j \in Jobs, SubControls(j) PROVE EditionStep
    <2>1. CASE SubPrepare(j) \/ SubAdmitDropped(j) \/ SubDiscard(j)
      BY <2>1 DEF SubPrepare, SubAdmitDropped, SubDiscard, subVars, editionVars
    <2>2. CASE SubAdmit(j)
      BY <2>2, EditionOfJob DEF SubAdmit, StillEnabled, IsEdition, Reserves
    <2>3. CASE AdmitWait(j)
      BY <2>3, EditionOfJob DEF AdmitWait, StillEnabled, IsEdition, Reserves
    <2>4. CASE SubPause(j)
      BY <2>4, EditionOfJob, OnwardLeads DEF SubPause, IsEdition, Advance, Advances
    <2>5. CASE SubResume(j)
      BY <2>5, EditionOfJob, OnwardLeads DEF SubResume, IsEdition, Advance, Advances
    <2> QED
      BY <1>1, <2>1, <2>2, <2>3, <2>4, <2>5 DEF SubControls
  <1>2. ASSUME NEW j \in Jobs, SubTickJob(j) PROVE EditionStep
    <2>1. CASE SubResumeDue(j)
      BY <2>1, EditionOfJob DEF SubResumeDue, ResumeDue, StillEnabled, Advance, Retries
    <2>2. CASE SubStopWaiting(j)
      <3>1. EditionOf(j) \in Editions /\ workflow[EditionOf(j)] = "retry_wait"
            /\ UNCHANGED <<attempt, auto, activation>>
        BY <2>2, EditionOfJob DEF SubStopWaiting, StopWaiting
      <3>2. \E w \in {"failed", "paused", "blocked"} :
              workflow' = [workflow EXCEPT ![EditionOf(j)] = w]
        BY <2>2 DEF SubStopWaiting, Advance
      <3> QED
        BY <3>1, <3>2, OnwardLeads DEF Advances, Resumable
    <2>3. CASE Probe(j)
      BY <2>3, EditionOfJob, OnwardLeads
      DEF Probe, IsEdition, StillEnabled, Advance, Advances, Resumable
    <2> QED
      BY <1>2, <2>1, <2>2, <2>3 DEF SubTickJob
  <1>3. ASSUME NEW e \in Editions, EditionLoops(e) PROVE EditionStep
    BY <1>3, OnwardLeads DEF EditionLoops, Reopen, Advance, Advances, Resumable
  <1>4. ASSUME NEW j \in Jobs, NEW t \in Tokens, SubClaim(j, t) PROVE EditionStep
    BY <1>4, EditionOfJob DEF SubClaim, IsEdition, StartAttempt, Starts, subVars, editionVars
  <1>5. ASSUME NEW j \in Jobs, NEW t \in Tokens, SubTask(j, t) PROVE EditionStep
    <2>1. CASE SubPublish(j, t)
      BY <2>1, EditionOfJob, OnwardLeads DEF SubPublish, IsEdition, Advance, Advances
    <2>2. CASE SubPauseStopped(j, t)
      <3>1. CASE IsEdition(j)
        <4>1. PICK o \in EditionOutcome(EditionOf(j), status'[j], error'[j]) :
                Advance(EditionOf(j), o[1], o[2])
          BY <2>2, <3>1 DEF SubPauseStopped
        <4>2. EditionOf(j) \in Editions /\ workflow[EditionOf(j)] = "running"
              /\ UNCHANGED <<attempt, auto, activation>>
          BY <2>2, <3>1, EditionOfJob DEF SubPauseStopped, IsEdition
        <4>3. o[1] \in Onward(EditionOf(j))
          BY <4>1, <4>2, OnwardLeads DEF EditionOutcome, Working
        <4> QED
          BY <4>1, <4>2, <4>3 DEF Advance, Advances, ActiveWorkflows, Working
      <3>2. CASE ~IsEdition(j)
        BY <2>2, <3>2 DEF SubPauseStopped
      <3> QED
        BY <3>1, <3>2
    <2>3. CASE SubEndTask(j, t) \/ Spend(j, t)
      BY <2>3 DEF SubEndTask, Spend
    <2> QED
      BY <1>5, <2>1, <2>2, <2>3 DEF SubTask
  <1>6. CASE SubRecover
    <2>1. UNCHANGED <<attempt, auto, activation>>
      BY <1>6 DEF SubRecover
    <2> DEFINE R == {e \in Editions : workflow[e] = "running" /\
                                      \E j \in JobsFor(e) : status'[j] = "paused"}
    <2>2. workflow' = [e \in Editions |-> IF e \in R THEN "paused" ELSE workflow[e]]
      BY <1>6 DEF SubRecover
    <2>3. R \in SUBSET {e \in Editions : workflow[e] = "running"}
      OBVIOUS
    <2> QED
      BY <2>1, <2>2, <2>3 DEF Recovers
  <1>7. CASE QueueOnly \/ UNCHANGED allVars
    BY <1>7 DEF QueueOnly, allVars, subVars, editionVars
  <1> QED
    BY <1>1, <1>2, <1>3, <1>4, <1>5, <1>6, <1>7 DEF SubNext

-----------------------------------------------------------------------------
(* Types *)

EditionTypes == /\ workflow \in [Editions -> Workflows]
                /\ attempt \in [Editions -> 0..(MaxRetries + 1)]
                /\ auto \in [Editions -> Nat]
                /\ activation \in [Subs -> Activations]
AttemptTypes == /\ reason \in [Editions -> Reasons]
                /\ lease \in [Editions -> Tokens \cup {0}]
                /\ spent \in SUBSET Editions

LEMMA EditionTypesStep == ASSUME EditionTypes, EditionStep PROVE EditionTypes'
  <1> USE DEF EditionTypes
  <1>1. \A w \in ActiveWorkflows \cup Closed : w \in Workflows
    BY DEF Workflows
  <1>2. ASSUME NEW e \in Editions, NEW w, Reserve(e, w), w \in Workflows
        PROVE  workflow' \in [Editions -> Workflows]
    BY <1>2 DEF Reserve, Workflows, Closed
  <1>3. ASSUME NEW e \in Editions, Reserves(e) PROVE EditionTypes'
    BY <1>2, <1>3 DEF Reserves, Workflows, ActiveWorkflows, Pending, Working, Resumable
  <1>4. ASSUME NEW e \in Editions, Advances(e) PROVE EditionTypes'
    BY <1>4 DEF Advances, Onward, Workflows, ActiveWorkflows, Pending, Working, Resumable, Closed
  <1>5. ASSUME NEW e \in Editions, Retries(e) PROVE EditionTypes'
    BY <1>5 DEF Retries, Workflows, ActiveWorkflows, Working
  <1>6. ASSUME NEW e \in Editions, Starts(e) PROVE EditionTypes'
    <2>1. NextAttempt(e) \in 0..(MaxRetries + 1)
      BY EditionsAssumption DEF NextAttempt
    <2> QED
      BY <1>6, <2>1 DEF Starts, Workflows, ActiveWorkflows, Working
  <1>7. ASSUME NEW e \in Editions, SkipCovered(e) PROVE EditionTypes'
    BY <1>7 DEF SkipCovered, OnlyEdition, Workflows, Closed
  <1>8. ASSUME NEW s \in Subs, ScheduleControls(s) PROVE EditionTypes'
    <2>1. CASE Disable(s)
      BY <2>1 DEF Disable, SetActivation, Advance, ActiveEditions, EditionsOf, Activations,
                  Workflows, ActiveWorkflows, Resumable
    <2>2. CASE Enable(s)
      BY <2>2 DEF Enable, SetActivation, Advance, ActiveEditions, EditionsOf, Activations,
                  Workflows, ActiveWorkflows, Working
    <2>3. CASE EditActivation(s)
      BY <2>3 DEF EditActivation, SetActivation, editionVars, Activations
    <2>4. CASE Archive(s)
      BY <2>4 DEF Archive, SetActivation, Activations, Workflows, Closed
    <2> QED
      BY <1>8, <2>1, <2>2, <2>3, <2>4 DEF ScheduleControls
  <1>9. CASE Recovers
    BY <1>9 DEF Recovers, Workflows, ActiveWorkflows, Resumable
  <1> QED
    BY <1>3, <1>4, <1>5, <1>6, <1>7, <1>8, <1>9 DEF EditionStep

LEMMA AttemptTypesStep == ASSUME AttemptTypes, [SubNext]_allVars PROVE AttemptTypes'
  <1> USE DEF AttemptTypes, OnlyEdition
  <1>1. ASSUME NEW e, NEW w, NEW r \in Reasons, Advance(e, w, r)
        PROVE  reason' \in [Editions -> Reasons]
    BY <1>1 DEF Advance
  <1>2. ASSUME NEW e, NEW w, Reserve(e, w) PROVE reason' \in [Editions -> Reasons]
    BY <1>2 DEF Reserve, Reasons
  <1>3. {"none", "schedule", "probed", "other"} \subseteq Reasons
    BY DEF Reasons
  <1>4. ASSUME NEW j \in Jobs, SubControls(j) PROVE AttemptTypes'
    BY <1>1, <1>2, <1>3, <1>4
    DEF SubControls, SubPrepare, SubAdmit, SubAdmitDropped, AdmitWait, SubPause, SubResume,
        SubDiscard, subVars, editionVars
  <1>5. ASSUME NEW j \in Jobs, SubTickJob(j) PROVE AttemptTypes'
    BY <1>1, <1>3, <1>5 DEF SubTickJob, SubResumeDue, SubStopWaiting, Probe
  <1>6. ASSUME NEW e \in Editions, EditionLoops(e) PROVE AttemptTypes'
    BY <1>1, <1>3, <1>6 DEF EditionLoops, Reopen, SkipCovered
  <1>7. ASSUME NEW s \in Subs, ScheduleControls(s) PROVE AttemptTypes'
    BY <1>1, <1>3, <1>7
    DEF ScheduleControls, Disable, Enable, EditActivation, Archive, editionVars
  <1>8. ASSUME NEW j \in Jobs, NEW t \in Tokens, SubClaim(j, t) PROVE AttemptTypes'
    BY <1>8 DEF SubClaim, StartAttempt, NewLease, subVars, editionVars
  <1>9. ASSUME NEW j \in Jobs, NEW t \in Tokens, SubTask(j, t) PROVE AttemptTypes'
    <2>1. CASE SubPublish(j, t)
      BY <1>1, <1>3, <2>1 DEF SubPublish
    <2>2. CASE SubPauseStopped(j, t)
      <3>1. CASE IsEdition(j)
        <4>1. PICK o \in EditionOutcome(EditionOf(j), status'[j], error'[j]) :
                Advance(EditionOf(j), o[1], o[2])
          BY <2>2, <3>1 DEF SubPauseStopped
        <4>2. o[2] \in Reasons
          BY DEF EditionOutcome, Reasons
        <4>3. CloseAttempt(EditionOf(j)) /\ UNCHANGED spent
          BY <2>2, <3>1 DEF SubPauseStopped
        <4> QED
          BY <1>1, <4>1, <4>2, <4>3 DEF CloseAttempt
      <3>2. CASE ~IsEdition(j)
        BY <2>2, <3>2 DEF SubPauseStopped
      <3> QED
        BY <3>1, <3>2
    <2>3. CASE SubEndTask(j, t)
      BY <2>3 DEF SubEndTask, CloseAttempt
    <2>4. CASE Spend(j, t)
      BY <2>4, EditionOfJob DEF Spend, IsEdition
    <2> QED
      BY <1>9, <2>1, <2>2, <2>3, <2>4 DEF SubTask
  <1>10. CASE SubRecover
    BY <1>3, <1>10 DEF SubRecover
  <1>11. CASE QueueOnly \/ UNCHANGED allVars
    BY <1>11 DEF QueueOnly, allVars, subVars, editionVars
  <1> QED
    BY <1>4, <1>5, <1>6, <1>7, <1>8, <1>9, <1>10, <1>11 DEF SubNext

-----------------------------------------------------------------------------
(* Automatic retries *)

\* Between two automatic retries an attempt is started, and only a run whose
\* attempt is within MaxRetries may wait for one.
RetriesBehindAttempts ==
  \A e \in Editions :
    /\ auto[e] <= attempt[e] /\ auto[e] <= MaxRetries
    /\ workflow[e] \in {"running", "retry_wait"} => auto[e] < attempt[e]
    /\ workflow[e] = "retry_wait" => attempt[e] <= MaxRetries

LEMMA RetriesStep ==
  ASSUME EditionTypes, RetriesBehindAttempts, EditionStep PROVE RetriesBehindAttempts'
  <1> USE DEF EditionTypes, RetriesBehindAttempts
  <1>1. MaxRetries \in Nat
    BY EditionsAssumption
  <1>2. ASSUME UNCHANGED <<attempt, auto>>,
               \A e \in Editions : /\ workflow'[e] = "running" => workflow[e] = "running"
                                   /\ workflow'[e] = "retry_wait" =>
                                        \/ workflow[e] = "retry_wait"
                                        \/ workflow[e] = "running" /\ RetriesLeft(e)
        PROVE  RetriesBehindAttempts'
    BY <1>2 DEF RetriesLeft
  <1>3. ASSUME NEW e \in Editions, Reserves(e) PROVE RetriesBehindAttempts'
    <2>1. PICK w \in {"queued", "pending", "blocked"} : Reserve(e, w)
      BY <1>3 DEF Reserves
    <2>2. \A f \in Editions : workflow'[f] \in {w, "skipped", workflow[f]}
      BY <2>1 DEF Reserve
    <2> QED
      BY <1>2, <1>3, <2>2 DEF Reserves
  <1>4. ASSUME NEW e \in Editions, Advances(e) PROVE RetriesBehindAttempts'
    <2>1. PICK w \in Onward(e) : workflow' = [workflow EXCEPT ![e] = w]
      BY <1>4 DEF Advances
    <2>2. w # "running" /\ (w = "retry_wait" => workflow[e] = "running" /\ RetriesLeft(e))
      BY DEF Onward
    <2> QED
      BY <1>2, <1>4, <2>1, <2>2 DEF Advances
  <1>5. ASSUME NEW e \in Editions, Retries(e) PROVE RetriesBehindAttempts'
    <2>1. auto'[e] = auto[e] + 1 /\ attempt'[e] = attempt[e] /\ workflow'[e] = "queued"
      BY <1>5 DEF Retries
    <2>2. auto[e] < attempt[e] /\ attempt[e] <= MaxRetries /\ auto[e] \in Nat /\ attempt[e] \in Nat
      BY <1>5, <1>1 DEF Retries
    <2>3. auto'[e] <= attempt'[e] /\ auto'[e] <= MaxRetries
      BY <2>1, <2>2, <1>1
    <2>4. \A f \in Editions \ {e} :
            auto'[f] = auto[f] /\ attempt'[f] = attempt[f] /\ workflow'[f] = workflow[f]
      BY <1>5 DEF Retries
    <2> QED
      BY <2>1, <2>3, <2>4
  <1>6. ASSUME NEW e \in Editions, Starts(e) PROVE RetriesBehindAttempts'
    <2>1. auto'[e] = auto[e] /\ attempt'[e] = NextAttempt(e) /\ workflow'[e] = "running"
      BY <1>6 DEF Starts
    <2>2. auto[e] \in Nat /\ attempt[e] \in 0..(MaxRetries + 1)
      OBVIOUS
    <2>3. auto[e] < NextAttempt(e)
      BY <1>1, <2>2 DEF NextAttempt
    <2>4. \A f \in Editions \ {e} :
            auto'[f] = auto[f] /\ attempt'[f] = attempt[f] /\ workflow'[f] = workflow[f]
      BY <1>6 DEF Starts
    <2>5. NextAttempt(e) \in Nat
      BY <1>1, <2>2 DEF NextAttempt
    <2> QED
      BY <2>1, <2>2, <2>3, <2>4, <2>5
  <1>7. ASSUME NEW e \in Editions, SkipCovered(e) PROVE RetriesBehindAttempts'
    BY <1>2, <1>7 DEF SkipCovered, OnlyEdition
  <1>8. ASSUME NEW s \in Subs, ScheduleControls(s) PROVE RetriesBehindAttempts'
    BY <1>2, <1>8
    DEF ScheduleControls, Disable, Enable, EditActivation, Archive, Advance, editionVars
  <1>9. CASE Recovers
    BY <1>2, <1>9 DEF Recovers
  <1> QED
    BY <1>2, <1>3, <1>4, <1>5, <1>6, <1>7, <1>8, <1>9 DEF EditionStep

-----------------------------------------------------------------------------
(* Active editions *)

IsActive(e) == workflow[e] \in ActiveWorkflows
OneActive ==
  \A e, f \in Editions : SubOf[e] = SubOf[f] /\ IsActive(e) /\ IsActive(f) => e = f
\* The deletion of a subscription ends its active edition.
ArchivedIsOver == \A e \in Editions : activation[SubOf[e]] = "archived" => ~IsActive(e)

LEMMA Disjoint ==
  /\ ActiveWorkflows \cap Closed = {} /\ "none" \notin ActiveWorkflows \cup Closed
  /\ {"queued", "running", "pending", "paused", "blocked", "retry_wait"} = ActiveWorkflows
  BY DEF ActiveWorkflows, Pending, Working, Resumable, Closed

\* A reservation makes one edition active, and puts an end to the one it replaces.
LEMMA ReserveEffect ==
  ASSUME EditionTypes, NEW e \in Editions, NEW w \in {"queued", "pending", "blocked"},
         Admissible(e), Reserve(e, w)
  PROVE  /\ workflow'[e] = w /\ workflow[e] \in {"none", "pending"}
         /\ \A f \in Editions \ {e} :
              \/ workflow'[f] = workflow[f] /\ (SubOf[f] = SubOf[e] => ~IsActive(f) \/ IsActive(e))
              \/ workflow'[f] = "skipped" /\ SubOf[f] = SubOf[e] /\ workflow[f] \in {"none", "pending"}
  <1>1. workflow[e] \in {"none", "pending"} /\ workflow'[e] = w
    BY DEF Admissible, Reserve
  <1>2. ASSUME NEW f \in Editions \ {e}
        PROVE  \/ workflow'[f] = workflow[f] /\ (SubOf[f] = SubOf[e] => ~IsActive(f) \/ IsActive(e))
               \/ /\ workflow'[f] = "skipped" /\ SubOf[f] = SubOf[e]
                  /\ workflow[f] \in {"none", "pending"}
    <2>1. CASE workflow[e] = "none" /\ f \in ActiveEditions(SubOf[e])
      <3>1. workflow'[f] = "skipped"
        BY <2>1 DEF Reserve
      <3>2. SubOf[f] = SubOf[e] /\ workflow[f] = "pending"
        BY <2>1 DEF Admissible, Supersedable, ActiveEditions, EditionsOf
      <3> QED
        BY <3>1, <3>2
    <2>2. CASE ~(workflow[e] = "none" /\ f \in ActiveEditions(SubOf[e]))
      <3>1. \/ workflow'[f] = workflow[f]
            \/ workflow'[f] = "skipped" /\ f \in Earlier(e) /\ workflow[f] = "none"
        BY <2>2 DEF Reserve
      <3>2. SubOf[f] = SubOf[e] => ~IsActive(f) \/ IsActive(e)
        BY <1>1, <2>2, Disjoint DEF ActiveEditions, EditionsOf, IsActive
      <3>3. f \in Earlier(e) => SubOf[f] = SubOf[e]
        BY DEF Earlier, EditionsOf
      <3> QED
        BY <3>1, <3>2, <3>3
    <2> QED
      BY <2>1, <2>2
  <1> QED
    BY <1>1, <1>2

LEMMA OneActiveStep ==
  ASSUME EditionTypes, OneActive, EditionStep PROVE OneActive'
  <1> USE DEF OneActive
  <1>1. ASSUME \A e \in Editions : IsActive(e)' => IsActive(e) PROVE OneActive'
    BY <1>1
  <1>2. ASSUME NEW e \in Editions, Reserves(e) PROVE OneActive'
    <2>1. PICK w \in {"queued", "pending", "blocked"} : Reserve(e, w)
      BY <1>2 DEF Reserves
    <2>2. \A f \in Editions \ {e} :
            \/ workflow'[f] = workflow[f] /\ (SubOf[f] = SubOf[e] => ~IsActive(f) \/ IsActive(e))
            \/ workflow'[f] = "skipped"
      BY <1>2, <2>1, ReserveEffect DEF Reserves
    <2>3. \A f \in Editions \ {e} : IsActive(f)' => IsActive(f) /\ SubOf[f] # SubOf[e]
      BY <2>2, Disjoint DEF IsActive, Closed
    <2> QED
      BY <2>3
  <1>3. ASSUME NEW e \in Editions, Advances(e) \/ Retries(e) \/ Starts(e) PROVE OneActive'
    <2>1. IsActive(e) /\ \A f \in Editions \ {e} : workflow'[f] = workflow[f]
      BY <1>3, Disjoint DEF Advances, Retries, Starts, IsActive, EditionTypes
    <2> QED
      BY <1>1, <2>1 DEF IsActive
  <1>4. ASSUME NEW e \in Editions, SkipCovered(e) PROVE OneActive'
    BY <1>1, <1>4, Disjoint DEF SkipCovered, IsActive, Closed
  <1>5. ASSUME NEW s \in Subs, ScheduleControls(s) PROVE OneActive'
    <2>1. \A e \in Editions : IsActive(e)' => IsActive(e)
      BY <1>5, Disjoint
      DEF ScheduleControls, Disable, Enable, EditActivation, Archive, Advance, editionVars,
          ActiveEditions, IsActive, Closed, EditionTypes
    <2> QED
      BY <1>1, <2>1
  <1>6. CASE Recovers
    BY <1>1, <1>6, Disjoint DEF Recovers, IsActive
  <1>7. CASE UNCHANGED workflow
    BY <1>1, <1>7 DEF IsActive
  <1> QED
    BY <1>2, <1>3, <1>4, <1>5, <1>6, <1>7 DEF EditionStep

LEMMA ClosedStep ==
  ASSUME EditionTypes, ArchivedIsOver, EditionStep PROVE ClosedKept
  <1> USE DEF ArchivedIsOver, ClosedKept
  <1>1. ASSUME \A e \in Editions :
                 workflow'[e] # workflow[e] =>
                   workflow[e] \notin Closed /\ (IsActive(e) \/ Enabled(e))
        PROVE  ClosedKept
    BY <1>1 DEF Enabled
  <1>2. ASSUME NEW e \in Editions, Reserves(e) PROVE ClosedKept
    <2>1. PICK w \in {"queued", "pending", "blocked"} : Reserve(e, w)
      BY <1>2 DEF Reserves
    <2>2. \A f \in Editions : workflow'[f] # workflow[f] =>
            workflow[f] \in {"none", "pending"} /\ SubOf[f] = SubOf[e]
      BY <1>2, <2>1, ReserveEffect DEF Reserves
    <2> QED
      BY <1>1, <1>2, <2>2 DEF Reserves, Enabled, Closed
  <1>3. ASSUME NEW e \in Editions, Advances(e) \/ Retries(e) \/ Starts(e) PROVE ClosedKept
    <2>1. IsActive(e) /\ \A f \in Editions \ {e} : workflow'[f] = workflow[f]
      BY <1>3, Disjoint DEF Advances, Retries, Starts, IsActive, EditionTypes
    <2> QED
      BY <1>1, <2>1, Disjoint DEF IsActive
  <1>4. ASSUME NEW e \in Editions, SkipCovered(e) PROVE ClosedKept
    <2>1. \A f \in Editions : workflow'[f] # workflow[f] =>
            (IsActive(f) \/ workflow[f] = "none") /\ SubOf[f] = SubOf[e]
      BY <1>4 DEF SkipCovered, ActiveEditions, EditionsOf, Earlier, IsActive
    <2>2. Enabled(e)
      BY <1>4 DEF SkipCovered
    <2> QED
      BY <1>1, <2>1, <2>2, Disjoint DEF Enabled, IsActive
  <1>5. ASSUME NEW s \in Subs, ScheduleControls(s) PROVE ClosedKept
    <2>1. \A e \in Editions : workflow'[e] # workflow[e] => IsActive(e)
      BY <1>5
      DEF ScheduleControls, Disable, Enable, EditActivation, Archive, ToCancel, Advance,
          editionVars, ActiveEditions, IsActive, EditionTypes
    <2> QED
      BY <1>1, <2>1, Disjoint DEF IsActive
  <1>6. CASE Recovers
    BY <1>1, <1>6, Disjoint DEF Recovers, IsActive
  <1>7. CASE UNCHANGED workflow
    BY <1>1, <1>7
  <1> QED
    BY <1>2, <1>3, <1>4, <1>5, <1>6, <1>7 DEF EditionStep

LEMMA ArchivedStep ==
  ASSUME EditionTypes, ArchivedIsOver, EditionStep PROVE ArchivedIsOver'
  <1> USE DEF ArchivedIsOver
  <1>1. CASE \E s \in Subs : Archive(s)
    <2>1. PICK s \in Subs : Archive(s)
      BY <1>1
    <2>2. \A e \in Editions : workflow'[e] = IF e \in ActiveEditions(s) THEN "cancelled" ELSE workflow[e]
      BY <2>1 DEF Archive, ToCancel
    <2>3. \A r \in Subs : r # s => activation'[r] = activation[r]
      BY <2>1 DEF Archive, SetActivation, EditionTypes
    <2>4. ASSUME NEW e \in Editions, activation'[SubOf[e]] = "archived" PROVE ~IsActive(e)'
      <3>1. CASE SubOf[e] = s
        BY <2>2, <3>1, Disjoint DEF ActiveEditions, EditionsOf, IsActive, Closed
      <3>2. CASE SubOf[e] # s
        <4>1. SubOf[e] \in Subs
          BY DEF Subs
        <4>2. ~IsActive(e)
          BY <2>3, <2>4, <3>2, <4>1
        <4> QED
          BY <2>2, <4>2, Disjoint DEF IsActive, Closed
      <3> QED
        BY <3>1, <3>2
    <2> QED
      BY <2>4
  <1>2. CASE ~ \E s \in Subs : Archive(s)
    <2>1. \A r \in Subs : activation'[r] = "archived" => activation[r] = "archived"
      BY <1>2
      DEF EditionStep, Reserves, Advances, Retries, Starts, SkipCovered, Recovers, OnlyEdition,
          ScheduleControls, Disable, Enable, EditActivation, SetActivation, EditionTypes
    <2>2. \A e \in Editions : SubOf[e] \in Subs
      BY DEF Subs
    <2> QED
      BY <2>1, <2>2, ClosedStep DEF ClosedKept, IsActive
  <1> QED
    BY <1>1, <1>2

-----------------------------------------------------------------------------
(* Editions and their jobs *)

LEMMA MatchingValues ==
  /\ Matching("queued") = {"queued"} /\ Matching("running") = {"running"}
  /\ Matching("paused") = {"paused", "blocked", "retry_wait", "cancelled"}
  /\ Matching("failed") = {"failed"}
  /\ Matching("completed") = {"completed"} /\ Matching("needs_review") = {"completed"}
  BY DEF Matching, Resumable, Final

\* An edition has one job at most.
LEMMA OneJobOfEdition ==
  ASSUME OneJobPerRequest, NEW e \in Editions, NEW j \in JobsFor(e), NEW k \in JobsFor(e)
  PROVE  j = k
  BY EditionsAssumption, JobsAssumption DEF JobsFor, OneJobPerRequest, SameRequest

LEMMA JobOfEdition ==
  ASSUME NEW j \in EditionJobs, Exists(j)
  PROVE  EditionOf(j) \in Editions /\ j \in JobsFor(EditionOf(j))
  BY JobsAssumption DEF JobsFor, EditionOf, Editions

\* Where a job may stand while its edition has a workflow
LEMMA WorkingHasJob ==
  ASSUME TypeOK, JobMatchesEdition, NEW e \in Editions, workflow[e] \in {"queued", "running", "retry_wait"}
  PROVE  /\ HasJob(e)
         /\ \A j \in JobsFor(e) :
              /\ workflow[e] = "queued" => status[j] = "queued"
              /\ workflow[e] = "running" => status[j] = "running"
              /\ workflow[e] = "retry_wait" => status[j] = "paused"
  <1>1. HasJob(e)
    BY DEF JobMatchesEdition
  <1>2. \A j \in JobsFor(e) : workflow[e] \in Matching(status[j])
    BY DEF JobMatchesEdition
  <1>3. \A j \in JobsFor(e) : status[j] \in {"queued", "running", "paused", "failed", "completed", "needs_review"}
    BY JobsAssumption DEF JobsFor, Exists, TypeOK, Statuses
  <1> QED
    BY <1>1, <1>2, <1>3, MatchingValues

LEMMA IdleHasNoJob ==
  ASSUME TypeOK, JobMatchesEdition, NEW e \in Editions, workflow[e] \in {"none", "pending"}
  PROVE  JobsFor(e) = {}
  <1>1. \A j \in JobsFor(e) : workflow[e] \in Matching(status[j])
    BY DEF JobMatchesEdition
  <1>2. \A j \in JobsFor(e) : status[j] \in {"queued", "running", "paused", "failed", "completed", "needs_review"}
    BY JobsAssumption DEF JobsFor, Exists, TypeOK, Statuses
  <1> QED
    BY <1>1, <1>2, MatchingValues

\* A step that moves one edition and its job to matching places
LEMMA MatchingMove ==
  ASSUME TypeOK, JobMatchesEdition, OneJobPerRequest, NEW j \in EditionJobs, Exists(j),
         status'[j] \notin {"absent", "discarded"},
         \A k \in Jobs \ {j} : status'[k] = status[k],
         \A f \in Editions \ {EditionOf(j)} : workflow'[f] = workflow[f],
         workflow'[EditionOf(j)] \in Matching(status'[j])
  PROVE  JobMatchesEdition'
  <1>1. j \in Jobs /\ EditionOf(j) \in Editions /\ j \in JobsFor(EditionOf(j))
    BY JobsAssumption, JobOfEdition
  <1>2. \A f \in Editions : JobsFor(f)' = JobsFor(f)
    BY <1>1, JobsAssumption DEF JobsFor, Exists
  <1>3. \A k \in JobsFor(EditionOf(j)) : k = j
    BY <1>1, OneJobOfEdition
  <1>4. \A f \in Editions \ {EditionOf(j)} : \A k \in JobsFor(f) : k \in Jobs \ {j}
    BY JobsAssumption DEF JobsFor, EditionOf
  <1>5. \A f \in Editions : \A k \in JobsFor(f)' : workflow'[f] \in Matching(status'[k])
    BY <1>1, <1>2, <1>3, <1>4 DEF JobMatchesEdition
  <1>6. \A f \in Editions : HasJob(f)' <=> HasJob(f)
    BY <1>2 DEF HasJob
  <1>7. HasJob(EditionOf(j))
    BY <1>1 DEF HasJob
  <1>8. \A f \in Editions : ~HasJob(f)' =>
          workflow'[f] \in {"none", "pending", "blocked", "cancelled", "skipped"}
    BY <1>6, <1>7 DEF JobMatchesEdition
  <1> QED
    BY <1>5, <1>8 DEF JobMatchesEdition

\* A step that moves no job, and of editions only those without one
LEMMA MatchingIdle ==
  ASSUME TypeOK, JobMatchesEdition, UNCHANGED status,
         \A f \in Editions :
           \/ workflow'[f] = workflow[f]
           \/ /\ JobsFor(f) = {}
              /\ workflow'[f] \in {"none", "pending", "blocked", "cancelled", "skipped"}
  PROVE  JobMatchesEdition'
  <1>1. \A f \in Editions : JobsFor(f)' = JobsFor(f)
    BY DEF JobsFor, Exists
  <1>2. \A f \in Editions : \A k \in JobsFor(f) : workflow'[f] \in Matching(status[k])
    BY DEF JobMatchesEdition
  <1>3. \A f \in Editions : ~HasJob(f) =>
          workflow'[f] \in {"none", "pending", "blocked", "cancelled", "skipped"}
    BY DEF JobMatchesEdition
  <1> QED
    BY <1>1, <1>2, <1>3 DEF JobMatchesEdition, HasJob

\* A step that moves a job of no edition
LEMMA MatchingOther ==
  ASSUME JobMatchesEdition, NEW j \in Jobs \ EditionJobs, UNCHANGED workflow,
         \A k \in Jobs \ {j} : status'[k] = status[k]
  PROVE  JobMatchesEdition'
  <1>1. \A f \in Editions : \A k \in JobsFor(f) : k \in Jobs \ {j}
    BY JobsAssumption DEF JobsFor
  <1>2. \A f \in Editions : JobsFor(f)' = JobsFor(f)
    BY JobsAssumption DEF JobsFor, Exists
  <1> QED
    BY <1>1, <1>2 DEF JobMatchesEdition, HasJob

LEMMA MatchingAdmission ==
  ASSUME TypeOK, EditionTypes, JobMatchesEdition, NEW j \in EditionJobs, AdmitPrepared(j),
         Admissible(EditionOf(j)), Reserve(EditionOf(j), "queued")
  PROVE  JobMatchesEdition'
  <1> DEFINE e == EditionOf(j)
  <1>1. j \in Jobs /\ e \in Editions
    BY JobsAssumption, EditionOfJob
  <1>2. status'[j] = "queued" /\ \A k \in Jobs \ {j} : status'[k] = status[k]
    BY <1>1 DEF AdmitPrepared, TypeOK
  <1>3. /\ workflow'[e] = "queued" /\ workflow[e] \in {"none", "pending"}
        /\ \A f \in Editions \ {e} : \/ workflow'[f] = workflow[f]
                                     \/ workflow'[f] = "skipped" /\ workflow[f] \in {"none", "pending"}
    BY <1>1, ReserveEffect
  <1> HIDE DEF e
  <1>4. JobsFor(e) = {} /\ \A f \in Editions \ {e} : workflow'[f] # workflow[f] => JobsFor(f) = {}
    BY <1>1, <1>3, IdleHasNoJob
  <1>5. JobsFor(e)' = {j}
    BY <1>1, <1>2, <1>4, JobsAssumption DEF JobsFor, Exists, e, EditionOf
  <1>6. \A f \in Editions \ {e} : JobsFor(f)' = JobsFor(f) /\ j \notin JobsFor(f)
    BY <1>1, <1>2, JobsAssumption DEF JobsFor, Exists, e, EditionOf
  <1>7. ASSUME NEW f \in Editions \ {e}
        PROVE  /\ \A k \in JobsFor(f)' : workflow'[f] \in Matching(status'[k])
               /\ ~HasJob(f)' => workflow'[f] \in {"none", "pending", "blocked", "cancelled", "skipped"}
    <2>1. \A k \in JobsFor(f) : k \in Jobs \ {j}
      BY <1>6, JobsAssumption DEF JobsFor
    <2>2. CASE workflow'[f] = workflow[f]
      BY <1>2, <1>6, <2>1, <2>2 DEF JobMatchesEdition, HasJob
    <2>3. CASE workflow'[f] # workflow[f]
      BY <1>3, <1>4, <1>6, <2>3
    <2> QED
      BY <2>2, <2>3
  <1>8. \A k \in JobsFor(e)' : workflow'[e] \in Matching(status'[k])
    BY <1>2, <1>3, <1>5, MatchingValues
  <1> QED
    BY <1>5, <1>7, <1>8 DEF JobMatchesEdition, HasJob

LEMMA MatchingControls ==
  ASSUME TypeOK, EditionTypes, OneJobPerRequest, JobMatchesEdition, NEW j \in Jobs, SubControls(j)
  PROVE  JobMatchesEdition'
  <1>1. CASE SubPrepare(j) \/ SubAdmitDropped(j)
    BY <1>1, MatchingIdle
    DEF SubPrepare, SubAdmitDropped, Prepare, AdmitDropped, rowVars, subVars, editionVars
  <1>2. CASE SubAdmit(j)
    <2>1. CASE IsEdition(j)
      BY <1>2, <2>1, MatchingAdmission DEF SubAdmit, IsEdition
    <2>2. CASE ~IsEdition(j)
      <3>1. UNCHANGED workflow /\ \A k \in Jobs \ {j} : status'[k] = status[k]
        BY <1>2, <2>2 DEF SubAdmit, AdmitPrepared
      <3> QED
        BY <2>2, <3>1, MatchingOther DEF IsEdition
    <2> QED
      BY <2>1, <2>2
  <1>3. CASE AdmitWait(j)
    <2>1. /\ EditionOf(j) \in Editions /\ UNCHANGED status /\ Admissible(EditionOf(j))
          /\ \E w \in {"pending", "blocked"} : Reserve(EditionOf(j), w)
      BY <1>3, EditionOfJob DEF AdmitWait, AdmitDropped, IsEdition, rowVars
    <2>2. \A f \in Editions :
            \/ workflow'[f] = workflow[f]
            \/ workflow[f] \in {"none", "pending"} /\ workflow'[f] \in {"pending", "blocked", "skipped"}
      BY <2>1, ReserveEffect
    <2> QED
      BY <2>1, <2>2, IdleHasNoJob, MatchingIdle
  <1>4. CASE SubPause(j) \/ SubResume(j)
    <2>1. Exists(j) /\ status'[j] \in {"paused", "queued"} /\ \A k \in Jobs \ {j} : status'[k] = status[k]
      BY <1>4 DEF SubPause, SubResume, Pause, Resume, Requeue, Release, TypeOK, Exists, Active
    <2>2. CASE IsEdition(j)
      <3>1. /\ workflow'[EditionOf(j)] = status'[j]
            /\ \A f \in Editions \ {EditionOf(j)} : workflow'[f] = workflow[f]
        BY <1>4, <2>2, EditionOfJob
        DEF SubPause, SubResume, Pause, Resume, Requeue, Release, Advance, TypeOK, EditionTypes,
            IsEdition
      <3> QED
        BY <2>1, <2>2, <3>1, MatchingMove, MatchingValues DEF IsEdition
    <2>3. CASE ~IsEdition(j)
      BY <1>4, <2>1, <2>3, MatchingOther DEF SubPause, SubResume, IsEdition
    <2> QED
      BY <2>2, <2>3
  <1>5. CASE SubDiscard(j)
    <2>1. j \in Jobs \ EditionJobs /\ UNCHANGED workflow /\ \A k \in Jobs \ {j} : status'[k] = status[k]
      BY <1>5 DEF SubDiscard, Discard, subVars, editionVars
    <2> QED
      BY <2>1, MatchingOther
  <1> QED
    BY <1>1, <1>2, <1>3, <1>4, <1>5 DEF SubControls

LEMMA MatchingLoops ==
  ASSUME TypeOK, EditionTypes, OneJobPerRequest, JobMatchesEdition
  PROVE  /\ \A j \in Jobs : SubTickJob(j) => JobMatchesEdition'
         /\ \A e \in Editions : EditionLoops(e) => JobMatchesEdition'
         /\ SubRecover => JobMatchesEdition'
  <1>1. ASSUME NEW j \in Jobs, SubTickJob(j) PROVE JobMatchesEdition'
    <2>1. j \in EditionJobs /\ status[j] = "paused" /\ Exists(j)
      BY <1>1 DEF SubTickJob, SubResumeDue, SubStopWaiting, Probe, ResumeDue, StopWaiting, Resume,
                  IsEdition, Exists
    <2>2. /\ \A k \in Jobs \ {j} : status'[k] = status[k]
          /\ \A f \in Editions \ {EditionOf(j)} : workflow'[f] = workflow[f]
          /\ \/ status'[j] = "queued" /\ workflow'[EditionOf(j)] = "queued"
             \/ status'[j] = "failed" /\ workflow'[EditionOf(j)] = "failed"
             \/ status'[j] = "paused" /\ workflow'[EditionOf(j)] \in {"paused", "blocked"}
      <3>1. CASE SubResumeDue(j)
        BY <2>1, <3>1, EditionOfJob
        DEF SubResumeDue, ResumeDue, Requeue, Release, Advance, TypeOK, EditionTypes
      <3>2. CASE SubStopWaiting(j)
        <4>1. \E s \in Stopped : Release(j, s, "interrupted")
          BY <3>2 DEF SubStopWaiting, StopWaiting
        <4> QED
          BY <2>1, <3>2, <4>1, EditionOfJob DEF SubStopWaiting, Release, Advance, TypeOK,
             EditionTypes
      <3>3. CASE Probe(j)
        BY <2>1, <3>3, EditionOfJob DEF Probe, Resume, Requeue, Release, Advance, TypeOK,
           EditionTypes
      <3> QED
        BY <1>1, <3>1, <3>2, <3>3 DEF SubTickJob
    <2> QED
      BY <2>1, <2>2, MatchingMove, MatchingValues
  <1>2. ASSUME NEW e \in Editions, EditionLoops(e) PROVE JobMatchesEdition'
    <2>1. CASE Reopen(e)
      <3>1. UNCHANGED status /\ JobsFor(e) = {} /\ workflow'[e] = "pending"
            /\ \A f \in Editions \ {e} : workflow'[f] = workflow[f]
        BY <2>1 DEF Reopen, HasJob, Advance, EditionTypes, vars, rowVars
      <3> QED
        BY <3>1, MatchingIdle
    <2>2. CASE SkipCovered(e)
      <3>1. UNCHANGED status /\ \A f \in Editions :
              \/ workflow'[f] = workflow[f]
              \/ workflow[f] \in {"none", "pending"} /\ workflow'[f] = "skipped"
        BY <2>2 DEF SkipCovered, vars, rowVars
      <3> QED
        BY <3>1, IdleHasNoJob, MatchingIdle
    <2> QED
      BY <1>2, <2>1, <2>2 DEF EditionLoops
  <1>3. CASE SubRecover
    <2>1. \A k \in Jobs : \/ status'[k] = status[k]
                          \/ status[k] = "running" /\ status'[k] = "paused"
      BY <1>3 DEF SubRecover, RecoverExpired, vars, rowVars
    <2>2. \A f \in Editions : JobsFor(f)' = JobsFor(f)
      BY <2>1, JobsAssumption DEF JobsFor, Exists
    <2>3. \A f \in Editions :
            workflow'[f] = IF workflow[f] = "running" /\ \E j \in JobsFor(f) : status'[j] = "paused"
                           THEN "paused" ELSE workflow[f]
      BY <1>3 DEF SubRecover
    <2>4. ASSUME NEW f \in Editions, NEW k \in JobsFor(f) PROVE workflow'[f] \in Matching(status'[k])
      <3>1. k \in Jobs /\ workflow[f] \in Matching(status[k])
        BY JobsAssumption DEF JobMatchesEdition, JobsFor
      <3>2. CASE status'[k] = status[k]
        <4>1. workflow'[f] = workflow[f]
          <5>1. ASSUME workflow[f] = "running" PROVE \A j \in JobsFor(f) : status'[j] # "paused"
            <6>1. \A j \in JobsFor(f) : j = k /\ status[j] = "running"
              BY <5>1, OneJobOfEdition, WorkingHasJob
            <6> QED
              BY <3>2, <6>1
          <5> QED
            BY <2>3, <5>1
        <4> QED
          BY <3>1, <3>2, <4>1
      <3>3. CASE status[k] = "running" /\ status'[k] = "paused"
        <4>1. workflow[f] = "running"
          BY <3>1, <3>3, MatchingValues
        <4> QED
          BY <2>3, <3>3, <4>1, MatchingValues
      <3> QED
        BY <2>1, <3>1, <3>2, <3>3
    <2>5. ASSUME NEW f \in Editions, ~HasJob(f)
          PROVE  workflow'[f] \in {"none", "pending", "blocked", "cancelled", "skipped"}
      BY <2>3, <2>5 DEF JobMatchesEdition, HasJob
    <2> QED
      BY <2>2, <2>4, <2>5 DEF JobMatchesEdition, HasJob
  <1> QED
    BY <1>1, <1>2, <1>3

\* The job a schedule control stops is that of the one active edition.
LEMMA StoppedEdition ==
  ASSUME TypeOK, OneActive, JobMatchesEdition, NEW s \in Subs, NEW j \in ToStop(s)
  PROVE  /\ j \in EditionJobs /\ Exists(j) /\ status[j] \in Active
         /\ EditionOf(j) \in Editions /\ workflow[EditionOf(j)] \in Working
         /\ HasJob(EditionOf(j)) /\ ActiveEditions(s) = {EditionOf(j)}
  <1>1. PICK e \in ActiveEditions(s) : j \in JobsFor(e)
    BY DEF ToStop, ActiveJobs
  <1>2. e \in Editions /\ SubOf[e] = s /\ IsActive(e) /\ HasJob(e)
    BY <1>1 DEF ActiveEditions, EditionsOf, IsActive, HasJob
  <1>3. j \in EditionJobs /\ e = EditionOf(j) /\ Exists(j) /\ status[j] \in Active
    BY <1>1 DEF JobsFor, EditionOf, ToStop
  <1>4. workflow[e] \in Working
    BY <1>1, <1>2, <1>3, MatchingValues DEF JobMatchesEdition, Active, Working
  <1>5. \A f \in ActiveEditions(s) : f = e
    BY <1>2 DEF ActiveEditions, EditionsOf, IsActive, OneActive
  <1> QED
    BY <1>1, <1>2, <1>3, <1>4, <1>5

LEMMA MatchingSchedule ==
  ASSUME TypeOK, EditionTypes, OneJobPerRequest, OneActive, JobMatchesEdition,
         NEW s \in Subs, ScheduleControls(s)
  PROVE  JobMatchesEdition'
  <1>1. CASE UNCHANGED <<status, workflow>>
    BY <1>1, MatchingIdle
  <1>2. CASE \E j \in ToStop(s) : Pause(j)
    <2>1. PICK j \in ToStop(s) : Pause(j)
      BY <1>2
    <2>2. /\ j \in EditionJobs /\ Exists(j) /\ EditionOf(j) \in Editions
          /\ workflow[EditionOf(j)] \in Working
          /\ HasJob(EditionOf(j)) /\ ActiveEditions(s) = {EditionOf(j)}
      BY <2>1, StoppedEdition
    <2>3. status'[j] = "paused" /\ \A k \in Jobs \ {j} : status'[k] = status[k]
      BY <2>1, <2>2, JobsAssumption DEF Pause, Release, TypeOK
    <2>4. status[j] \in Active
      BY <2>1, StoppedEdition
    <2>5. CASE Disable(s) \/ Archive(s)
      <3>1. /\ workflow'[EditionOf(j)] \in {"paused", "cancelled"}
            /\ \A f \in Editions \ {EditionOf(j)} : workflow'[f] = workflow[f]
        BY <2>2, <2>5 DEF Disable, Archive, ToCancel, Advance, EditionTypes
      <3> QED
        BY <2>2, <2>3, <3>1, MatchingMove, MatchingValues
    <2>6. CASE Enable(s)
      <3>1. UNCHANGED status \/ \E k \in Jobs : status[k] = "paused" /\ status'[k] = "queued"
        BY <2>6 DEF Enable, Resume, Requeue, Release, TypeOK, vars, rowVars
      <3> QED
        BY <2>2, <2>3, <2>4, <3>1, JobsAssumption DEF Active
    <2>7. CASE EditActivation(s)
      BY <1>1, <2>7 DEF EditActivation, vars, rowVars, editionVars
    <2> QED
      BY <2>5, <2>6, <2>7 DEF ScheduleControls
  <1>3. CASE ToStop(s) = {} /\ (Disable(s) \/ Archive(s))
    <2>1. UNCHANGED status
      BY <1>3 DEF Disable, Archive, StopJobs, vars, rowVars
    <2>2. \A e \in ActiveEditions(s) : \A j \in JobsFor(e) : status[j] = "paused"
      <3>1. ASSUME NEW e \in ActiveEditions(s), NEW j \in JobsFor(e) PROVE status[j] = "paused"
        <4>1. e \in Editions /\ workflow[e] \in ActiveWorkflows
          BY DEF ActiveEditions, EditionsOf
        <4>2. workflow[e] \in Matching(status[j])
          BY <4>1 DEF JobMatchesEdition
        <4>3. status[j] \notin Active
          BY <1>3, JobsAssumption DEF ToStop, ActiveJobs, JobsFor
        <4>4. status[j] \in {"queued", "running", "paused", "failed", "completed", "needs_review"}
          BY JobsAssumption DEF JobsFor, Exists, TypeOK, Statuses
        <4> QED
          BY <4>1, <4>2, <4>3, <4>4, MatchingValues, Disjoint DEF Active
      <3> QED
        BY <3>1
    <2>3. CASE UNCHANGED workflow
      BY <1>1, <2>1, <2>3
    <2>4. CASE ~UNCHANGED workflow
      <3>1. PICK e \in ActiveEditions(s) :
              /\ \A f \in Editions \ {e} : workflow'[f] = workflow[f]
              /\ workflow'[e] = "cancelled" \/ (workflow'[e] = "paused" /\ HasJob(e))
        <4>1. CASE Disable(s)
          BY <2>4, <4>1 DEF Disable, Advance, ActiveEditions, EditionsOf, EditionTypes
        <4>2. CASE Archive(s)
          <5>1. \A f \in Editions :
                  workflow'[f] = IF f \in ActiveEditions(s) THEN "cancelled" ELSE workflow[f]
            BY <4>2 DEF Archive, ToCancel
          <5>2. ActiveEditions(s) # {}
            <6>1. SUFFICES ASSUME ActiveEditions(s) = {} PROVE workflow' = workflow
              BY <2>4
            <6>2. workflow' = [f \in Editions |-> workflow[f]]
              BY <4>2, <6>1 DEF Archive, ToCancel
            <6> QED
              BY <6>2 DEF EditionTypes
          <5>3. \A e, f \in ActiveEditions(s) : e = f
            BY DEF ActiveEditions, EditionsOf, OneActive, IsActive
          <5> QED
            BY <5>1, <5>2, <5>3 DEF ActiveEditions, EditionsOf
        <4> QED
          BY <1>3, <4>1, <4>2
      <3>2. e \in Editions
        BY DEF ActiveEditions, EditionsOf
      <3>3. CASE HasJob(e)
        <4>1. PICK j \in JobsFor(e) : TRUE
          BY <3>3 DEF HasJob
        <4>2. j \in EditionJobs /\ Exists(j) /\ EditionOf(j) = e /\ status'[j] = "paused"
          BY <2>1, <2>2, <4>1 DEF JobsFor, EditionOf
        <4> QED
          BY <2>1, <3>1, <4>2, MatchingMove, MatchingValues
      <3>4. CASE ~HasJob(e)
        BY <2>1, <3>1, <3>2, <3>4, MatchingIdle DEF HasJob
      <3> QED
        BY <3>3, <3>4
    <2> QED
      BY <2>3, <2>4
  <1>4. CASE Enable(s)
    <2>1. CASE \E e \in ActiveEditions(s), j \in Jobs :
                 j \in JobsFor(e) /\ Resume(j) /\ Advance(e, "queued", "none")
      <3>1. PICK e \in ActiveEditions(s), j \in Jobs :
              j \in JobsFor(e) /\ Resume(j) /\ Advance(e, "queued", "none")
        BY <2>1
      <3>2. j \in EditionJobs /\ Exists(j) /\ EditionOf(j) = e /\ e \in Editions
        BY <3>1 DEF JobsFor, EditionOf, ActiveEditions, EditionsOf
      <3>3. status'[j] = "queued" /\ \A k \in Jobs \ {j} : status'[k] = status[k]
        BY <3>1 DEF Resume, Requeue, Release, TypeOK
      <3>4. workflow'[e] = "queued" /\ \A f \in Editions \ {e} : workflow'[f] = workflow[f]
        BY <3>1, <3>2 DEF Advance, EditionTypes
      <3> QED
        BY <3>2, <3>3, <3>4, MatchingMove, MatchingValues
    <2>2. CASE UNCHANGED <<vars, workflow>>
      BY <1>1, <2>2 DEF vars, rowVars
    <2> QED
      BY <1>4, <2>1, <2>2 DEF Enable
  <1>5. CASE EditActivation(s)
    BY <1>1, <1>5 DEF EditActivation, vars, rowVars, editionVars
  <1> QED
    BY <1>2, <1>3, <1>4, <1>5 DEF ScheduleControls, Disable, Archive, StopJobs

LEMMA MatchingTask ==
  ASSUME TypeOK, EditionTypes, OneJobPerRequest, JobMatchesEdition,
         NEW j \in Jobs, NEW t \in Tokens, SubClaim(j, t) \/ SubTask(j, t)
  PROVE  JobMatchesEdition'
  <1>1. CASE UNCHANGED <<status, workflow>>
    BY <1>1, MatchingIdle
  <1>2. CASE SubEndTask(j, t) \/ Spend(j, t)
    BY <1>1, <1>2 DEF SubEndTask, EndTask, Spend, vars, rowVars
  <1>3. CASE SubClaim(j, t) \/ SubPublish(j, t) \/ SubPauseStopped(j, t)
    <2>1. Exists(j) /\ \A k \in Jobs \ {j} : status'[k] = status[k]
      BY <1>3 DEF SubClaim, SubPublish, SubPauseStopped, Claim, ClaimRow, Publish, PauseStopped,
                  Release, Fence, OwnsRow, Exists, TypeOK
    <2>2. CASE ~IsEdition(j)
      <3>1. UNCHANGED workflow
        BY <1>3, <2>2 DEF SubClaim, SubPublish, SubPauseStopped, subVars, editionVars
      <3> QED
        BY <2>1, <2>2, <3>1, MatchingOther DEF IsEdition
    <2>3. CASE IsEdition(j)
      <3> DEFINE e == EditionOf(j)
      <3>1. j \in EditionJobs /\ e \in Editions
        BY <2>3, EditionOfJob DEF IsEdition
      <3>2. SUFFICES /\ \A f \in Editions \ {e} : workflow'[f] = workflow[f]
                     /\ \/ status'[j] = "running" /\ workflow'[e] = "running"
                        \/ status'[j] \in Final /\ workflow'[e] = "completed"
                        \/ status'[j] = "failed" /\ workflow'[e] = "failed"
                        \/ status'[j] = "paused" /\ workflow'[e] \in {"paused", "blocked", "retry_wait"}
        BY <2>1, <3>1, MatchingMove, MatchingValues DEF Final
      <3>3. CASE SubClaim(j, t)
        BY <2>3, <3>1, <3>3 DEF SubClaim, StartAttempt, Claim, ClaimRow, TypeOK, EditionTypes
      <3>4. CASE SubPublish(j, t)
        BY <2>3, <3>1, <3>4 DEF SubPublish, Publish, Release, Advance, TypeOK, EditionTypes
      <3>5. CASE SubPauseStopped(j, t)
        <4>1. PICK o \in EditionOutcome(e, status'[j], error'[j]) : Advance(e, o[1], o[2])
          BY <2>3, <3>5 DEF SubPauseStopped
        <4>2. workflow'[e] = o[1] /\ \A f \in Editions \ {e} : workflow'[f] = workflow[f]
          BY <3>1, <4>1 DEF Advance, EditionTypes
        <4>3. status'[j] = "paused" \/ (status'[j] = "failed" /\ error'[j] = "interrupted")
          BY <3>5 DEF SubPauseStopped, PauseStopped, StopOutcomes, Release, TypeOK
        <4>4. status'[j] = "failed" => o[1] = "failed"
          BY <4>1, <4>3 DEF EditionOutcome
        <4>5. status'[j] = "paused" => o[1] \in {"paused", "blocked", "retry_wait"}
          BY <4>1 DEF EditionOutcome
        <4> QED
          BY <4>2, <4>3, <4>4, <4>5
      <3> QED
        BY <1>3, <3>3, <3>4, <3>5
    <2> QED
      BY <2>2, <2>3
  <1> QED
    BY <1>2, <1>3 DEF SubTask

LEMMA MatchingStep ==
  ASSUME TypeOK, EditionTypes, OneJobPerRequest, OneActive, JobMatchesEdition, [SubNext]_allVars
  PROVE  JobMatchesEdition'
  <1>1. CASE UNCHANGED <<status, workflow>>
    BY <1>1, MatchingIdle
  <1>2. CASE QueueOnly
    <2>1. UNCHANGED <<status, workflow>>
      BY <1>2
      DEF QueueOnly, Reap, ReadQueue, EndTick, Stop, Start, Crash, SkipListed, LeaseExpires,
          StartTask, WorkFails, rowVars, subVars, editionVars
    <2> QED
      BY <1>1, <2>1
  <1>3. CASE UNCHANGED allVars
    BY <1>1, <1>3 DEF allVars, vars, rowVars, subVars, editionVars
  <1> QED
    BY <1>2, <1>3, MatchingControls, MatchingLoops, MatchingSchedule, MatchingTask DEF SubNext

-----------------------------------------------------------------------------
(* Paused and deleted subscriptions *)

LEMMA QuietStep ==
  ASSUME TypeOK, EditionTypes, OneActive, JobMatchesEdition, PausedIsQuiet, EditionStep
  PROVE  PausedIsQuiet'
  <1> DEFINE Silent(e) == activation[SubOf[e]] \in {"paused", "archived"} => workflow[e] \notin Working
  <1>1. \A e \in Editions : SubOf[e] \in Subs /\ Silent(e)
    BY DEF Subs, EditionsOf, PausedIsQuiet
  <1>2. SUFFICES \A e \in Editions : Silent(e)'
    BY DEF PausedIsQuiet, EditionsOf
  <1>3. ASSUME UNCHANGED activation,
               \A e \in Editions : workflow'[e] \in Working => workflow[e] \in Working \/ Enabled(e)
        PROVE  \A e \in Editions : Silent(e)'
    BY <1>1, <1>3 DEF Enabled
  <1>4. CASE UNCHANGED <<workflow, attempt, auto, activation>>
    BY <1>3, <1>4
  <1>5. ASSUME NEW e \in Editions, Reserves(e) PROVE \A f \in Editions : Silent(f)'
    <2>1. Enabled(e) /\ UNCHANGED activation
      BY <1>5 DEF Reserves
    <2>2. \A f \in Editions \ {e} : workflow'[f] \in {workflow[f], "skipped"}
      BY <1>5 DEF Reserves, Reserve
    <2> QED
      BY <1>3, <2>1, <2>2 DEF Working
  <1>6. ASSUME NEW e \in Editions, Advances(e) PROVE \A f \in Editions : Silent(f)'
    BY <1>3, <1>6 DEF Advances, Onward, Working, EditionTypes
  <1>7. ASSUME NEW e \in Editions, Retries(e) PROVE \A f \in Editions : Silent(f)'
    BY <1>3, <1>7 DEF Retries, EditionTypes
  <1>8. ASSUME NEW e \in Editions, Starts(e) PROVE \A f \in Editions : Silent(f)'
    BY <1>3, <1>8 DEF Starts, EditionTypes, Working
  <1>9. ASSUME NEW e \in Editions, SkipCovered(e) PROVE \A f \in Editions : Silent(f)'
    BY <1>3, <1>9 DEF SkipCovered, OnlyEdition, Working
  <1>10. CASE Recovers
    BY <1>3, <1>10 DEF Recovers, Working
  <1>11. ASSUME NEW s \in Subs, ScheduleControls(s) PROVE \A f \in Editions : Silent(f)'
    <2>1. ASSUME NEW a, SetActivation(s, a),
                 \A e \in Editions : workflow'[e] # workflow[e] => SubOf[e] = s,
                 a \notin {"paused", "archived"} \/ \A e \in EditionsOf(s) : workflow'[e] \notin Working
          PROVE  \A f \in Editions : Silent(f)'
      <3>1. activation'[s] = a /\ \A r \in Subs \ {s} : activation'[r] = activation[r]
        BY <2>1 DEF SetActivation, EditionTypes
      <3> QED
        BY <1>1, <2>1, <3>1 DEF EditionsOf
    <2>2. \A e, f \in ActiveEditions(s) : e = f
      BY DEF ActiveEditions, EditionsOf, OneActive, IsActive
    <2>3. \A e \in EditionsOf(s) : workflow[e] \in Working => e \in ActiveEditions(s)
      BY DEF ActiveEditions, ActiveWorkflows
    <2>4. CASE Disable(s)
      <3>1. CASE \E e \in ActiveEditions(s) : Advance(e, "paused", "schedule")
        <4>1. PICK e \in ActiveEditions(s) : Advance(e, "paused", "schedule")
          BY <3>1
        <4>2. \A f \in Editions : workflow'[f] = IF f = e THEN "paused" ELSE workflow[f]
          BY <4>1 DEF Advance, EditionTypes
        <4>3. \A f \in EditionsOf(s) : workflow'[f] \notin Working
          BY <2>2, <2>3, <4>2 DEF EditionsOf, Working
        <4>4. e \in Editions /\ SubOf[e] = s
          BY DEF ActiveEditions, EditionsOf
        <4> QED
          BY <2>1, <2>4, <4>2, <4>3, <4>4 DEF Disable
      <3>2. CASE /\ UNCHANGED workflow
                 /\ {e \in ActiveEditions(s) : HasJob(e) /\ workflow[e] \in Working \cup {"retry_wait"}} = {}
        <4>1. \A e \in EditionsOf(s) : workflow[e] \in Working => HasJob(e)
          BY WorkingHasJob DEF Working, EditionsOf
        <4>2. \A e \in EditionsOf(s) : workflow'[e] \notin Working
          BY <2>3, <3>2, <4>1
        <4> QED
          BY <2>1, <2>4, <3>2, <4>2 DEF Disable
      <3> QED
        BY <2>4, <3>1, <3>2 DEF Disable
    <2>5. CASE Enable(s)
      <3>1. \A e \in Editions : workflow'[e] # workflow[e] => SubOf[e] = s
        BY <2>5 DEF Enable, Advance, ActiveEditions, EditionsOf, EditionTypes
      <3> QED
        BY <2>1, <2>5, <3>1 DEF Enable
    <2>6. CASE EditActivation(s)
      <3>1. UNCHANGED workflow
        BY <2>6 DEF EditActivation, editionVars
      <3> QED
        BY <2>1, <2>6, <3>1 DEF EditActivation
    <2>7. CASE Archive(s)
      <3>1. \A f \in Editions : workflow'[f] = IF f \in ActiveEditions(s) THEN "cancelled" ELSE workflow[f]
        BY <2>7 DEF Archive, ToCancel
      <3>2. \A e \in EditionsOf(s) : workflow'[e] \notin Working
        BY <2>3, <3>1 DEF EditionsOf, Working
      <3>3. \A e \in Editions : workflow'[e] # workflow[e] => SubOf[e] = s
        BY <3>1 DEF ActiveEditions, EditionsOf
      <3> QED
        BY <2>1, <2>7, <3>2, <3>3 DEF Archive
    <2> QED
      BY <1>11, <2>4, <2>5, <2>6, <2>7 DEF ScheduleControls
  <1> QED
    BY <1>4, <1>5, <1>6, <1>7, <1>8, <1>9, <1>10, <1>11 DEF EditionStep

-----------------------------------------------------------------------------
(* Attempts and leases *)

LeaseKept ==
  \A e \in Editions : workflow[e] = "running" => \A j \in JobsFor(e) : lease[e] = token[j]

\* Only a claim makes a job run or gives a running job a token.
RunningKept ==
  \A k \in Jobs : status'[k] = "running" => status[k] = "running" /\ token'[k] = token[k]

LEMMA RunningStep ==
  ASSUME TypeOK,
         \/ \E j \in Jobs : Controls(j) \/ TickJob(j) \/ LeaseExpires(j)
         \/ \E j \in Jobs, t \in Tokens : StartTask(j, t) \/ TaskStep(j, t)
         \/ TickPass \/ Stop \/ Start \/ Crash \/ UNCHANGED vars
  PROVE  RunningKept
  <1> USE DEF RunningKept
  <1>1. ASSUME NEW j \in Jobs, NEW s, NEW e, s # "running", Release(j, s, e) PROVE RunningKept
    BY <1>1 DEF Release, TypeOK
  <1>2. ASSUME NEW j \in Jobs, Controls(j) PROVE RunningKept
    <2>1. CASE Prepare(j) \/ AdmitDropped(j)
      BY <2>1 DEF Prepare, AdmitDropped, rowVars
    <2>2. CASE AdmitPrepared(j) \/ Discard(j)
      BY <2>2 DEF AdmitPrepared, Discard, TypeOK
    <2>3. CASE Pause(j) \/ Resume(j)
      BY <1>1, <2>3 DEF Pause, Resume, Requeue
    <2> QED
      BY <1>2, <2>1, <2>2, <2>3 DEF Controls
  <1>3. ASSUME NEW j \in Jobs, TickJob(j) PROVE RunningKept
    BY <1>1, <1>3 DEF TickJob, ResumeDue, Requeue, StopWaiting, Stopped, SkipListed, rowVars
  <1>4. ASSUME NEW j \in Jobs, NEW t \in Tokens, TaskStep(j, t) PROVE RunningKept
    <2>1. CASE WorkFails(j, t) \/ EndTask(j, t)
      BY <2>1 DEF WorkFails, EndTask, rowVars
    <2>2. CASE Publish(j, t)
      BY <1>1, <2>2 DEF Publish, Final
    <2>3. CASE PauseStopped(j, t)
      <3>1. PICK o \in StopOutcomes(j) : Release(j, o[1], o[2])
        BY <2>3 DEF PauseStopped
      <3> QED
        BY <1>1, <3>1 DEF StopOutcomes
    <2> QED
      BY <1>4, <2>1, <2>2, <2>3 DEF TaskStep
  <1>5. CASE TickPass
    BY <1>5 DEF TickPass, Reap, RecoverExpired, ReadQueue, EndTick, rowVars
  <1>6. CASE \/ Stop \/ Start \/ Crash \/ UNCHANGED vars
             \/ \E j \in Jobs : LeaseExpires(j) \/ \E t \in Tokens : StartTask(j, t)
    BY <1>6 DEF Stop, Start, Crash, LeaseExpires, StartTask, vars, rowVars
  <1> QED
    BY <1>2, <1>3, <1>4, <1>5, <1>6

\* Other than by a claim, an edition's open attempt only changes when its job
\* stopped or finished.
AttemptKept ==
  \A e \in Editions : lease'[e] # lease[e] => \E j \in JobsFor(e) : status'[j] \in Stopped \cup Final

LEMMA KeptStep ==
  ASSUME TypeOK, AttemptTypes, [SubNext]_allVars, ~ \E j \in Jobs, t \in Tokens : SubClaim(j, t)
  PROVE  RunningKept /\ AttemptKept
  <1> USE DEF OnlyEdition
  <1>1. UNCHANGED lease => AttemptKept
    BY DEF AttemptKept
  <1>2. ASSUME NEW j \in Jobs, SubControls(j) PROVE RunningKept /\ AttemptKept
    <2>1. UNCHANGED lease
      BY <1>2 DEF SubControls, SubPrepare, SubAdmit, SubAdmitDropped, AdmitWait, SubPause,
         SubResume,
                  SubDiscard, subVars, editionVars
    <2> QED
      BY <1>1, <1>2, <2>1, SubControlIsControl, RunningStep
  <1>3. ASSUME NEW j \in Jobs, SubTickJob(j) PROVE RunningKept /\ AttemptKept
    <2>1. (TickJob(j) \/ Controls(j)) /\ UNCHANGED lease
      BY <1>3 DEF SubTickJob, SubResumeDue, SubStopWaiting, Probe, TickJob, Controls
    <2> QED
      BY <1>1, <2>1, RunningStep
  <1>4. ASSUME NEW s \in Subs, ScheduleControls(s) PROVE RunningKept /\ AttemptKept
    <2>1. UNCHANGED lease
      BY <1>4 DEF ScheduleControls, Disable, Enable, EditActivation, Archive, editionVars
    <2>2. UNCHANGED vars \/ \E j \in Jobs : Controls(j)
      BY <1>4 DEF ScheduleControls, Disable, Enable, EditActivation, Archive, StopJobs, ToStop,
                  ActiveJobs, Controls
    <2> QED
      BY <1>1, <2>1, <2>2, RunningStep
  <1>5. ASSUME NEW e \in Editions, EditionLoops(e) PROVE RunningKept /\ AttemptKept
    BY <1>1, <1>5, RunningStep DEF EditionLoops, Reopen, SkipCovered
  <1>6. ASSUME NEW j \in Jobs, NEW t \in Tokens, SubTask(j, t) PROVE RunningKept /\ AttemptKept
    <2>1. TaskStep(j, t) \/ UNCHANGED vars
      BY <1>6 DEF SubTask, SubPublish, SubPauseStopped, SubEndTask, Spend, TaskStep
    <2>2. \/ UNCHANGED lease
          \/ IsEdition(j) /\ CloseAttempt(EditionOf(j)) /\ Exists(j)
             /\ status'[j] \in Stopped \cup Final
      <3>1. CASE SubPauseStopped(j, t) /\ IsEdition(j)
        <4>1. PICK o \in StopOutcomes(j) : Release(j, o[1], o[2])
          BY <3>1 DEF SubPauseStopped, PauseStopped
        <4> QED
          BY <3>1, <4>1
          DEF SubPauseStopped, PauseStopped, OwnsRow, StopOutcomes, Release, Stopped, Exists, TypeOK
      <3>2. CASE SubEndTask(j, t)
        BY <3>2 DEF SubEndTask, EndTask, rowVars, Exists, Final
      <3>3. CASE SubPublish(j, t) \/ Spend(j, t) \/ (SubPauseStopped(j, t) /\ ~IsEdition(j))
        BY <3>3 DEF SubPublish, Spend, SubPauseStopped
      <3> QED
        BY <1>6, <3>1, <3>2, <3>3 DEF SubTask
    <2>3. AttemptKept
      <3>1. CASE IsEdition(j) /\ CloseAttempt(EditionOf(j)) /\ Exists(j)
                 /\ status'[j] \in Stopped \cup Final
        <4>1. EditionOf(j) \in Editions /\ j \in JobsFor(EditionOf(j))
          BY <3>1, JobOfEdition DEF IsEdition
        <4> QED
          BY <3>1, <4>1 DEF CloseAttempt, AttemptKept, AttemptTypes
      <3> QED
        BY <1>1, <2>2, <3>1
    <2> QED
      BY <2>1, <2>3, RunningStep
  <1>7. CASE SubRecover
    <2>1. RunningKept
      BY <1>7, RunningStep DEF SubRecover, TickPass
    <2>2. \A e \in Editions :
            lease'[e] = IF \E j \in JobsFor(e) : status'[j] \in Stopped \cup Final THEN 0 ELSE lease[e]
      BY <1>7 DEF SubRecover
    <2> QED
      BY <2>1, <2>2 DEF AttemptKept
  <1>8. CASE QueueOnly \/ UNCHANGED allVars
    <2>1. UNCHANGED lease
      BY <1>8 DEF QueueOnly, allVars, subVars, editionVars
    <2>2. RunningKept
      <3>1. CASE QueueOnly
        BY <3>1, RunningStep DEF QueueOnly, TickPass, TickJob, TaskStep
      <3>2. CASE UNCHANGED allVars
        BY <3>2, RunningStep DEF allVars
      <3> QED
        BY <1>8, <3>1, <3>2
    <2> QED
      BY <1>1, <2>1, <2>2
  <1> QED
    BY <1>2, <1>3, <1>4, <1>5, <1>6, <1>7, <1>8 DEF SubNext

LEMMA LeaseKeptStep ==
  ASSUME TypeOK, EditionTypes, AttemptTypes, OneJobPerRequest, JobMatchesEdition, LeaseKept,
         JobMatchesEdition', TypeOK', [SubNext]_allVars
  PROVE  LeaseKept'
  <1>1. \A e \in Editions : \A j \in JobsFor(e) : j \in EditionJobs /\ j \in Jobs /\ e = EditionOf(j)
    BY JobsAssumption DEF JobsFor, EditionOf
  <1>2. CASE ~ \E j \in Jobs, t \in Tokens : SubClaim(j, t)
    <2>1. SUFFICES ASSUME NEW e \in Editions, workflow'[e] = "running", NEW j \in JobsFor(e)'
                   PROVE  lease'[e] = token'[j]
      BY DEF LeaseKept
    <2>2. RunningKept /\ AttemptKept
      BY <1>2, KeptStep
    <2>3. j \in Jobs /\ j \in EditionJobs /\ KeyOf[j] = e
      BY JobsAssumption DEF JobsFor
    <2>4. \A k \in JobsFor(e)' : status'[k] = "running"
      <3>1. SUFFICES ASSUME NEW k \in JobsFor(e)' PROVE status'[k] = "running"
        OBVIOUS
      <3>2. "running" \in Matching(status'[k])
        BY <2>1 DEF JobMatchesEdition
      <3>3. status'[k] \in {"queued", "running", "paused", "failed", "completed", "needs_review"}
        BY JobsAssumption DEF JobsFor, Exists, TypeOK, Statuses
      <3> QED
        BY <3>2, <3>3, MatchingValues
    <2>5. status[j] = "running" /\ token'[j] = token[j]
      BY <2>2, <2>3, <2>4 DEF RunningKept
    <2>6. j \in JobsFor(e)
      BY <2>3, <2>5 DEF JobsFor, Exists
    <2>7. workflow[e] = "running"
      BY <2>5, <2>6, MatchingValues DEF JobMatchesEdition
    <2>8. \A k \in JobsFor(e) : k = j
      BY <2>6, OneJobOfEdition
    <2>9. lease'[e] = lease[e]
      BY <2>2, <2>4, <2>8 DEF AttemptKept, Stopped, Final
    <2> QED
      BY <2>5, <2>6, <2>7, <2>9 DEF LeaseKept
  <1>3. ASSUME NEW j \in Jobs, NEW t \in Tokens, SubClaim(j, t) PROVE LeaseKept'
    <2>1. /\ Exists(j) /\ token'[j] = t
          /\ \A k \in Jobs \ {j} : status'[k] = status[k] /\ token'[k] = token[k]
          /\ status'[j] = "running"
      BY <1>3 DEF SubClaim, Claim, ClaimRow, Exists, TypeOK
    <2>2. \A e \in Editions : JobsFor(e)' = JobsFor(e)
      BY <2>1, JobsAssumption DEF JobsFor, Exists
    <2>3. CASE IsEdition(j)
      <3>1. /\ EditionOf(j) \in Editions /\ j \in JobsFor(EditionOf(j))
            /\ \A k \in JobsFor(EditionOf(j)) : k = j
        BY <2>1, <2>3, JobOfEdition, OneJobOfEdition DEF IsEdition
      <3>2. /\ lease'[EditionOf(j)] = t
            /\ \A e \in Editions \ {EditionOf(j)} :
                 workflow'[e] = workflow[e] /\ lease'[e] = lease[e]
        BY <1>3, <2>3, <3>1 DEF SubClaim, StartAttempt, NewLease, EditionTypes, AttemptTypes
      <3>3. \A e \in Editions \ {EditionOf(j)} : \A k \in JobsFor(e) : k \in Jobs \ {j}
        BY <1>1
      <3> QED
        BY <2>1, <2>2, <3>1, <3>2, <3>3 DEF LeaseKept
    <2>4. CASE ~IsEdition(j)
      <3>1. UNCHANGED <<workflow, lease>>
        BY <1>3, <2>4 DEF SubClaim, subVars, editionVars
      <3>2. \A e \in Editions : \A k \in JobsFor(e) : k \in Jobs \ {j}
        BY <1>1, <2>4 DEF IsEdition
      <3> QED
        BY <2>1, <2>2, <3>1, <3>2 DEF LeaseKept
    <2> QED
      BY <2>3, <2>4
  <1> QED
    BY <1>2, <1>3

-----------------------------------------------------------------------------
(* The theorems *)

\* The inductive invariant: that of the queue, and of the editions their types,
\* what bounds the retries, the one active edition, and where edition, job and
\* attempt stand relative to each other.
SubInv ==
  /\ Inv /\ EditionTypes /\ AttemptTypes
  /\ RetriesBehindAttempts
  /\ OneActive /\ ArchivedIsOver
  /\ JobMatchesEdition /\ PausedIsQuiet /\ LeaseKept

LEMMA SubInvInit == SubInit => SubInv
  <1> SUFFICES ASSUME SubInit PROVE SubInv
    OBVIOUS
  <1> USE DEF SubInit
  <1>1. Inv
    BY InvInit
  <1>2. EditionTypes /\ AttemptTypes
    BY EditionsAssumption DEF EditionTypes, AttemptTypes, Workflows, Reasons, Activations
  <1>3. RetriesBehindAttempts
    BY EditionsAssumption DEF RetriesBehindAttempts
  <1>4. OneActive /\ ArchivedIsOver /\ LeaseKept
    BY Disjoint DEF OneActive, ArchivedIsOver, LeaseKept, IsActive
  <1>5. JobMatchesEdition
    <2>1. \A e \in Editions : JobsFor(e) = {}
      BY JobsAssumption DEF Init, JobsFor, Exists
    <2> QED
      BY <2>1 DEF JobMatchesEdition, HasJob
  <1>6. PausedIsQuiet
    BY DEF PausedIsQuiet, EditionsOf, Working
  <1> QED
    BY <1>1, <1>2, <1>3, <1>4, <1>5, <1>6 DEF SubInv

LEMMA SubInvStep == SubInv /\ [SubNext]_allVars => SubInv'
  <1> SUFFICES ASSUME SubInv, [SubNext]_allVars PROVE SubInv'
    OBVIOUS
  <1>1. TypeOK /\ OneJobPerRequest
    BY DEF SubInv, Inv
  <1>2. EditionStep
    BY StepsEditions
  <1>3. Inv' /\ TypeOK'
    <2>1. Inv'
      BY SubStep, InvStep DEF SubInv
    <2> QED
      BY <2>1 DEF Inv
  <1>4. EditionTypes' /\ AttemptTypes'
    BY <1>2, EditionTypesStep, AttemptTypesStep DEF SubInv
  <1>5. RetriesBehindAttempts' /\ OneActive' /\ ArchivedIsOver'
    BY <1>2, RetriesStep, OneActiveStep, ArchivedStep DEF SubInv
  <1>6. JobMatchesEdition'
    BY <1>1, MatchingStep DEF SubInv
  <1>7. PausedIsQuiet'
    BY <1>1, <1>2, QuietStep DEF SubInv
  <1>8. LeaseKept'
    BY <1>1, <1>3, <1>6, LeaseKeptStep DEF SubInv
  <1> QED
    BY <1>3, <1>4, <1>5, <1>6, <1>7, <1>8 DEF SubInv

LEMMA SubInvCorrect == SubSpec => []SubInv
  BY SubInvInit, SubInvStep, PTL DEF SubSpec

\* Every step keeps the types of jobs, editions and subscriptions.
THEOREM SubTypeCorrect == SubSpec => []SubTypeOK
  <1>1. SubInv => SubTypeOK
    BY DEF SubInv, Inv, EditionTypes, AttemptTypes, SubTypeOK
  <1> QED
    BY <1>1, SubInvCorrect, PTL

\* Whatever happens between them, an edition has at most MaxRetries automatic
\* retries: each needs an attempt started since the last, within the limit.
THEOREM RetriesCorrect == SubSpec => []RetriesBounded
  <1>1. SubInv => RetriesBounded
    BY DEF SubInv, RetriesBehindAttempts, RetriesBounded
  <1> QED
    BY <1>1, SubInvCorrect, PTL

\* Nothing reopens a finished edition or moves one of a deleted subscription.
THEOREM ClosedCorrect == SubSpec => ClosedStays
  <1>1. SubInv /\ [SubNext]_allVars => ClosedKept
    BY StepsEditions, ClosedStep DEF SubInv
  <1> QED
    BY <1>1, SubInvCorrect, PTL DEF SubSpec, ClosedStays

\* No subscription ever has two active editions, however many are due, prepared
\* and admitted together.
THEOREM OneActiveCorrect == SubSpec => []OneActiveEdition
  <1>1. ASSUME OneActive, NEW s \in Subs PROVE Cardinality(ActiveEditions(s)) <= 1
    <2>1. \A e, f \in ActiveEditions(s) : e = f
      BY <1>1 DEF ActiveEditions, EditionsOf, OneActive, IsActive
    <2>2. CASE ActiveEditions(s) = {}
      BY <2>2, FS_EmptySet
    <2>3. CASE \E e : ActiveEditions(s) = {e}
      BY <2>3, FS_Singleton
    <2> QED
      BY <2>1, <2>2, <2>3
  <1>2. SubInv => OneActiveEdition
    BY <1>1 DEF SubInv, OneActiveEdition
  <1> QED
    BY <1>2, SubInvCorrect, PTL

-----------------------------------------------------------------------------
(* Why a paused job of an edition stays *)

\* Only the deletion of its subscription cancels an edition.
CancelledIsDeleted ==
  \A e \in Editions : workflow[e] = "cancelled" => activation[SubOf[e]] = "archived"

\* The error of a job whose edition waits for a retry, or for its schedule
HeldErrors ==
  \A e \in Editions : \A j \in JobsFor(e) :
    /\ workflow[e] = "retry_wait" => error[j] = "transient"
    /\ workflow[e] = "paused" /\ reason[e] = "schedule" => error[j] # "final"

\* A paused job that can neither resume nor be discarded is an edition's whose
\* error is final, whose allowance is spent or whose subscription is deleted.
StuckHasCause ==
  \A j \in Jobs : status[j] = "paused" /\ ~CanResume(j) /\ ~CanDiscard(j) =>
    \/ error[j] = "final" \/ EditionOf(j) \in spent
    \/ activation[SubOf[EditionOf(j)]] = "archived"

\* Whatever the schedule control has paused can be resumed, unless its allowance
\* is spent.
RefusedWhenSpent ==
  \A e \in Editions : workflow[e] = "paused" /\ reason[e] = "schedule" =>
    HasJob(e) /\ \A j \in JobsFor(e) : CanResume(j) \/ e \in spent

LEMMA CancelledStep ==
  ASSUME EditionTypes, CancelledIsDeleted, EditionStep PROVE CancelledIsDeleted'
  <1> USE DEF EditionTypes
  <1>1. \A e \in Editions : SubOf[e] \in Subs
    BY DEF Subs
  <1>2. ASSUME \A s \in Subs : activation[s] = "archived" => activation'[s] = "archived",
               \A e \in Editions : workflow'[e] = "cancelled" => workflow[e] = "cancelled"
        PROVE  CancelledIsDeleted'
    BY <1>1, <1>2 DEF CancelledIsDeleted
  <1>3. ASSUME NEW e \in Editions, Reserves(e) PROVE CancelledIsDeleted'
    <2>1. PICK w \in {"queued", "pending", "blocked"} : Reserve(e, w)
      BY <1>3 DEF Reserves
    <2>2. \A f \in Editions : workflow'[f] \in {w, "skipped", workflow[f]}
      BY <2>1 DEF Reserve
    <2> QED
      BY <1>2, <1>3, <2>2 DEF Reserves
  <1>4. ASSUME NEW e \in Editions, Advances(e) PROVE CancelledIsDeleted'
    <2>1. PICK w \in Onward(e) : workflow' = [workflow EXCEPT ![e] = w]
      BY <1>4 DEF Advances
    <2>2. w # "cancelled"
      BY DEF Onward
    <2> QED
      BY <1>2, <1>4, <2>1, <2>2 DEF Advances
  <1>5. ASSUME NEW e \in Editions, Retries(e) \/ Starts(e) \/ SkipCovered(e)
        PROVE  CancelledIsDeleted'
    BY <1>2, <1>5 DEF Retries, Starts, SkipCovered, OnlyEdition
  <1>6. ASSUME NEW s \in Subs, ScheduleControls(s) PROVE CancelledIsDeleted'
    <2>1. \A r \in Subs : activation[r] = "archived" => activation'[r] = "archived"
      BY <1>6
      DEF ScheduleControls, Disable, Enable, EditActivation, Archive, SetActivation, NotArchived
    <2>2. CASE Disable(s) \/ Enable(s) \/ EditActivation(s)
      BY <1>2, <2>1, <2>2 DEF Disable, Enable, EditActivation, Advance, editionVars
    <2>3. CASE Archive(s)
      <3>1. activation'[s] = "archived"
        BY <2>3 DEF Archive, SetActivation
      <3>2. \A e \in Editions :
              workflow'[e] = "cancelled" => SubOf[e] = s \/ workflow[e] = "cancelled"
        BY <2>3 DEF Archive, ToCancel, ActiveEditions, EditionsOf
      <3> QED
        BY <1>1, <2>1, <3>1, <3>2 DEF CancelledIsDeleted
    <2> QED
      BY <1>6, <2>2, <2>3 DEF ScheduleControls
  <1>7. CASE Recovers
    BY <1>2, <1>7 DEF Recovers
  <1>8. CASE UNCHANGED <<workflow, attempt, auto, activation>>
    BY <1>2, <1>8
  <1> QED
    BY <1>3, <1>4, <1>5, <1>6, <1>7, <1>8 DEF EditionStep

\* An edition that a step leaves alone, or takes where no error matters
Unheld(f) == \/ workflow'[f] = workflow[f] /\ reason'[f] = reason[f]
             \/ workflow'[f] \notin {"paused", "retry_wait"}
             \/ workflow'[f] = "paused" /\ reason'[f] # "schedule"

LEMMA HeldIdle ==
  ASSUME HeldErrors, UNCHANGED <<status, error>>,
         \A f \in Editions :
           \/ Unheld(f)
           \/ workflow'[f] = "paused" /\ \A k \in JobsFor(f) : error[k] # "final"
  PROVE  HeldErrors'
  <1>1. \A f \in Editions : JobsFor(f)' = JobsFor(f)
    BY DEF JobsFor, Exists
  <1> QED
    BY <1>1 DEF HeldErrors, Unheld

\* A step that moves one job, and its edition if it has one, to a place that
\* agrees with the job's error
LEMMA HeldMove ==
  ASSUME OneJobPerRequest', HeldErrors, NEW j \in Jobs,
         \A k \in Jobs \ {j} : status'[k] = status[k] /\ error'[k] = error[k],
         \A f \in Editions : Unheld(f) \/ (j \in EditionJobs /\ f = EditionOf(j)),
         j \in EditionJobs =>
           /\ status'[j] \notin {"absent", "discarded"}
           /\ LET e == EditionOf(j) IN
              \/ workflow'[e] \notin {"paused", "retry_wait"}
              \/ workflow'[e] = "retry_wait" /\ error'[j] = "transient"
              \/ workflow'[e] = "paused" /\ (reason'[e] = "schedule" => error'[j] # "final")
  PROVE  HeldErrors'
  <1> SUFFICES ASSUME NEW f \in Editions, NEW k \in JobsFor(f)'
               PROVE  /\ workflow'[f] = "retry_wait" => error'[k] = "transient"
                      /\ workflow'[f] = "paused" /\ reason'[f] = "schedule" => error'[k] # "final"
    BY DEF HeldErrors
  <1>1. k \in EditionJobs /\ k \in Jobs /\ KeyOf[k] = f /\ status'[k] \notin {"absent", "discarded"}
    BY JobsAssumption DEF JobsFor, Exists
  <1>2. CASE k = j
    BY <1>1, <1>2 DEF EditionOf
  <1>3. CASE k # j
    <2>1. ~ (j \in EditionJobs /\ f = EditionOf(j))
      BY <1>1, <1>3, EditionsAssumption DEF EditionOf, OneJobPerRequest, SameRequest, Exists
    <2>2. k \in JobsFor(f) /\ error'[k] = error[k]
      BY <1>1, <1>3 DEF JobsFor, Exists
    <2> QED
      BY <2>1, <2>2 DEF HeldErrors, Unheld
  <1> QED
    BY <1>2, <1>3

LEMMA HeldControls ==
  ASSUME TypeOK, EditionTypes, AttemptTypes, OneJobPerRequest', HeldErrors,
         NEW j \in Jobs, SubControls(j)
  PROVE  HeldErrors'
  <1>1. CASE SubPrepare(j) \/ SubAdmitDropped(j)
    BY <1>1, HeldIdle
    DEF SubPrepare, SubAdmitDropped, Prepare, AdmitDropped, rowVars, subVars, editionVars, Unheld
  <1>2. CASE AdmitWait(j)
    <2>1. EditionOf(j) \in Editions /\ UNCHANGED <<status, error>>
          /\ \E w \in {"pending", "blocked"} : Reserve(EditionOf(j), w)
      BY <1>2, EditionOfJob DEF AdmitWait, AdmitDropped, IsEdition, rowVars
    <2>2. \A f \in Editions : Unheld(f)
      BY <2>1 DEF Reserve, Unheld, AttemptTypes
    <2> QED
      BY <2>1, <2>2, HeldIdle
  <1>3. CASE SubAdmit(j)
    <2>1. status'[j] = "queued" /\ \A k \in Jobs \ {j} : status'[k] = status[k] /\ error'[k] = error[k]
      BY <1>3 DEF SubAdmit, AdmitPrepared, TypeOK
    <2>2. CASE IsEdition(j)
      <3>1. EditionOf(j) \in Editions /\ Reserve(EditionOf(j), "queued")
        BY <1>3, <2>2, EditionOfJob DEF SubAdmit, IsEdition
      <3>2. /\ workflow'[EditionOf(j)] = "queued"
            /\ \A f \in Editions : Unheld(f)
        BY <3>1 DEF Reserve, Unheld, AttemptTypes
      <3> QED
        BY <2>1, <3>2, HeldMove
    <2>3. CASE ~IsEdition(j)
      BY <1>3, <2>1, <2>3, HeldMove DEF SubAdmit, IsEdition, Unheld
    <2> QED
      BY <2>2, <2>3
  <1>4. CASE SubPause(j) \/ SubResume(j)
    <2>1. /\ status'[j] \in {"paused", "queued"} /\ error'[j] = "none"
          /\ \A k \in Jobs \ {j} : status'[k] = status[k] /\ error'[k] = error[k]
      BY <1>4 DEF SubPause, SubResume, Pause, Resume, Requeue, Release, TypeOK
    <2>2. CASE IsEdition(j)
      <3>1. /\ EditionOf(j) \in Editions
            /\ workflow'[EditionOf(j)] \in {"paused", "queued"}
            /\ \A f \in Editions \ {EditionOf(j)} : Unheld(f)
        BY <1>4, <2>2, EditionOfJob
        DEF SubPause, SubResume, Advance, EditionTypes, AttemptTypes, IsEdition, Unheld
      <3> QED
        BY <2>1, <2>2, <3>1, HeldMove DEF IsEdition
    <2>3. CASE ~IsEdition(j)
      BY <1>4, <2>1, <2>3, HeldMove DEF SubPause, SubResume, IsEdition, Unheld
    <2> QED
      BY <2>2, <2>3
  <1>5. CASE SubDiscard(j)
    <2>1. /\ j \notin EditionJobs /\ UNCHANGED <<workflow, reason>>
          /\ \A k \in Jobs \ {j} : status'[k] = status[k] /\ error'[k] = error[k]
      BY <1>5 DEF SubDiscard, Discard, subVars, editionVars, TypeOK
    <2> QED
      BY <2>1, HeldMove DEF Unheld
  <1> QED
    BY <1>1, <1>2, <1>3, <1>4, <1>5 DEF SubControls

LEMMA HeldLoops ==
  ASSUME TypeOK, EditionTypes, AttemptTypes, JobMatchesEdition, OneJobPerRequest', HeldErrors
  PROVE  /\ \A j \in Jobs : SubTickJob(j) => HeldErrors'
         /\ \A e \in Editions : EditionLoops(e) => HeldErrors'
         /\ SubRecover => HeldErrors'
  <1>1. ASSUME NEW j \in Jobs, SubTickJob(j) PROVE HeldErrors'
    <2>1. j \in EditionJobs /\ EditionOf(j) \in Editions
      BY <1>1, EditionOfJob
      DEF SubTickJob, SubResumeDue, SubStopWaiting, Probe, ResumeDue, StopWaiting, IsEdition
    <2>2. \E s \in {"queued", "paused", "failed"}, e \in {"none", "interrupted"} : Release(j, s, e)
      BY <1>1 DEF SubTickJob, SubResumeDue, SubStopWaiting, Probe, ResumeDue, StopWaiting, Resume,
                  Requeue, Stopped
    <2>3. /\ status'[j] \in {"queued", "paused", "failed"} /\ error'[j] # "final"
          /\ \A k \in Jobs \ {j} : status'[k] = status[k] /\ error'[k] = error[k]
      BY <2>2 DEF Release, TypeOK
    <2>4. \E w \in {"queued", "failed", "paused", "blocked"}, r \in Reasons :
            Advance(EditionOf(j), w, r)
      BY <1>1 DEF SubTickJob, SubResumeDue, SubStopWaiting, Probe, Reasons
    <2>5. /\ workflow'[EditionOf(j)] # "retry_wait"
          /\ \A f \in Editions \ {EditionOf(j)} : Unheld(f)
      BY <2>1, <2>4 DEF Advance, EditionTypes, AttemptTypes, Unheld
    <2> QED
      BY <2>1, <2>3, <2>5, HeldMove
  <1>2. ASSUME NEW e \in Editions, EditionLoops(e) PROVE HeldErrors'
    <2>1. UNCHANGED <<status, error>>
      BY <1>2 DEF EditionLoops, Reopen, SkipCovered, vars, rowVars
    <2>2. \A f \in Editions : Unheld(f)
      BY <1>2 DEF EditionLoops, Reopen, SkipCovered, Advance, EditionTypes, AttemptTypes, Unheld
    <2> QED
      BY <2>1, <2>2, HeldIdle
  <1>3. CASE SubRecover
    <2>1. \A k \in Jobs : \/ status'[k] = status[k] /\ error'[k] = error[k]
                          \/ status[k] = "running" /\ status'[k] = "paused"
      BY <1>3 DEF SubRecover, RecoverExpired, vars, rowVars
    <2>2. \A f \in Editions : JobsFor(f)' = JobsFor(f)
      BY <2>1, JobsAssumption DEF JobsFor, Exists
    <2>3. \A f \in Editions : Unheld(f) /\ (workflow[f] = "running" => workflow'[f] = "running"
                                                \/ (workflow'[f] = "paused" /\ reason'[f] = "other"))
      BY <1>3 DEF SubRecover, Unheld
    <2>4. ASSUME NEW f \in Editions, NEW k \in JobsFor(f)
          PROVE  /\ workflow'[f] = "retry_wait" => error'[k] = "transient"
                 /\ workflow'[f] = "paused" /\ reason'[f] = "schedule" => error'[k] # "final"
      <3>1. k \in Jobs /\ workflow[f] \in Matching(status[k])
        BY JobsAssumption DEF JobMatchesEdition, JobsFor
      <3>2. CASE error'[k] = error[k]
        BY <2>3, <3>2 DEF HeldErrors, Unheld
      <3>3. CASE status[k] = "running"
        BY <2>3, <3>1, <3>3, MatchingValues
      <3> QED
        BY <2>1, <3>1, <3>2, <3>3
    <2> QED
      BY <2>2, <2>4 DEF HeldErrors
  <1> QED
    BY <1>1, <1>2, <1>3

LEMMA HeldSchedule ==
  ASSUME TypeOK, EditionTypes, AttemptTypes, OneActive, JobMatchesEdition, OneJobPerRequest',
         HeldErrors, NEW s \in Subs, ScheduleControls(s)
  PROVE  HeldErrors'
  <1>1. CASE (Disable(s) \/ Archive(s)) /\ \E j \in ToStop(s) : Pause(j)
    <2>1. PICK j \in ToStop(s) : Pause(j)
      BY <1>1
    <2>2. /\ j \in EditionJobs /\ EditionOf(j) \in Editions
          /\ ActiveEditions(s) = {EditionOf(j)}
      BY <2>1, StoppedEdition
    <2>3. /\ j \in Jobs /\ status'[j] = "paused" /\ error'[j] = "none"
          /\ \A k \in Jobs \ {j} : status'[k] = status[k] /\ error'[k] = error[k]
      BY <2>1, <2>2, JobsAssumption DEF Pause, Release, TypeOK
    <2>4. /\ \A f \in Editions \ {EditionOf(j)} : Unheld(f)
          /\ workflow'[EditionOf(j)] \in {"paused", "cancelled"}
      <3>1. CASE Disable(s)
        <4>1. HasJob(EditionOf(j)) /\ workflow[EditionOf(j)] \in Working
          BY <2>1, StoppedEdition
        <4>2. Advance(EditionOf(j), "paused", "schedule")
          BY <2>2, <3>1, <4>1 DEF Disable
        <4> QED
          BY <2>2, <4>2 DEF Advance, EditionTypes, AttemptTypes, Unheld
      <3>2. CASE Archive(s)
        BY <2>2, <3>2 DEF Archive, ToCancel, Unheld
      <3> QED
        BY <1>1, <3>1, <3>2
    <2> QED
      BY <2>2, <2>3, <2>4, HeldMove
  <1>2. CASE ToStop(s) = {} /\ (Disable(s) \/ Archive(s))
    <2>1. UNCHANGED <<status, error>>
      BY <1>2 DEF Disable, Archive, StopJobs, vars, rowVars
    <2>2. CASE Archive(s)
      BY <2>1, <2>2, HeldIdle DEF Archive, Unheld
    <2>3. CASE Disable(s) /\ UNCHANGED <<workflow, reason>>
      BY <2>1, <2>3, HeldIdle DEF Unheld
    <2>4. CASE \E e \in ActiveEditions(s) : /\ workflow[e] \in Working \cup {"retry_wait"}
                                           /\ Advance(e, "paused", "schedule")
      <3>1. PICK e \in ActiveEditions(s) : /\ workflow[e] \in Working \cup {"retry_wait"}
                                          /\ Advance(e, "paused", "schedule")
        BY <2>4
      <3>2. e \in Editions
        BY DEF ActiveEditions, EditionsOf
      <3>3. /\ workflow'[e] = "paused"
            /\ \A f \in Editions \ {e} : Unheld(f)
        BY <3>1, <3>2 DEF Advance, EditionTypes, AttemptTypes, Unheld
      <3>4. ASSUME NEW k \in JobsFor(e) PROVE error[k] # "final"
        <4>1. CASE workflow[e] = "retry_wait"
          BY <3>2, <4>1 DEF HeldErrors
        <4>2. CASE workflow[e] \in Working
          <5>1. status[k] \in Active
            BY <3>2, <4>2, WorkingHasJob DEF Working, Active
          <5>2. k \in ToStop(s)
            BY <5>1, JobsAssumption DEF ToStop, ActiveJobs, JobsFor
          <5> QED
            BY <1>2, <5>2
        <4> QED
          BY <3>1, <4>1, <4>2
      <3> QED
        BY <2>1, <3>2, <3>3, <3>4, HeldIdle
    <2> QED
      BY <1>2, <2>2, <2>3, <2>4 DEF Disable
  <1>3. CASE Enable(s)
    <2>1. CASE UNCHANGED <<vars, workflow, reason>>
      BY <2>1, HeldIdle DEF vars, rowVars, Unheld
    <2>2. CASE \E e \in ActiveEditions(s), j \in Jobs :
                 j \in JobsFor(e) /\ Resume(j) /\ Advance(e, "queued", "none")
      <3>1. PICK e \in ActiveEditions(s), j \in Jobs :
              j \in JobsFor(e) /\ Resume(j) /\ Advance(e, "queued", "none")
        BY <2>2
      <3>2. j \in EditionJobs /\ EditionOf(j) = e /\ e \in Editions
        BY <3>1 DEF JobsFor, EditionOf, ActiveEditions, EditionsOf
      <3>3. /\ status'[j] = "queued"
            /\ \A k \in Jobs \ {j} : status'[k] = status[k] /\ error'[k] = error[k]
        BY <3>1 DEF Resume, Requeue, Release, TypeOK
      <3>4. workflow'[e] = "queued" /\ \A f \in Editions \ {e} : Unheld(f)
        BY <3>1, <3>2 DEF Advance, EditionTypes, AttemptTypes, Unheld
      <3> QED
        BY <3>2, <3>3, <3>4, HeldMove
    <2> QED
      BY <1>3, <2>1, <2>2 DEF Enable
  <1>4. CASE EditActivation(s)
    BY <1>4, HeldIdle DEF EditActivation, vars, rowVars, editionVars, Unheld
  <1> QED
    BY <1>1, <1>2, <1>3, <1>4 DEF ScheduleControls, Disable, Archive, StopJobs

LEMMA HeldTask ==
  ASSUME TypeOK, EditionTypes, AttemptTypes, OneJobPerRequest', HeldErrors,
         NEW j \in Jobs, NEW t \in Tokens, SubClaim(j, t) \/ SubTask(j, t)
  PROVE  HeldErrors'
  <1>1. CASE SubEndTask(j, t) \/ Spend(j, t)
    BY <1>1, HeldIdle DEF SubEndTask, EndTask, Spend, vars, rowVars, Unheld
  <1>2. CASE SubClaim(j, t) \/ SubPublish(j, t) \/ SubPauseStopped(j, t)
    <2>1. /\ status'[j] \notin {"absent", "discarded"}
          /\ \A k \in Jobs \ {j} : status'[k] = status[k] /\ error'[k] = error[k]
      <3>1. CASE SubClaim(j, t)
        BY <3>1 DEF SubClaim, Claim, ClaimRow, TypeOK
      <3>2. CASE SubPublish(j, t)
        BY <3>2 DEF SubPublish, Publish, Release, Final, TypeOK
      <3>3. CASE SubPauseStopped(j, t)
        BY <3>3 DEF SubPauseStopped, PauseStopped, StopOutcomes, Release, TypeOK
      <3> QED
        BY <1>2, <3>1, <3>2, <3>3
    <2>2. CASE ~IsEdition(j)
      <3>1. UNCHANGED <<workflow, reason>>
        BY <1>2, <2>2 DEF SubClaim, SubPublish, SubPauseStopped, subVars, editionVars
      <3> QED
        BY <2>1, <2>2, <3>1, HeldMove DEF IsEdition, Unheld
    <2>3. CASE IsEdition(j)
      <3> DEFINE e == EditionOf(j)
      <3>1. j \in EditionJobs /\ e \in Editions
        BY <2>3, EditionOfJob DEF IsEdition
      <3>2. SUFFICES /\ \A f \in Editions \ {e} : Unheld(f)
                     /\ \/ workflow'[e] \notin {"paused", "retry_wait"}
                        \/ workflow'[e] = "retry_wait" /\ error'[j] = "transient"
                        \/ workflow'[e] = "paused" /\ reason'[e] # "schedule"
        BY <2>1, <3>1, HeldMove
      <3>3. CASE SubClaim(j, t)
        BY <2>3, <3>1, <3>3 DEF SubClaim, StartAttempt, EditionTypes, AttemptTypes, Unheld
      <3>4. CASE SubPublish(j, t)
        BY <2>3, <3>1, <3>4 DEF SubPublish, Advance, EditionTypes, AttemptTypes, Unheld
      <3>5. CASE SubPauseStopped(j, t)
        <4>1. PICK o \in EditionOutcome(e, status'[j], error'[j]) : Advance(e, o[1], o[2])
          BY <2>3, <3>5 DEF SubPauseStopped
        <4>2. /\ workflow'[e] = o[1] /\ reason'[e] = o[2]
              /\ \A f \in Editions \ {e} : Unheld(f)
          BY <3>1, <4>1 DEF Advance, EditionTypes, AttemptTypes, Unheld
        <4>3. o[2] # "schedule" /\ (o[1] = "retry_wait" => error'[j] = "transient")
          BY <4>1 DEF EditionOutcome
        <4> QED
          BY <4>2, <4>3
      <3> QED
        BY <1>2, <3>3, <3>4, <3>5
    <2> QED
      BY <2>2, <2>3
  <1> QED
    BY <1>1, <1>2 DEF SubTask

LEMMA HeldStep ==
  ASSUME TypeOK, EditionTypes, AttemptTypes, OneActive, JobMatchesEdition, OneJobPerRequest',
         HeldErrors, [SubNext]_allVars
  PROVE  HeldErrors'
  <1>1. CASE QueueOnly
    <2>1. UNCHANGED <<status, error, workflow, reason>>
      BY <1>1
      DEF QueueOnly, Reap, ReadQueue, EndTick, Stop, Start, Crash, SkipListed, LeaseExpires,
          StartTask, WorkFails, rowVars, subVars, editionVars
    <2> QED
      BY <2>1, HeldIdle DEF Unheld
  <1>2. CASE UNCHANGED allVars
    BY <1>2, HeldIdle DEF allVars, vars, rowVars, subVars, editionVars, Unheld
  <1> QED
    BY <1>1, <1>2, HeldControls, HeldLoops, HeldSchedule, HeldTask DEF SubNext

LEMMA CausesCorrect == SubSpec => [](CancelledIsDeleted /\ HeldErrors)
  <1>1. SubInit => CancelledIsDeleted /\ HeldErrors
    BY DEF SubInit, CancelledIsDeleted, HeldErrors
  <1>2. SubInv /\ SubInv' /\ CancelledIsDeleted /\ HeldErrors /\ [SubNext]_allVars
          => (CancelledIsDeleted /\ HeldErrors)'
    BY StepsEditions, CancelledStep, HeldStep DEF SubInv, Inv
  <1> QED
    BY <1>1, <1>2, SubInvCorrect, PTL DEF SubSpec

\* What the run subscriptions_stuck finds has these causes and no other: any other
\* paused job can leave, discarded or resumed as soon as there is capacity and its
\* subscription is enabled.
THEOREM StuckCorrect == SubSpec => []StuckHasCause
  <1>1. ASSUME SubInv, CancelledIsDeleted PROVE StuckHasCause
    <2> SUFFICES ASSUME NEW j \in Jobs, status[j] = "paused", ~CanResume(j), ~CanDiscard(j)
                 PROVE  \/ error[j] = "final" \/ EditionOf(j) \in spent
                        \/ activation[SubOf[EditionOf(j)]] = "archived"
      BY DEF StuckHasCause
    <2>1. j \in EditionJobs /\ Exists(j)
      BY DEF CanDiscard, IsEdition, Exists
    <2>2. EditionOf(j) \in Editions /\ workflow[EditionOf(j)] \in Matching("paused")
      BY <1>1, <2>1, JobOfEdition DEF SubInv, JobMatchesEdition
    <2> QED
      BY <1>1, <2>2, MatchingValues DEF CanResume, Resumable, CancelledIsDeleted
  <1> QED
    BY <1>1, SubInvCorrect, CausesCorrect, PTL

\* The case of the run subscriptions_resume is the only one: the schedule's resume
\* is refused for good only where the allowance of the edition is spent.
THEOREM ResumeCorrect == SubSpec => []RefusedWhenSpent
  <1>1. ASSUME SubInv, HeldErrors PROVE RefusedWhenSpent
    <2> SUFFICES ASSUME NEW e \in Editions, workflow[e] = "paused", reason[e] = "schedule"
                 PROVE  HasJob(e) /\ \A j \in JobsFor(e) : CanResume(j) \/ e \in spent
      BY DEF RefusedWhenSpent
    <2>1. HasJob(e)
      BY <1>1 DEF SubInv, JobMatchesEdition
    <2>2. \A j \in JobsFor(e) : error[j] # "final" /\ EditionOf(j) = e
      BY <1>1 DEF HeldErrors, JobsFor, EditionOf
    <2> QED
      BY <2>1, <2>2 DEF CanResume, Resumable
  <1> QED
    BY <1>1, SubInvCorrect, CausesCorrect, PTL

-----------------------------------------------------------------------------
(* How far automatic retries exceed the active limit *)

\* The subscriptions whose editions an owner's jobs belong to, and the most
\* active jobs an owner with that many subscriptions may have.
SubsOf(o) == {SubOf[EditionOf(j)] : j \in JobsOf(o) \cap EditionJobs}
OverflowBounded ==
  \A j \in Jobs : LET o == OwnerOf[j] IN
    Cardinality(ActiveOf(o)) <= MaxActive + Cardinality(SubsOf(o))

\* Two active jobs of editions belong to two subscriptions.
LEMMA ActiveJobsApart ==
  ASSUME TypeOK, OneJobPerRequest, JobMatchesEdition, OneActive,
         NEW j \in EditionJobs, NEW k \in EditionJobs,
         status[j] \in Active, status[k] \in Active,
         SubOf[EditionOf(j)] = SubOf[EditionOf(k)]
  PROVE  j = k
  <1>1. ASSUME NEW i \in EditionJobs, status[i] \in Active
        PROVE  i \in JobsFor(EditionOf(i)) /\ EditionOf(i) \in Editions /\ IsActive(EditionOf(i))
    <2>1. Exists(i) /\ status[i] \in {"queued", "running"}
      BY <1>1 DEF Exists, Active
    <2>2. EditionOf(i) \in Editions /\ i \in JobsFor(EditionOf(i))
      BY <2>1, JobOfEdition
    <2>3. workflow[EditionOf(i)] \in Matching(status[i])
      BY <2>2 DEF JobMatchesEdition
    <2>4. workflow[EditionOf(i)] \in {"queued", "running"}
      BY <2>1, <2>3, MatchingValues
    <2> QED
      BY <2>2, <2>4, Disjoint DEF IsActive
  <1>2. EditionOf(j) = EditionOf(k)
    BY <1>1 DEF OneActive
  <1> QED
    BY <1>1, <1>2, OneJobOfEdition

\* Ordinary jobs stay within the active limit, and every active job of an edition
\* has a subscription of its own.
LEMMA OverflowByEditions ==
  ASSUME TypeOK, OneJobPerRequest, JobMatchesEdition, OneActive, OrdinaryWithinLimit
  PROVE  OverflowBounded
  <1> SUFFICES ASSUME NEW i \in Jobs
               PROVE  Cardinality(ActiveOf(OwnerOf[i]))
                        <= MaxActive + Cardinality(SubsOf(OwnerOf[i]))
    BY DEF OverflowBounded
  <1> DEFINE o == OwnerOf[i]
             T == {j \in ActiveOf(o) : j \in EditionJobs}
             f == [j \in T |-> SubOf[EditionOf(j)]]
  <1>1. /\ ActiveOf(o) \in SUBSET Jobs /\ OrdinaryActive(o) \in SUBSET Jobs /\ T \in SUBSET Jobs
        /\ ActiveOf(o) = OrdinaryActive(o) \cup T /\ OrdinaryActive(o) \cap T = {}
    BY DEF ActiveOf, JobsOf, OrdinaryActive
  <1>2. IsFiniteSet(OrdinaryActive(o)) /\ IsFiniteSet(T)
    BY <1>1, JobsAssumption, FS_Subset
  <1>3. Cardinality(OrdinaryActive(o)) \in Nat /\ Cardinality(T) \in Nat
    BY <1>2, FS_CardinalityType
  <1>4. Cardinality(ActiveOf(o)) = Cardinality(OrdinaryActive(o)) + Cardinality(T)
    <2> HIDE DEF T
    <2>1. Cardinality(OrdinaryActive(o) \cap T) = 0
      BY <1>1, FS_EmptySet
    <2>2. Cardinality(OrdinaryActive(o) \cup T)
            = Cardinality(OrdinaryActive(o)) + Cardinality(T) - Cardinality(OrdinaryActive(o) \cap T)
      BY <1>2, FS_Union
    <2> QED
      BY <1>1, <1>3, <2>1, <2>2
  <1>5. IsFiniteSet(SubsOf(o)) /\ Cardinality(SubsOf(o)) \in Nat
    <2> DEFINE J == JobsOf(o) \cap EditionJobs
               g == [j \in J |-> SubOf[EditionOf(j)]]
    <2>1. IsFiniteSet(J)
      BY JobsAssumption, FS_Subset DEF JobsOf
    <2>2. g \in Surjection(J, SubsOf(o))
      BY DEF SubsOf, Surjection
    <2> HIDE DEF J, g
    <2> QED
      BY <2>1, <2>2, FS_Surjection, FS_CardinalityType
  <1>6. Cardinality(T) <= Cardinality(SubsOf(o))
    <2>1. T \subseteq JobsOf(o) \cap EditionJobs
      BY DEF ActiveOf
    <2>2. f \in [T -> SubsOf(o)]
      BY <2>1 DEF SubsOf
    <2>3. \A j, k \in T : f[j] = f[k] => j = k
      <3> SUFFICES ASSUME NEW j \in T, NEW k \in T, f[j] = f[k] PROVE j = k
        OBVIOUS
      <3>1. SubOf[EditionOf(j)] = SubOf[EditionOf(k)]
        OBVIOUS
      <3>2. /\ j \in EditionJobs /\ status[j] \in Active
            /\ k \in EditionJobs /\ status[k] \in Active
        BY DEF ActiveOf
      <3> QED
        BY <3>1, <3>2, ActiveJobsApart
    <2>4. f \in Injection(T, SubsOf(o))
      BY <2>2, <2>3 DEF Injection, IsInjective
    <2> HIDE DEF T, f
    <2> QED
      BY <1>5, <2>4, FS_Injection
  <1>7. Cardinality(OrdinaryActive(o)) <= MaxActive
    BY DEF OrdinaryWithinLimit
  <1> HIDE DEF o, T, f
  <1>8. Cardinality(ActiveOf(o)) <= MaxActive + Cardinality(SubsOf(o))
    BY <1>3, <1>4, <1>5, <1>6, <1>7, LimitsAssumption
  <1> QED
    BY <1>8 DEF o

\* An automatic retry asks for no capacity, so an owner's active jobs may exceed
\* the active limit, but by no more than one job for each of the owner's
\* subscriptions.
THEOREM OverflowCorrect == SubSpec => []OverflowBounded
  <1>1. SubInv /\ OrdinaryWithinLimit => OverflowBounded
    BY OverflowByEditions DEF SubInv, Inv
  <1>2. SubSpec => []OrdinaryWithinLimit
    BY SubscriptionsUseQueue, OrdinaryCorrect, PTL
  <1> QED
    BY <1>1, <1>2, SubInvCorrect, PTL

\* The five writers of jobs and editions never leave the two apart.
THEOREM MatchCorrect == SubSpec => []JobMatchesEdition
  <1>1. SubInv => JobMatchesEdition
    BY DEF SubInv
  <1> QED
    BY <1>1, SubInvCorrect, PTL

\* A paused or deleted subscription has no edition in the queue.
THEOREM QuietCorrect == SubSpec => []PausedIsQuiet
  <1>1. SubInv => PausedIsQuiet
    BY DEF SubInv
  <1> QED
    BY <1>1, SubInvCorrect, PTL

\* The attempt an edition runs under carries the lease its job runs under.
THEOREM AttemptCorrect == SubSpec => []AttemptIsLease
  <1>1. SubInv => AttemptIsLease
    <2> SUFFICES ASSUME SubInv, NEW e \in Editions, workflow[e] = "running"
                 PROVE  \E j \in JobsFor(e) : lease[e] = token[j] /\ token[j] # 0
      BY DEF AttemptIsLease
    <2>1. TypeOK /\ LeaseIffRunning /\ JobMatchesEdition /\ LeaseKept
      BY DEF SubInv, Inv
    <2>2. PICK j \in JobsFor(e) : status[j] = "running"
      BY <2>1, WorkingHasJob DEF HasJob
    <2>3. j \in Jobs
      BY JobsAssumption DEF JobsFor
    <2> QED
      BY <2>1, <2>2, <2>3 DEF LeaseIffRunning, LeaseKept
  <1> QED
    BY <1>1, SubInvCorrect, PTL

\* The edition follows its job in its workflow and in its attempt.
THEOREM FollowsCorrect == SubSpec => []EditionFollowsJob
  <1>1. JobMatchesEdition /\ AttemptIsLease => EditionFollowsJob
    BY DEF EditionFollowsJob
  <1> QED
    BY <1>1, MatchCorrect, AttemptCorrect, PTL

-----------------------------------------------------------------------------
(* The editions as their readers see them: SubscriptionsService maps them to  *)
(* EditionService, and each of its steps is a step there or a stutter.        *)

\* Exactly the completed editions have a report, and they have one.
Reported == EditionReports = [e \in Editions |-> IF workflow[e] = "completed" THEN 1 ELSE 0]

LEMMA WorkflowValues ==
  Workflows = {"none", "pending", "queued", "running", "paused", "blocked", "retry_wait",
               "completed", "failed", "cancelled", "skipped"}
  BY DEF Workflows, ActiveWorkflows, Pending, Working, Resumable, Closed

LEMMA WorkflowPhases ==
  ASSUME NEW w \in Workflows
  PROVE  /\ w = "pending" => PhaseOfWorkflow[w] = "planned"
         /\ w \in {"queued", "running"} => PhaseOfWorkflow[w] = "working"
         /\ w \in {"paused", "blocked", "retry_wait"} => PhaseOfWorkflow[w] = "waiting"
         /\ w = "completed" => PhaseOfWorkflow[w] = "delivered"
         /\ w \in {"none", "failed", "cancelled", "skipped"} => PhaseOfWorkflow[w] = w
  BY DEF PhaseOfWorkflow, Working, Resumable

LEMMA ReportedWithInv == ASSUME SubInv, EditionJobsKept PROVE Reported
  <1>1. TypeOK /\ PublishedOnce /\ OneJobPerRequest /\ JobMatchesEdition
    BY DEF SubInv, Inv
  <1>2. ASSUME NEW e \in Editions, NEW k \in CandidatesOf(e)
        PROVE  k \in Jobs /\ published[k] \in {0, 1}
               /\ (published[k] = 1 <=> k \in JobsFor(e) /\ status[k] \in Final)
    <2>1. k \in EditionJobs /\ k \in Jobs /\ KeyOf[k] = e
      BY JobsAssumption DEF CandidatesOf
    <2>2. published[k] \in Nat /\ published[k] <= 1 /\ status[k] # "discarded"
      BY <1>1, <2>1 DEF TypeOK, PublishedOnce, EditionJobsKept
    <2>3. published[k] = 1 => status[k] \in Final
      BY <1>1, <2>1, <2>2 DEF PublishedOnce
    <2>4. status[k] \in Final => k \in JobsFor(e)
      BY <2>1 DEF JobsFor, Exists, Final
    <2> QED
      BY <1>1, <2>1, <2>2, <2>3, <2>4 DEF PublishedOnce
  <1>3. ASSUME NEW e \in Editions, workflow[e] = "completed" PROVE Cardinality(VersionsOf(e)) = 1
    <2>1. PICK j \in JobsFor(e) : TRUE
      BY <1>1, <1>3 DEF JobMatchesEdition, HasJob
    <2>2. j \in CandidatesOf(e) /\ status[j] \in Final
      <3>1. "completed" \in Matching(status[j])
        BY <1>1, <1>3 DEF JobMatchesEdition
      <3>2. status[j] \in {"queued", "running", "paused", "failed", "completed", "needs_review"}
        BY <1>1, JobsAssumption DEF JobsFor, Exists, TypeOK, Statuses
      <3> QED
        BY <3>1, <3>2, MatchingValues DEF JobsFor, CandidatesOf, Final
    <2>3. published[j] = 1
      BY <1>2, <2>2
    <2>4. \A k \in CandidatesOf(e) \ {j} : published[k] = 0
      BY <1>1, <1>2, OneJobOfEdition
    <2>5. {j} \X (1..published[j]) = {<<j, 1>>}
      BY <2>3
    <2>6. \A k \in CandidatesOf(e) \ {j} : {k} \X (1..published[k]) = {}
      BY <2>4
    <2>7. VersionsOf(e) = {<<j, 1>>}
      BY <2>2, <2>5, <2>6 DEF VersionsOf
    <2> QED
      BY <2>7, FS_Singleton
  <1>4. ASSUME NEW e \in Editions, workflow[e] # "completed" PROVE Cardinality(VersionsOf(e)) = 0
    <2>1. \A k \in CandidatesOf(e) : published[k] = 0
      <3>1. SUFFICES ASSUME NEW k \in CandidatesOf(e), k \in JobsFor(e), status[k] \in Final
                     PROVE  FALSE
        BY <1>2
      <3>2. workflow[e] \in Matching(status[k])
        BY <1>1, <3>1 DEF JobMatchesEdition
      <3> QED
        BY <1>4, <3>1, <3>2, MatchingValues DEF Final
    <2>2. \A k \in CandidatesOf(e) : {k} \X (1..published[k]) = {}
      BY <2>1
    <2>3. VersionsOf(e) = {}
      BY <2>2 DEF VersionsOf
    <2> QED
      BY <2>3, FS_EmptySet
  <1> QED
    BY <1>3, <1>4 DEF Reported, EditionReports

EditionMapped == Promise!Next \/ UNCHANGED <<EditionPhase, auto, EditionReports, activation>>

\* What a phase says of the workflow
LEMMA PhaseMeans ==
  ASSUME NEW w \in Workflows
  PROVE  /\ PhaseOfWorkflow[w] \in Promise!UnderWay <=> w \in ActiveWorkflows
         /\ PhaseOfWorkflow[w] \in Promise!Unstarted <=> w \in {"none", "pending"}
         /\ PhaseOfWorkflow[w] = "working" <=> w \in Working
         /\ PhaseOfWorkflow[w] = "waiting" <=> w \in Resumable
         /\ PhaseOfWorkflow[w] = "delivered" <=> w = "completed"
  BY WorkflowValues, WorkflowPhases, Disjoint
  DEF Promise!UnderWay, Promise!Unstarted, Working, Resumable

LEMMA PhaseAtEdition ==
  ASSUME EditionTypes, NEW e \in Editions
  PROVE  workflow[e] \in Workflows /\ EditionPhase[e] = PhaseOfWorkflow[workflow[e]]
  BY DEF EditionTypes, EditionPhase

LEMMA NextPhase ==
  ASSUME EditionTypes', NEW e \in Editions
  PROVE  workflow'[e] \in Workflows /\ EditionPhase'[e] = PhaseOfWorkflow[workflow'[e]]
  BY DEF EditionTypes, EditionPhase

LEMMA PhasesMove ==
  ASSUME NEW S, NEW p,
         \A e \in Editions : EditionPhase'[e] = IF e \in S THEN p ELSE EditionPhase[e]
  PROVE  Promise!Move(S, p)
  BY DEF Promise!Move, EditionPhase

LEMMA PhasesStay ==
  ASSUME \A e \in Editions : EditionPhase'[e] = EditionPhase[e] PROVE UNCHANGED EditionPhase
  BY DEF EditionPhase

LEMMA ReportedStays ==
  ASSUME Reported, Reported', \A e \in Editions : workflow'[e] = "completed" <=> workflow[e] = "completed"
  PROVE  UNCHANGED EditionReports
  BY DEF Reported

LEMMA ReportedGrows ==
  ASSUME Reported, Reported', NEW e \in Editions, workflow[e] # "completed",
         \A f \in Editions : workflow'[f] = IF f = e THEN "completed" ELSE workflow[f]
  PROVE  EditionReports' = [EditionReports EXCEPT ![e] = @ + 1]
  BY DEF Reported

\* A reservation gives the edition its turn, in place of those it skips.
LEMMA ReservesMapped ==
  ASSUME EditionTypes, EditionTypes', OneActive, Reported, Reported', NEW e \in Editions, Reserves(e)
  PROVE  Promise!Plan(e)
  <1>1. PICK w \in {"queued", "pending", "blocked"} : Reserve(e, w)
    BY DEF Reserves
  <1> DEFINE S == {f \in Editions \ {e} : workflow'[f] # workflow[f]}
             p == PhaseOfWorkflow[w]
  <1>2. workflow'[e] = w /\ workflow[e] \in {"none", "pending"}
    BY <1>1, ReserveEffect DEF Reserves
  <1>3. \A f \in S : workflow'[f] = "skipped" /\ SubOf[f] = SubOf[e] /\ workflow[f] \in {"none", "pending"}
    BY <1>1, ReserveEffect DEF Reserves
  <1>4. \A f \in Editions \ ({e} \cup S) : SubOf[f] = SubOf[e] => ~IsActive(f)
    BY <1>1, <1>2, ReserveEffect DEF Reserves, OneActive
  <1>5. w \in Workflows /\ p \in Promise!UnderWay
    BY WorkflowValues, PhaseMeans, Disjoint
  <1>6. S \in SUBSET {f \in Promise!EditionsOf(SubOf[e]) \ {e} : EditionPhase[f] \in Promise!Unstarted}
    BY <1>3, PhaseMeans, PhaseAtEdition DEF Promise!EditionsOf
  <1>7. \A f \in Promise!EditionsOf(SubOf[e]) \ ({e} \cup S) : EditionPhase[f] \notin Promise!UnderWay
    BY <1>4, PhaseMeans, PhaseAtEdition DEF Promise!EditionsOf, IsActive
  <1>8. EditionPhase[e] \in Promise!Unstarted /\ Promise!Enabled(e)
    BY <1>2, PhaseMeans, PhaseAtEdition DEF Reserves, Enabled, Promise!Enabled
  <1>9. \A f \in Editions : EditionPhase'[f] =
          CASE f = e -> p [] f \in S -> "skipped" [] OTHER -> EditionPhase[f]
    <2>1. EditionPhase'[e] = p
      BY <1>2, NextPhase
    <2>2. \A f \in S : f # e /\ EditionPhase'[f] = "skipped"
      BY <1>3, NextPhase, WorkflowPhases
    <2>3. \A f \in Editions \ ({e} \cup S) : EditionPhase'[f] = EditionPhase[f]
      BY NextPhase, PhaseAtEdition
    <2> QED
      BY <2>1, <2>2, <2>3
  <1>10. EditionPhase' = [f \in Editions |->
           CASE f = e -> p [] f \in S -> "skipped" [] OTHER -> EditionPhase[f]]
    BY <1>9 DEF EditionPhase
  <1>11. UNCHANGED EditionReports
    BY <1>2, <1>3, ReportedStays
  <1> QED
    BY <1>5, <1>6, <1>7, <1>8, <1>10, <1>11 DEF Promise!Plan, Reserves

LEMMA AdvancesMapped ==
  ASSUME EditionTypes, EditionTypes', Reported, Reported', NEW e \in Editions, Advances(e)
  PROVE  EditionMapped
  <1>1. PICK w \in Onward(e) : workflow' = [workflow EXCEPT ![e] = w]
    BY DEF Advances
  <1>2. w \in Workflows /\ \A f \in Editions : workflow'[f] = IF f = e THEN w ELSE workflow[f]
    BY <1>1 DEF Onward, EditionTypes
  <1>3. Promise!Move({e}, PhaseOfWorkflow[w])
    <2>1. \A f \in Editions :
            EditionPhase'[f] = IF f \in {e} THEN PhaseOfWorkflow[w] ELSE EditionPhase[f]
      BY <1>2, PhaseAtEdition, NextPhase
    <2> QED
      BY <2>1, PhasesMove
  <1>4. ASSUME w # "completed" PROVE UNCHANGED EditionReports
    <2>1. workflow[e] # "completed"
      BY Disjoint DEF Advances, Closed
    <2> QED
      BY <1>2, <1>4, <2>1, ReportedStays
  <1>5. EditionPhase[e] = PhaseOfWorkflow[workflow[e]] /\ workflow[e] \in Workflows
    BY PhaseAtEdition
  <1>6. UNCHANGED <<auto, activation>>
    BY DEF Advances
  <1> USE DEF Promise!Next
  <1>7. CASE w = "pending" /\ workflow[e] = "blocked"
    <2>1. Promise!Replan(e)
      BY <1>3, <1>4, <1>5, <1>6, <1>7, WorkflowPhases, WorkflowValues DEF Promise!Replan
    <2> QED
      BY <2>1 DEF EditionMapped
  <1>8. CASE w = "failed" /\ workflow[e] \in Working \cup {"retry_wait"}
    <2>1. Promise!Fail(e)
      BY <1>3, <1>4, <1>5, <1>6, <1>8, WorkflowPhases, WorkflowValues DEF Promise!Fail, Working
    <2> QED
      BY <2>1 DEF EditionMapped
  <1>9. CASE w \in {"paused", "blocked", "retry_wait"} /\ workflow[e] \in Working
    <2>1. Promise!Halt
      <3>1. {e} \in SUBSET {f \in Editions : EditionPhase[f] = "working"}
        BY <1>5, <1>9, PhaseMeans
      <3>2. Promise!Move({e}, "waiting")
        BY <1>3, <1>9, WorkflowPhases, WorkflowValues
      <3> QED
        BY <1>4, <1>6, <1>9, <3>1, <3>2 DEF Promise!Halt
    <2> QED
      BY <2>1 DEF EditionMapped
  <1>10. CASE w \in {"paused", "blocked"} /\ workflow[e] = "retry_wait"
    <2>1. EditionPhase[e] = "waiting" /\ PhaseOfWorkflow[w] = "waiting"
      BY <1>5, <1>10, WorkflowPhases, WorkflowValues
    <2>2. UNCHANGED EditionPhase
      BY <1>2, <2>1, PhaseAtEdition, NextPhase, PhasesStay
    <2> QED
      BY <1>4, <1>6, <1>10, <2>2 DEF EditionMapped
  <1>11. CASE w = "queued" /\ workflow[e] \in Resumable /\ Enabled(e)
    <2>1. Promise!Continue(e)
      BY <1>3, <1>4, <1>5, <1>6, <1>11, PhaseMeans, WorkflowPhases, WorkflowValues
      DEF Promise!Continue, Promise!Enabled, Enabled
    <2> QED
      BY <2>1 DEF EditionMapped
  <1>12. CASE w = "completed" /\ workflow[e] \in Working /\ Enabled(e)
    <2>1. EditionPhase[e] = "working" /\ PhaseOfWorkflow[w] = "delivered"
      BY <1>5, <1>12, PhaseMeans, WorkflowPhases, WorkflowValues
    <2>2. EditionReports' = [EditionReports EXCEPT ![e] = @ + 1]
      BY <1>2, <1>12, ReportedGrows DEF Working
    <2>3. Promise!Deliver(e)
      BY <1>3, <1>6, <1>12, <2>1, <2>2 DEF Promise!Deliver, Promise!Enabled, Enabled
    <2> QED
      BY <2>3 DEF EditionMapped
  <1> QED
    BY <1>7, <1>8, <1>9, <1>10, <1>11, <1>12 DEF Onward, Working

LEMMA RetriesMapped ==
  ASSUME EditionTypes, EditionTypes', RetriesBehindAttempts, Reported, Reported',
         NEW e \in Editions, Retries(e)
  PROVE  Promise!Retry(e)
  <1>1. \A f \in Editions : workflow'[f] = IF f = e THEN "queued" ELSE workflow[f]
    BY DEF Retries, EditionTypes
  <1>2. EditionPhase[e] = "waiting" /\ PhaseOfWorkflow["queued"] = "working"
    BY PhaseAtEdition, WorkflowPhases, WorkflowValues DEF Retries
  <1>3. Promise!Move({e}, "working")
    <2>1. \A f \in Editions : EditionPhase'[f] = IF f \in {e} THEN "working" ELSE EditionPhase[f]
      BY <1>1, <1>2, PhaseAtEdition, NextPhase
    <2> QED
      BY <2>1, PhasesMove
  <1>4. auto[e] < MaxRetries
    <2>1. auto[e] \in Nat /\ attempt[e] \in Nat /\ MaxRetries \in Nat
      BY EditionsAssumption DEF EditionTypes
    <2>2. auto[e] < attempt[e] /\ attempt[e] <= MaxRetries
      BY DEF Retries, RetriesBehindAttempts
    <2> QED
      BY <2>1, <2>2
  <1>5. UNCHANGED EditionReports
    BY <1>1, ReportedStays DEF Retries
  <1> QED
    BY <1>2, <1>3, <1>4, <1>5 DEF Retries, Promise!Retry, Promise!Enabled, Enabled

LEMMA StartsMapped ==
  ASSUME EditionTypes, EditionTypes', Reported, Reported', NEW e \in Editions, Starts(e)
  PROVE  EditionMapped
  <1>1. \A f \in Editions : workflow'[f] = IF f = e THEN "running" ELSE workflow[f]
    BY DEF Starts, EditionTypes
  <1>2. EditionPhase[e] = "working" /\ PhaseOfWorkflow["running"] = "working"
    BY PhaseAtEdition, WorkflowPhases, WorkflowValues DEF Starts
  <1>3. UNCHANGED EditionPhase
    BY <1>1, <1>2, PhaseAtEdition, NextPhase, PhasesStay
  <1>4. UNCHANGED EditionReports
    BY <1>1, ReportedStays DEF Starts
  <1> QED
    BY <1>3, <1>4 DEF Starts, EditionMapped

LEMMA SkipMapped ==
  ASSUME EditionTypes, EditionTypes', Reported, Reported', NEW e \in Editions, SkipCovered(e)
  PROVE  Promise!Cover(SubOf[e])
  <1> DEFINE S == {f \in Editions : f \in ActiveEditions(SubOf[e])
                                    \/ (f \in Earlier(e) \cup {e} /\ workflow[f] = "none")}
  <1>1. \A f \in Editions : workflow'[f] = IF f \in S THEN "skipped" ELSE workflow[f]
    BY DEF SkipCovered
  <1>2. \A f \in S : SubOf[f] = SubOf[e] /\ workflow[f] \in {"none", "pending"}
    BY DEF SkipCovered, ActiveEditions, Earlier, EditionsOf
  <1>3. Promise!Move(S, "skipped")
    <2>1. \A f \in Editions : EditionPhase'[f] = IF f \in S THEN "skipped" ELSE EditionPhase[f]
      BY <1>1, PhaseAtEdition, NextPhase, WorkflowPhases
    <2> HIDE DEF S
    <2> QED
      BY <2>1, PhasesMove
  <1>4. S \in SUBSET {f \in Promise!EditionsOf(SubOf[e]) : EditionPhase[f] \in Promise!Unstarted}
    BY <1>2, PhaseAtEdition, PhaseMeans DEF Promise!EditionsOf
  <1>5. \E f \in Promise!EditionsOf(SubOf[e]) : EditionPhase[f] = "delivered"
    BY PhaseAtEdition, PhaseMeans DEF SkipCovered, EditionsOf, Promise!EditionsOf
  <1>6. UNCHANGED EditionReports
    BY <1>1, <1>2, ReportedStays
  <1> HIDE DEF S
  <1> QED
    BY <1>3, <1>4, <1>5, <1>6 DEF SkipCovered, Enabled, OnlyEdition, Promise!Cover

LEMMA RecoversMapped ==
  ASSUME EditionTypes, EditionTypes', Reported, Reported', Recovers
  PROVE  Promise!Halt
  <1>1. PICK R \in SUBSET {e \in Editions : workflow[e] = "running"} :
          workflow' = [e \in Editions |-> IF e \in R THEN "paused" ELSE workflow[e]]
    BY DEF Recovers
  <1>2. R \in SUBSET {e \in Editions : EditionPhase[e] = "working"}
    BY PhaseAtEdition, PhaseMeans DEF Working
  <1>3. Promise!Move(R, "waiting")
    <2>1. \A e \in Editions : EditionPhase'[e] = IF e \in R THEN "waiting" ELSE EditionPhase[e]
      BY <1>1, PhaseAtEdition, NextPhase, WorkflowPhases
    <2> QED
      BY <2>1, PhasesMove
  <1>4. UNCHANGED EditionReports
    BY <1>1, ReportedStays
  <1> QED
    BY <1>2, <1>3, <1>4 DEF Recovers, Promise!Halt

\* An update of some editions of one subscription, none of which it delivers.
LEMMA ControlMoves ==
  ASSUME EditionTypes, EditionTypes', Reported, Reported', NEW S \in SUBSET Editions,
         NEW w \in Workflows \ {"completed"}, \A e \in S : workflow[e] # "completed",
         \A e \in Editions : workflow'[e] = IF e \in S THEN w ELSE workflow[e]
  PROVE  Promise!Move(S, PhaseOfWorkflow[w]) /\ UNCHANGED EditionReports
  <1>1. \A e \in Editions : EditionPhase'[e] = IF e \in S THEN PhaseOfWorkflow[w] ELSE EditionPhase[e]
    BY PhaseAtEdition, NextPhase
  <1> QED
    BY <1>1, PhasesMove, ReportedStays

LEMMA PhasesUnmoved ==
  ASSUME EditionTypes, NEW p, UNCHANGED workflow PROVE Promise!Move({}, p) /\ UNCHANGED EditionPhase
  BY DEF Promise!Move, EditionPhase

LEMMA DisableMapped ==
  ASSUME TypeOK, EditionTypes, EditionTypes', OneActive, JobMatchesEdition, Reported, Reported',
         NEW s \in Subs, Disable(s)
  PROVE  Promise!Pause(s)
  <1> DEFINE pausable == {e \in ActiveEditions(s) : HasJob(e) /\ workflow[e] \in Working \cup {"retry_wait"}}
             worked == {e \in Promise!EditionsOf(s) : EditionPhase[e] = "working"}
  <1>1. \A e \in worked : e \in pausable /\ workflow[e] \in Working
    BY WorkingHasJob, PhaseAtEdition, PhaseMeans, Disjoint
    DEF Promise!EditionsOf, ActiveEditions, EditionsOf, Working
  <1>2. \A e, f \in pausable : e = f
    BY DEF OneActive, IsActive, ActiveEditions, EditionsOf
  <1>3. Promise!Move(worked, "waiting") /\ UNCHANGED EditionReports
    <2>1. CASE pausable = {}
      <3>1. worked = {} /\ UNCHANGED workflow
        BY <1>1, <2>1 DEF Disable
      <3> QED
        BY <3>1, PhasesUnmoved, ReportedStays
    <2>2. CASE pausable # {}
      <3>1. PICK e \in pausable : Advance(e, "paused", "schedule")
        BY <2>2 DEF Disable
      <3>2. e \in Editions /\ workflow[e] \in Working \cup {"retry_wait"} /\ SubOf[e] = s
        BY DEF ActiveEditions, EditionsOf
      <3>3. \A f \in Editions : workflow'[f] = IF f \in {e} THEN "paused" ELSE workflow[f]
        BY <3>1, <3>2 DEF Advance, EditionTypes
      <3>4. Promise!Move({e}, "waiting") /\ UNCHANGED EditionReports
        BY <3>2, <3>3, ControlMoves, WorkflowValues, WorkflowPhases DEF Working
      <3>5. CASE workflow[e] \in Working
        <4>1. worked = {e}
          BY <1>1, <1>2, <3>2, <3>5, PhaseAtEdition, PhaseMeans DEF Promise!EditionsOf
        <4> QED
          BY <3>4, <4>1
      <3>6. CASE workflow[e] = "retry_wait"
        <4>1. worked = {}
          BY <1>1, <1>2, <3>6 DEF Working
        <4>2. \A f \in Editions : EditionPhase'[f] = EditionPhase[f]
          BY <3>3, <3>6, PhaseAtEdition, NextPhase, WorkflowPhases, WorkflowValues
        <4>3. Promise!Move({}, "waiting")
          BY <4>2, PhasesMove
        <4> QED
          BY <3>4, <4>1, <4>3
      <3> QED
        BY <3>2, <3>5, <3>6
    <2> QED
      BY <2>1, <2>2
  <1> QED
    BY <1>3 DEF Disable, NotArchived, SetActivation, Promise!Pause, Promise!Set

LEMMA EnableMapped ==
  ASSUME EditionTypes, EditionTypes', Reported, Reported', NEW s \in Subs, Enable(s)
  PROVE  Promise!Enable(s)
  <1> DEFINE waiting == {e \in ActiveEditions(s) : workflow[e] = "paused" /\ reason[e] = "schedule"}
  <1>1. /\ \E S \in SUBSET {e \in Promise!EditionsOf(s) : EditionPhase[e] = "waiting"} :
             Promise!Move(S, "working")
        /\ UNCHANGED EditionReports
    <2>1. CASE waiting = {}
      <3>1. UNCHANGED workflow
        BY <2>1 DEF Enable
      <3>2. Promise!Move({}, "working") /\ UNCHANGED EditionReports
        BY <3>1, PhasesUnmoved, ReportedStays
      <3> QED
        BY <3>2
    <2>2. CASE waiting # {}
      <3>1. PICK e \in waiting : Advance(e, "queued", "none")
        BY <2>2 DEF Enable
      <3>2. e \in Editions /\ workflow[e] = "paused" /\ SubOf[e] = s
        BY DEF ActiveEditions, EditionsOf
      <3>3. \A f \in Editions : workflow'[f] = IF f \in {e} THEN "queued" ELSE workflow[f]
        BY <3>1, <3>2 DEF Advance, EditionTypes
      <3>4. Promise!Move({e}, "working") /\ UNCHANGED EditionReports
        BY <3>2, <3>3, ControlMoves, WorkflowValues, WorkflowPhases
      <3>5. {e} \in SUBSET {f \in Promise!EditionsOf(s) : EditionPhase[f] = "waiting"}
        BY <3>2, PhaseAtEdition, WorkflowPhases, WorkflowValues DEF Promise!EditionsOf
      <3> QED
        BY <3>4, <3>5
    <2> QED
      BY <2>1, <2>2
  <1>2. activation[s] # "enabled" /\ activation[s] # "archived"
    BY DEF Enable
  <1> QED
    BY <1>1, <1>2 DEF Enable, SetActivation, Promise!Enable, Promise!Set

LEMMA EditMapped ==
  ASSUME EditionTypes, Reported, Reported', NEW s \in Subs, EditActivation(s)
  PROVE  Promise!Edit(s) \/ Promise!Enable(s)
  <1>1. /\ UNCHANGED <<auto, EditionReports, EditionPhase>> /\ Promise!Move({}, "working")
        /\ activation[s] # "archived"
    BY PhasesUnmoved, ReportedStays DEF EditActivation, editionVars, NotArchived
  <1>2. CASE activation[s] = "enabled"
    BY <1>1, <1>2 DEF EditActivation, SetActivation, Promise!Edit, Promise!Set
  <1>3. CASE activation[s] # "enabled"
    <2>1. {} \in SUBSET {e \in Promise!EditionsOf(s) : EditionPhase[e] = "waiting"}
      OBVIOUS
    <2> QED
      BY <1>1, <1>3, <2>1 DEF EditActivation, SetActivation, Promise!Enable, Promise!Set
  <1> QED
    BY <1>2, <1>3

LEMMA ArchiveMapped ==
  ASSUME EditionTypes, EditionTypes', Reported, Reported', NEW s \in Subs, Archive(s)
  PROVE  Promise!Delete(s)
  <1> DEFINE S == {e \in Promise!EditionsOf(s) : EditionPhase[e] \in Promise!UnderWay}
  <1>1. S = ActiveEditions(s)
    BY PhaseAtEdition, PhaseMeans DEF Promise!EditionsOf, ActiveEditions, EditionsOf
  <1>2. \A e \in Editions : workflow'[e] = IF e \in S THEN "cancelled" ELSE workflow[e]
    BY <1>1 DEF Archive, ToCancel
  <1>3. \A e \in S : workflow[e] # "completed"
    BY <1>1, Disjoint DEF ActiveEditions, Closed
  <1>4. Promise!Move(S, "cancelled") /\ UNCHANGED EditionReports
    <2>1. S \in SUBSET Editions
      BY DEF Promise!EditionsOf
    <2>2. "cancelled" \in Workflows \ {"completed"} /\ PhaseOfWorkflow["cancelled"] = "cancelled"
      BY WorkflowValues, WorkflowPhases
    <2> HIDE DEF S
    <2> QED
      BY <1>2, <1>3, <2>1, <2>2, ControlMoves
  <1> QED
    BY <1>4 DEF Archive, NotArchived, SetActivation, Promise!Delete, Promise!Set

LEMMA EditionStepMapped ==
  ASSUME SubInv, SubInv', Reported, Reported', EditionStep PROVE EditionMapped
  <1>1. /\ TypeOK /\ EditionTypes /\ EditionTypes' /\ OneActive /\ JobMatchesEdition
        /\ RetriesBehindAttempts
    BY DEF SubInv, Inv
  <1> USE DEF Promise!Next
  <1>2. ASSUME NEW e \in Editions, Reserves(e) PROVE EditionMapped
    BY <1>1, <1>2, ReservesMapped DEF EditionMapped
  <1>3. ASSUME NEW e \in Editions, Advances(e) \/ Starts(e) PROVE EditionMapped
    BY <1>1, <1>3, AdvancesMapped, StartsMapped
  <1>4. ASSUME NEW e \in Editions, Retries(e) PROVE EditionMapped
    BY <1>1, <1>4, RetriesMapped DEF EditionMapped
  <1>5. ASSUME NEW e \in Editions, SkipCovered(e) PROVE EditionMapped
    <2>1. SubOf[e] \in Subs
      BY DEF Subs
    <2> QED
      BY <1>1, <1>5, <2>1, SkipMapped DEF EditionMapped
  <1>6. ASSUME NEW s \in Subs, ScheduleControls(s) PROVE EditionMapped
    <2>1. Promise!Pause(s) \/ Promise!Enable(s) \/ Promise!Edit(s) \/ Promise!Delete(s)
      BY <1>1, <1>6, DisableMapped, EnableMapped, EditMapped, ArchiveMapped DEF ScheduleControls
    <2> QED
      BY <2>1 DEF EditionMapped
  <1>7. CASE Recovers
    BY <1>1, <1>7, RecoversMapped DEF EditionMapped
  <1>8. CASE UNCHANGED <<workflow, attempt, auto, activation>>
    BY <1>1, <1>8, PhasesUnmoved, ReportedStays DEF EditionMapped
  <1> QED
    BY <1>2, <1>3, <1>4, <1>5, <1>6, <1>7, <1>8 DEF EditionStep

LEMMA EditionInitMapped == ASSUME SubInit, SubInv, Reported PROVE Promise!Init
  <1>1. EditionPhase = [e \in Editions |-> "none"]
    <2>1. \A e \in Editions : EditionPhase[e] = "none"
      BY WorkflowPhases, WorkflowValues DEF SubInit, EditionPhase
    <2> QED
      BY <2>1 DEF EditionPhase
  <1>2. EditionReports = [e \in Editions |-> 0]
    BY DEF SubInit, Reported
  <1> QED
    BY <1>1, <1>2 DEF SubInit, Promise!Init

\* Editions with all their jobs, candidates, attempts, retries, probes and controls do
\* only what EditionService promises: one at a time, started and delivered only while
\* the subscription is enabled, one report for each that is delivered, no end undone.
THEOREM EditionsCorrect == SubSpec => ImplementsEditions
  <1>1. SubInit /\ SubInv /\ Reported => Promise!Init
    BY EditionInitMapped
  <1>2. SubInv /\ EditionJobsKept => Reported
    BY ReportedWithInv
  <1>3. SubInv /\ SubInv' /\ Reported /\ Reported' /\ [SubNext]_allVars => [Promise!Next]_Promise!vars
    BY StepsEditions, EditionStepMapped DEF EditionMapped, Promise!vars
  <1>4. SubSpec => []SubInv
    BY SubInvCorrect
  <1>5. SubSpec => []EditionJobsKept
    BY SubscriptionsUseQueue, EditionJobsCorrect
  <1> QED
    BY <1>1, <1>2, <1>3, <1>4, <1>5, PTL DEF SubSpec, ImplementsEditions, Promise!Spec
=============================================================================
