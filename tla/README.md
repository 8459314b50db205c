# AllSeeingEye in TLA+

AllSeeingEye collects open-source feeds and writes research reports with calls to
language models. A report is minutes of paid work, so the backend runs it as a
*durable job*: a row in `report_jobs`, leased by one in-process worker, stoppable
and resumable by its owner, restarted after a crash, retried when it belongs to a
subscription, and charged call by call against a job budget and against the
allowance policies of administrators. Beside it run the live map, which polls feeds and streams
their changes to browsers, the sessions of those browsers, and the outboxes that
carry mail and notifications out. This directory models these parts, checks them
with TLC and proves their main safety properties with TLAPS. All source paths below
are relative to `src/backend/src/ase/` unless they start with `src/`.

Contents: [inventory](#1-the-system), [modules](#2-the-modules),
[runs](#3-what-the-runs-check), [fairness](#4-fairness),
[proofs](#5-what-is-proved), [disagreements with the documentation](#6-where-code-and-documentation-disagree),
[what is left out](#7-what-is-not-modelled), [plan](#8-plan),
[how to run it](#9-running-it).

## 1. The system

One API process is the supported deployment: an asyncio event loop that serves
HTTP requests, polls feeds, runs the report-job worker and the subscription loops,
over one database. Concurrency therefore means interleaved coroutines of one
process (every `await` is a possible switch), short database transactions, and the
process dying between two of them. Three locks matter:

- `source_admission.guard()`, an asyncio lock of the process, held by admission,
  owner controls, checkpoints, lease renewal, completion, budget writes, the
  automatic retries and the schedule controls. Discard, the edit of a schedule, the
  tick's recovery, the claim and the retry's pause do not take it;
- the administration lock of the database, taken by admissions, owner controls and
  `resume_due`;
- the compare-and-set of every job update on `(revision, status, lease_token)`:
  an update whose row has changed since it was read changes nothing.

The parts, the state each keeps, its operations, and what makes it correct
(`PROJECT.json` lists all 23 components and the 40 hazards with their lines):

| Part | State | Operations | Correct when |
|---|---|---|---|
| Report-job queue (`application/report_jobs`, `adapters/persistence/report_job*.py`) | row: status, lease token and deadline, error, revision; report versions | create (prepare, admit), pause, resume, discard, claim, renew, checkpoint, complete, fail, recover | one job per request, one running job per owner, a lease exactly while running, at most one report, limits kept |
| Report-job worker (`container/report_job_worker.py`) | `_running`: the task of each job | tick (reap, recover, resume due, list, claim), process, cancel, start, stop | a pause finds the task; never more than two tasks; no queued job starves |
| Provider-call budget (`application/report_jobs/budget.py`, `controls.py`) | the ledger of calls in the job's payload | reserve, check, send, settle, release; resume, retry, discard | calls and output tokens stay within the job's allowance over all attempts, whatever is lost |
| Subscription editions (`application/schedules`, `container/subscription_*`) | edition workflow and reason, attempts, activation of the subscription | due, run-now, catch-up, admission, wait, retry, probe, pause, resume, edit, archive, publish | edition and job agree; one active edition; a paused subscription starts nothing; retries are bounded |
| AI allowance ledger (`application/ai_usage.py`, `adapters/persistence/ai_usage_*.py`) | policies, counters per period, reservations, totals | reserve, mark dispatched, settle, release, hold as unknown, reconcile, resolve, prune | counters are the sums of their reservations; nothing sent is free; allowance is not held for ever |
| Live store and feed polls (`adapters/store/memory.py`, `application/feeds`) | observations, changes and removals not announced yet | upsert, regrade, translate, evict, prune, announce | every change is announced, or the browsers are told to reload |
| Live bus and streams (`adapters/bus`, `api/stream_session.py`) | sequence, replay window, the queue and cursor of each stream | publish, subscribe, replay, overflow, send, checkpoint | a stream is lossless or told to take a snapshot; an accepted position is one from which the replay suffices |
| The browser's mirror (`src/frontend/src/stores/events.*.ts`) | mirror, batch, snapshot request, journal, hints | receive, flush, load, refresh, retry, hide | at rest it shows the store |
| Sessions (`application/auth`, `adapters/persistence/token*.py`, `src/frontend/src/stores/auth.ts`) | token rows, families, activity, the cookie | login, second factor, rotate, reuse detection, idle deadline, logout, revoke | one refreshable token per family; nothing revoked comes back; an honest browser is not taken for a thief |
| Delivery outboxes (mail, digest, alerts, web push) | leased rows, attempts, the recipient's choices | admit, claim, prepare, send, finish, recover, opt out, prune | a message is accepted at most once; a row says what happened; nothing is sent for a recipient who left |
| Source-phase ledger, research tiers, report generation, retention, workspaces, adapters, HTTP API | | | see section 7 |

How they interact. A submission (HTTP) is *prepared* outside every lock, which may
take seconds, and then *admitted* under the locks. The worker's tick lists queued
rows in one session and claims each in a later one; after the claim has committed
the task is created and entered in `_running`. The task checkpoints through leased
updates and makes provider calls, each reserved in the job's ledger (`ReportCalls`)
and in the allowance ledger (`AiUsage`) before it is sent and settled in both
afterwards. A subscription edition is carried by a job of the same queue: claim,
stop, publication and recovery move job and edition in one transaction, and two
background loops put stopped editions back into the queue. Owner and schedule
controls move the rows and then ask the worker to cancel a task. A feed poll writes
the store and then publishes on the bus, which pushes the message into the queue of
every stream session and into the replay window; the session sends frames, the
browser batches them, and asks the API for a snapshot when it may have missed some.
The outboxes are filled by the transactions that make an event and drained by a
dispatcher that sends outside every lock.

What is hard about it: state read before an `await` and used after it (admission,
listing, probe lists, `cancel`); a task that outlives its lease, its pause or its
row; saves whose outcome is unknown; five writers of the pair job/edition; counters
that must survive lost writes, retention and changes of policy; snapshots that were
read before the deltas that overtake them; positions offered to another window or
another process; answers and threads that arrive after everyone stopped waiting; and
restarts between any two steps.

## 2. The modules

| Module | Models | Extends |
|---|---|---|
| `ReportJobs` | the rows, the worker and the owner's controls | |
| `ReportService` | what the queue promises about a request: the abstract specification | |
| `ReportJobsService` | the refinement mapping from rows to requests | `ReportJobs` |
| `Subscriptions` | editions, attempts, retries and schedule controls, composed with the queue | `ReportJobs` |
| `EditionService` | what a subscription promises about its editions: an abstract specification | |
| `SubscriptionsService` | the refinement mapping from workflows and jobs to phases and reports of editions | `Subscriptions` |
| `ReportCalls` | the provider-call ledger of one job, and the task that uses it | |
| `AiUsage` | allowance policies, counters and reservations | |
| `LiveStream` | store and feed polls, bus, one stream session and its browser tab | |
| `Sessions` | token families, the requests that move them, and one browser's tabs | |
| `Deliveries` | the protocol of the four outboxes and their dispatchers | |
| `ReportJobsProofs`, `SubscriptionsProofs` | theorems, those about the refinements included | `ReportJobsService`, `SubscriptionsService` |
| `ReportCallsProofs`, `AiUsageProofs`, `LiveStreamProofs`, `SessionsProofs`, `DeliveriesProofs` | theorems | the module named; the first two also `Sums` |
| `Sums` | lemmas about the community modules' sum over a finite set | |
| `MCReportJobs`, `MCSubscriptions`, `MCReportCalls`, `MCAiUsage`, `MCLiveStream`, `MCSessions`, `MCDeliveries` | constants of the runs | the module named |

A definition whose comment starts with "Faulty:" is a plausible mistake in the
definition of the same idea next to it. No specification uses one; the runs put it
in the right one's place to make sure that the property would notice.

### ReportJobs

A job is a number, the rank of its `created_at`. `status`, `token`, `error` and
`published` are columns; `live` says that `lease_until` is in the future, so a
renewal needs no action and `LeaseExpires` may end it at any moment. A fresh
`uuid4` is any token no task still holds. A *task* is one run of
`ReportJobWorker.process`, named by job and token: `pc` says where it is (*claimed*
is the moment between the claim's commit and the creation of the task; *working*
is inside `execute_job`; *ending* is the code of `process` after it) and `slot` is
`_running`. `prepared` holds the submissions between their first lookup and their
admission; `listed` the ids the present tick has still to visit.

Each row update is one action guarded by the predicates of its compare-and-set.
`Pause` includes the cancellation of the task, because it happens inside the guard
every requeue needs; `RecoverExpired` recovers the whole page of expired leases as
the one statement does. A task's failure, its outcome being saved, and that save
failing are separate actions, so lease expiry, pauses, recovery and crashes come
between them. `Crash` keeps only the rows; `Stop` cancels tasks and lets them end.
A pause between a claim and its task finds nothing to cancel and the task starts
without a lease: `Claim` and `StartTask` are separate for that reason.

### ReportService and ReportJobsService

`ReportService` knows requests, not rows: a request is submitted, begun, halted,
continued, delivered or forgotten, an owner has one running request, and every
delivery adds one report. The mapping `Phase` reads the row a request has (there is
at most one) and `Reports` counts the versions ever inserted for its jobs.

### Subscriptions

Every action is an action of `ReportJobs`, or a stutter of it, conjoined with what
the same transaction does to the edition, its attempt and the subscription, so the
queue's guards are never weakened. Several candidate jobs may be prepared for one
edition (due tick, run-now, catch-up). `spent` abstracts "the job's calls or tokens
are used up", which `ReportCalls` models. The refusal of a disabled source, a web
setting or a changed model is folded into the choice of outcomes of a failed run
and into refused (absent) steps.

### EditionService and SubscriptionsService

`EditionService` knows neither jobs nor attempts. An edition is *planned*, *working*,
*waiting* (stopped, or refused a place), or at an end; a subscription has one of the
first three kinds at a time; only while it is enabled does an edition take its turn, go
on or deliver; a delivery adds one report; retries are counted against a limit; a
deletion is for ever. The mapping reads the phase off the workflow (`EditionPhase`), and
counts as an edition's reports all versions ever inserted for any job that was ever a
candidate for it (`EditionReports`), so an edition that ends as completed without a
version, or with two, is not a step of the abstract specification. Retries are the
history variable `auto`.

### ReportCalls

One job's ledger. A task makes one call at a time (report generation has no
`gather` or task group), so `cur` is the call it is busy with. The callers of optional
steps put a time limit of their own on a call and swallow its error:
`application/reports/plan_queries.py:178-213` every error,
`application/research/query_translation.py:131-138`,
`application/reports/replan_queries.py:216-249`, `challenge_models.py:218-234` and
`fresh_web_research.py:106-147` a time-out or a provider's error. The model does not say
which step makes which call: whatever became of one, its task is back at its caller
(`BackToCaller`), goes on to another call or fails, and rows in flight, uncertain or
released may gather within one run. Reservation, second
check, dispatch, answer and settlement are separate steps; a save may be lost, or
land without its caller learning of it, and the compare-and-set on the revision
orders a late save before the next write of that row. `sent` and `cost` are history
variables: what reached the provider and what it may bill. A request may be sent
for a job that was paused after the last check, because nothing is looked at any
more; `Send` allows that.

### AiUsage

One action per short transaction, over all calls and policies. `Reserve` admits a
call under every effective policy or under none. The mark, the settlement and their
loss, `reconcile`, `_resolve_unknown` and both prunings are separate. Batches are
taken one row at a time, which only adds interleavings. The clock is a few calendar
days (`DateChanges`) plus the age class of a held reservation. Input and output
tokens are one number, a policy without a limit has a large one, and an override is
an edit of the limits.

### LiveStream

The store maps an observation to a version, 0 when it is not there. `changed` and
`gone` are what polls have written and what eviction and retention have removed
without having announced it; `overflow` is `_pending_overflow`. A message carries its
sequence number, so the window, the queue and the replay are sets, read from the
lowest number on. A hint is a `resync` with the reason `snapshot_required`, which
names partitions; a gap is any other `resync`. The session has one action per await
at which something else may run: `Connect` (subscribe, last sequence and replay are
read without one), `Hello`, `Take`, one `Send` for each kind of frame, and
`Checkpoint`. A frame reaches the tab in the step that sends it or is lost with the
connection. The tab's actions are its timers, its request and its response;
`ReadStore` is the moment the server reads the store for it. One tab is enough, since
streams share only what they read. `Trim` stands for the bounds of the window by age
and bytes, which can cut it at any moment. `lost` is a history variable: ids whose
latest change the tab gave up (a failed load, a batch cleared when access changed), or
that an idle expiry before hello made it pass over (`PassedOver`, section 6), until
something brings them again. `IdleExpires` is that expiry: the two frames it sends carry
the session's first position, and the browser keeps it.

### Sessions

What happens under the account's row lock is committed whole, so a request with one
reading of the clock is one step, unless validation, which takes no lock, may refuse the
session before the commit. A heartbeat is therefore two: it is let in and touches the
row (`Heartbeat`), and commits later without looking at the deadline again
(`CommitHeartbeat`); stage *touched* holds the lock (`Holding`) as *claimed* does. A
refresh is three: it reads the token before the
lock (`SendRefresh`), claims it under the lock with a second reading (`Claim`), and
commits (`Rotate`) or rolls back. Answers are delivered or lost on their own, and a
tab may stop listening at any time; `lost` remembers families one of whose answers the
browser missed. The Web Lock of the tabs is `WebLockFree`. A second-factor challenge
carries the security version it was issued under.

### Deliveries

One module for the four tables, because the protocol is one and the differences are
small and matter: `EditionWanted`, `AlertResult`, `Reports` and their siblings say
them side by side. A dispatcher's tick is `Begin` (recovery of interrupted rows),
`Claim`, `Check`, `Release` or `Refuse` under the administration lock, `Answer` of the
transport, `Finish` behind the lease. `orphans` are attempts nobody waits for, which
may still land. The refusal of a push service proves nothing, since every status but
success, 404 and 410 is called one, those of gateways included: `PushReports` lets a
refused message be accepted. `fenced` is a history variable: rows that existed when their recipient
opted out or removed the device.

## 3. What the runs check

`PROJECT.json` gives each run's configuration and one mutant per property: the
faulty definition that makes TLC report the property. All "pass" runs explore their
state space completely.

| Run | Instance | Checks |
|---|---|---|
| `report_jobs` | 3 jobs of one owner, a request sent twice, one edition, 2 tokens, 2 tasks | `TypeOK`, `OneRunningPerOwner`, `EveryTaskHasSlot`, `OneReportPerRequest`, `LifeCycle` |
| `report_jobs_live` | 3 jobs of 2 owners, 1 token, 1 task, room for two open jobs, with fairness | `OpenWithinLimit`, `QueueMoves`, `ImplementsService` |
| `report_jobs_active_limit` | 3 jobs of one owner, one of them an edition's | `ActiveWithinLimit` is violated |
| `subscriptions` | a manual and a scheduled edition of one subscription and an ordinary job, one active and one open place, 2 tokens, 1 retry | `SubTypeOK`, `EditionFollowsJob`, `OneActiveEdition`, `PausedIsQuiet`, `ImplementsEditions` |
| `subscriptions_stuck`, `subscriptions_resume` | an edition and an ordinary job, one active place, 2 retries | `PausedJobsCanLeave`, `ScheduleCanResume` are violated |
| `report_calls` | 4 calls, 2 requests of 2 and 4 tokens, limits 3 calls and 8 tokens | `CallsTypeOK`, `WithinBudget`, `CostIsCharged`, `ExhaustedNotRepeated`, `RoomWhenQueued`, `EndIsFinal` |
| `live_stream` | 1 observation of 2 versions, queue 1, window 2, no room in the expiry list, 2 messages and 2 after a restart | `StreamTypeOK`, `StreamCovers`, `PositionKept`, `MirrorCurrent` |
| `live_stream_partitions` | 2 observations in 2 partitions, queue 1, window 1, expiry list 1, 1 retry, 2 messages, with fairness | `Catches` |
| `ai_usage` | 2 calls, a site policy whose limit and cadence change, a team policy, with fairness | `UsageTypeOK`, `RequestsMatch`, `TokensCovered`, `CountedOnce`, `WithinPolicy`, `AllowanceReturns` |
| `sessions` | 2 tabs, 2 logins, 3 tokens, idle and token lifetimes of 2, one credential change | `SessionsTypeOK`, `OneLiveToken`, `LiveIsProven`, `HonestRefresh`, `NoRevival` |
| `deliveries` | 2 rows of each outbox, one of the alerts a webhook, 2 dispatchers, 3 attempts | `DeliveriesTypeOK`, `AcceptedOnce`, `OutcomeIsTrue`, `NothingStranded`, `NoLateSend` |

Bounds, and why they are enough:

- *Jobs and owners.* Each rule about the queue relates at most two jobs of one
  owner; a third job, of the same or another owner, is the one that competes with
  both. A job number is prepared once: the run ends when all are used, and a discarded
  job's request may come again under a later number.
- *Tokens.* Two, so that a task with an old lease lives beside the row's new lease.
  The next claim waits when every token of that job is held by a task; with one
  token the instance still lets a job be claimed again once its task is gone. The
  proofs do not depend on the number. In `subscriptions` the tokens are symmetric: they
  are random, and nothing orders them; and `PreparedApart` leaves out the states in
  which the ordinary job is being prepared next to a candidate of an edition, which
  `report_jobs` has among jobs (two candidates of editions may wait together).
- *Limits* are the smallest values at which being at the limit, one below and one
  above differ. The code's values (2 active, 20 and 100 open, 2 tasks, 24 calls,
  256,000 tokens, three retries) enter nowhere else.
- *Calls.* Four with a limit of three, since a released call leaves the ledger and
  must not use it up. Reported counts of 1 and 4 lie below, at and above what is
  left; a count never exceeds the request's reservation (the provider honours the
  limit it is sent), which is the assumption behind `OutputWithinLimit`.
- *Days* 0 and 4 with retentions of 2 put the first period of either cadence beyond
  retention; the cadences 1 and 2 let a policy change its window while calls of the
  old one are open.
- *The live map.* The rules of window, queue and mirror are per observation, so one
  suffices for the safety run; two versions tell an old delta from a new one, and an
  observation that left and came back. Two messages overflow a queue of one
  and lie on both sides of a gap and of a resumed position; `Trim` cuts the window at
  any moment; the expiry list of 0 makes every removal overflow. `MaxLater` gives the
  process after a restart two messages as well, so an old position lies below, at or
  above the new numbers. The proofs bound none of these. The second run
  has two partitions, so a hint may ask for one and a retry may merge both, an expiry
  list with room for one id, and both ways a refresh fails. `RoomFor` reserves the
  messages already owed, so no bound keeps a change from being announced.
- *Sessions.* Two tabs are needed to race for the cookie, two logins to replace one
  session by another in it, three tokens for two rotations of one family or one of
  each; two minutes cross the idle deadline and the expiry of a token. The tabs are
  symmetric: no definition tells them apart.
- *Deliveries.* Two rows, so that one is cancelled while the other is under way; two
  dispatchers, so that one recovers what the other holds; three attempts as in the
  code, so that the last one differs from the others.
- `CHECK_DEADLOCK FALSE` only in `ReportCalls` and `AiUsage`, where a discarded job
  and finished calls leave nothing to do. The other systems never stop.

What the properties mean is written above each of them in the modules. The ones a
test would hardly reach: `EveryTaskHasSlot` (a task of an old lease, a pause in the
gap after a claim, a restart), `ImplementsService` (the whole queue against the
request-level promise), `ImplementsEditions` (the composition of queue, attempts, loops
and controls against what the owner is told about editions), `EditionFollowsJob` (five writers of the pair), `CostIsCharged`
with `EndIsFinal` (lost and late settlements), `WithinPolicy` (a change of cadence
against retention), `TokensCovered` (a settlement is never refused as inconsistent, so
a stale row never blocks the batch it is in), `PositionKept` (whenever the connection
breaks, the position the browser would send is one from which the replay is all it
needs, except for what an idle expiry before hello passes over), `HonestRefresh` (lost
answers) and `NoRevival` (deadlines that pass before a commit: only a refresh or
heartbeat let in before can take a refusal back), `OutcomeIsTrue` (an opt-out, a recovery and a late answer about
one row).

## 4. Fairness

Safety runs assume none. Three runs have liveness properties.

*`report_jobs_live`.* The worker's loop has no exit and swallows a failed tick, and
every tick begins with `Reap` and `RecoverExpired`, reads the queue and visits what
it read: `ReadQueue` and the visiting of listed jobs are weakly fair. A tick can
fail on a database error in any place, so for `Reap`, `RecoverExpired` and each
job's `Claim` strong fairness is assumed: errors do not end *every* tick before it.
Tasks are weakly fair: `execute_job` has a deadline of 1800 seconds and the code
after it is a few short transactions. A lease is owed its expiry only while no task
of the job is alive (`Orphan`), since a live one may renew it. Owners, providers and
the edition's workflow are owed nothing. `QueueMoves` has two halves. `LeftRunning`
confines both to behaviours in which the worker is finally left up; `QueueServed` also
excludes endless requeueing by owners or retries, which can occupy the places for ever.

*`ai_usage`.* A call's own steps each have a deadline, time passes, and
reconciliation runs, which in the code happens at an admission at least 60 seconds
after the last: `AllowanceReturns` holds as long as calls keep being made. The age
of an hour cannot pass in the few seconds in which a mark is written or given up,
and a day cannot pass while a call runs, as `domain/ai_usage.py` states beside
`STALE_RESERVATION_AGE` and `UNKNOWN_RESOLUTION_AGE`.

*`live_stream_partitions`.* A poll that has written goes on to announce (or to the
hint of its `finally`), the prune task runs every minute, the browser reconnects for
as long as the page is open, the session's loop takes and sends, and the tab's timers
and its request end: `Announce`, `PruneOwed`, `Connect`, `Hello`, `Take`, `Send`,
`Flush`, `Refresh`, `ReadStore` and `ApplySnapshot` are weakly fair. `Catches` speaks of
behaviours in which connections, processes and requests finally stop failing, the tab
stays visible, and neither access nor the user's reloads interrupt it: any of these may
otherwise come again for ever. Polls, prunes and trims are not restricted, except that
the bound on messages ends them.

`deliveries` and `sessions` have no liveness property. An uncertain delivery is meant to
stay so; `NothingStranded` states as safety what a waiting row needs to be taken again,
an attempt that is left. It says nothing of a row left sending by a crash; that recovery
finds such a row is not shown as progress.

## 5. What is proved

TLAPS checks every theorem for all values of the constants that satisfy the named
assumptions. These say only that sets are finite, numbers are numbers and
`MaxActive` and `Concurrency` are positive; in `Subscriptions` also that the jobs with
an edition's request key are that edition's and have one owner; in `AiUsage` that a counter is
retained at least as long as the longest cadence (400 days against a month); in
`LiveStream` that the queue has room for one message and no partition is the mark for
all; in `Deliveries` that nobody is not a worker.

**ReportJobs** (`ReportJobsProofs`). The inductive invariant is

    Inv == TypeOK /\ PreparedIsNew
           /\ LeaseIffRunning /\ OneRunningPerOwner /\ OneJobPerRequest
           /\ PublishedOnce /\ OpenWithinLimit
           /\ TasksInSlots /\ ClaimsHaveRoom /\ SlotsWithinLimit

Three parts are strengthenings. `PreparedIsNew` (a candidate has no row) is needed
because an admission would otherwise requeue a finished row and break
`PublishedOnce`. `ClaimsHaveRoom` (at most one committed claim waits for its task,
and its job has no place in `_running`) is what keeps `StartTask` from overwriting
another task. `SlotsWithinLimit` counts the places, with one kept for that claim;
`EveryTaskHasSlot` follows because tasks inject into places. The proof reduces a
step to what it does to the rows (`RowStep`, lemma `StepsRows`), shows each part of
the row invariant from that, and treats the tasks in `TasksStep` and `SlotsStep`.
Theorems: `TypeCorrect`, `LeaseCorrect`, `OneRunningCorrect`, `OneReportCorrect`,
`OpenCorrect`, `TasksCorrect`, `LifeCorrect` (the action property `LifeCycle`), and
`OrdinaryCorrect`: the active jobs of an owner that belong to no edition stay within the
active limit, whatever automatic retries do (only those requeue without asking for
capacity). `ActiveCorrect` is its corollary for a queue without editions, where the
limit holds for all jobs; the hypothesis is necessary (section 6).

**The service** (`ReportJobsProofs`). `ServiceCorrect` proves
`Spec => ImplementsService`. `PhaseMoves` shows that a step of one row moves the
phase of its request and of no other, because a request has one row
(`OneJobPerRequest`); the counted limits carry over because the requests of an owner
inject into his rows (`RequestsHaveRows`); a row's life cycle (`LifeCycle`) leaves
only `Halt`, `Continue`, `Forget` or a stutter for every update that parks a row;
admission, claim, publication and the recovery of all expired leases are one lemma
each.

**Subscriptions** (`SubscriptionsProofs`). `SubscriptionsUseQueue` proves
`SubSpec => Spec`: every step is a step of the queue or leaves the jobs alone, so all
theorems above hold with editions at work; `EditionsServed` says so of the service. The
invariant on top of it is

    SubInv == Inv /\ EditionTypes /\ AttemptTypes
              /\ RetriesBehindAttempts /\ OneActive /\ ArchivedIsOver
              /\ JobMatchesEdition /\ PausedIsQuiet /\ LeaseKept

`RetriesBehindAttempts` strengthens `RetriesBounded`: a running or waiting edition
has had fewer automatic retries than attempts, and only one within `MaxRetries` may
wait. `OneActive` is `OneActiveEdition` without the cardinality; the schedule
controls stop one job and move one edition, and these belong together only because
there is one (`StoppedEdition`). `JobMatchesEdition` in turn is what shows
`PausedIsQuiet` through a pause: a working edition has a job to stop. `LeaseKept` is
`AttemptIsLease` for the job that `JobMatchesEdition` provides. `EditionStep` (lemma
`StepsEditions`) says what a step may do to workflows, attempts and retries, and the
parts that do not speak of jobs are shown from it. Theorems: `SubTypeCorrect`,
`FollowsCorrect` (`EditionFollowsJob`), `OneActiveCorrect`, `QuietCorrect`,
`RetriesCorrect` (for every `MaxRetries`) and `ClosedCorrect`, which `ImplementsEditions`
also implies.

`OverflowCorrect` says how far the code exceeds the active limit (section 6): an owner
never has more active jobs than the limit and one for each subscription. Ordinary jobs
stay within the limit (`OrdinaryCorrect`, through `SubscriptionsUseQueue`), and active
jobs of editions inject into subscriptions: two for one subscription would be two active
editions (`JobMatchesEdition`, `OneActive`) or two jobs of one (`OneJobPerRequest`).

`StuckCorrect` and `ResumeCorrect` say how far the two other disagreements of section 6
reach. A paused job that can neither resume nor be discarded is an edition's whose error
is final, whose allowance is spent or whose subscription is deleted (`StuckHasCause`);
what the schedule control paused is refused by a resume only when its allowance is spent
(`RefusedWhenSpent`). They need two more invariants, proved on top of `SubInv`:
`CancelledIsDeleted`, that only a deletion cancels an edition, and `HeldErrors`, that the
job of an edition waiting for its retry has a transient error and that of an edition
paused by the schedule no final one, because a pause clears the error and nothing writes
one while the job stays paused.

`EditionsCorrect` proves `SubSpec => ImplementsEditions`. Its core is `Reported`: the
counted versions of an edition are one exactly when its workflow is completed. That
needs `JobMatchesEdition` (a completed edition has a job, which has ended, so it has
published), `OneJobPerRequest` (no other candidate has a row that ended) and
`EditionJobsKept` from the queue (the row of an edition's job is never discarded;
otherwise a candidate that published could be forgotten and another admitted). Each kind
of `EditionStep` is then mapped by a lemma of its own: a reservation to `Plan`
(`ReserveEffect` finds the editions it skips, `OneActive` that nothing else is under
way), an automatic retry to `Retry` (its bound is `RetriesBehindAttempts`), the pause of
the schedule to `Pause`, where `WorkingHasJob` is needed again: a working edition that
the control overlooked would go on. The recovery of all expired leases is one `Halt`;
starting an attempt, and what happens only to the queue, are stutters. The run has one
candidate for an edition; the theorem has any number.

**ReportCalls** (`ReportCallsProofs`). `CostCorrect` is the central result: the
ledger charges every sent call at least what the provider may bill, whatever saves
were lost and wherever the task went on after an interrupted call, and a job is discarded
only when its cost is known. `CallLimitCorrect`, `EndCorrect` and `NoRepeatCorrect` follow
from the same invariant, `CallsInv`, which ties `pc`, `cur` and `final` to the row of the
current call and leaves the rows of earlier ones free. `NoRepeatCorrect` speaks of an
exhaustion that the ledger *records*: after a lost settlement the request may be sent
again. `BudgetCorrect` adds the tokens:
`Charged` (what the ledger charges is within the allowance) is inductive together with
`Reported` (a task never settles a call with more than it reserved), because only a
reservation adds a row, and it fits, while a settlement, a release and the dropping of
released rows lower charges (`UsedLowered`); what may be billed for the calls sent is
part of what is charged (`BilledIsCharged`). `RoomCorrect` needs an invariant of its own:
a job in the queue, or waiting for its automatic retry, holds no released row
(`RoomInv`). Said of queued jobs alone it would not be inductive, since an automatic
retry requeues without dropping anything.

**AiUsage** (`AiUsageProofs`). `UsageInv` joins the types, the counters' rows, the
state of each call, what is known of sent calls, what was observed, that a released
call is charged nothing (`ReleasedIsFree`), and `RequestsMatch`. Theorems:
`UsageTypeCorrect`, `RequestsCorrect`, `CountedCorrect`, `PolicyCorrect`, and
`TokensCorrect` (`TokensCovered`): the token counters of a window are the sums of what
its calls reserved and used (`TokensMatch`), so a settlement, release or expiry always
finds the tokens it gives back (`HeldHasRoom`). `TokensMatch` is inductive only with
`TokensGone`, that windows without a counter hold no tokens: a new window starts from
them.

**Sums** (`Sums`). The token totals of `ReportCalls` and `AiUsage` are folds over sets of
calls, and the fold chooses the order. That any element may be taken out as a summand
(`SumTake`, `SumAdd`), that a sum is a number (`SumNat`), grows with its summands
(`SumMonotone`) and with its set (`SumSubset`), and depends on nothing else (`SumSame`)
is proved from the definition of the fold. The library states induction with an operator
for the claim, which the provers cannot instantiate; here it is stated with the *set* of
numbers (`NatLeast`, `NatSteps`) or of finite sets (`SetSteps`) for which a claim holds,
and the function that the fold defines by recursion over sets is shown to exist
(`SumsExist`) and to be the one `CHOOSE` takes (`SumsAgree`).

**LiveStream** (`LiveStreamProofs`). The invariant is

    StreamInv == Shape /\ GoneIsGone /\ Journal
                 /\ WindowRight /\ StreamRight
                 /\ StreamQuiet /\ PositionQuiet /\ ResumeQuiet

The parts come in two kinds. *Right*: of the messages about an observation, the one
with the highest number tells what the store holds, in the window (`WindowRight`) and
among those a stream has still to send (`StreamRight`), unless the feeds have yet to
announce it. *Quiet*: where no message about an observation is left, the tab already
has it, or has asked for it, or gave it up; for what is under way (`StreamQuiet`), what
lies beyond the position the session has sent (`PositionQuiet`), and what a reconnecting
tab would be replayed (`ResumeQuiet`). `StreamCovers`, `PositionKept` and `MirrorCurrent`
are what is visible of these. `Shape` holds the types, the numbers of epochs and
messages (`Epochs`, `Numbers`), that the message in hand comes before the rest (`Order`),
and that what a stream has still to send is in the window unless that has been cut
(`Windowed`), which lets a queue that overflows be replaced by a gap. `Journal` ties the
tab's deltas during a request to its mirror, so that merging an old answer with them
loses nothing. `Moves(M)` says what announcing the messages M does, and every step of
the feeds is shown from it. Theorems: `InvCorrect`, `StreamTypeCorrect`, `CoversCorrect`,
`PositionCorrect`, `MirrorCorrect`; they bound neither messages nor restarts, queue,
window, expiry list or retries.

**Sessions** (`SessionsProofs`). The invariant is

    SessionsInv == SessionsTypeOK /\ RowsSound /\ RequestsSound /\ TurnsTaken
                   /\ OneLiveToken /\ LiveIsProven /\ TokensInHand

`TurnsTaken` is what the two locks give: one refresh or heartbeat that holds the row
until its commit, and one listening tab in the Web Lock's section. `TokensInHand` says of every token still in
the cookie or in a request that it is its family's live one, or its family is over, or
the browser missed an answer; `HonestRefresh` is its visible part. Theorems:
`SessionsTypeCorrect`, `OneLiveCorrect`, `ProvenCorrect`, `HonestCorrect`, and
`RevivalCorrect` for the action property `NoRevival`, which also needs that the clock
never runs back, that a refused session which is not revoked and has nothing under way is
idle (`OverIsIdle`), and that nothing new is let in for it (`NoNewWork`).

**Deliveries** (`DeliveriesProofs`). The invariant is

    DeliveriesInv == DeliveriesTypeOK /\ BusyRows /\ ToldTrue /\ OneMessage
                     /\ HookAttempts /\ SentWasTaken /\ AttemptLeft /\ FencedIsOver

`OneMessage` is the core of `AcceptedOnce`: of a mail or push row there is at most one
message under way, accepted or orphaned, and where there is one the row cannot be
claimed again. `ToldTrue` carries a dispatcher's answer until it is written (a push
refusal tells nothing about acceptance),
`HookAttempts` counts a webhook's acceptances against its attempts, `AttemptLeft` is why
a row put back has an attempt left, `FencedIsOver` why a row behind an opt-out is not
live. Lemma `Steps` divides the next-state relation into steps that leave rows and
messages alone and nine that advance them. Theorems: `DeliveriesTypeCorrect`,
`AcceptedCorrect`, `OutcomeCorrect`, `StrandedCorrect`, `LateCorrect`.

**Model-checked only.** Liveness is out of the prover's reach: `QueueMoves`,
`AllowanceReturns` and `Catches` are checked on the instances of section 3, and no
theorem speaks of `ENABLED` or of fairness. All other properties of the passing runs are
theorems. Of the three properties that the code violates, `ActiveWithinLimit` is proved
for a queue without editions (`ActiveCorrect`) and bounded for one with them
(`OverflowCorrect`); `StuckCorrect` and `ResumeCorrect` name every cause of the two
others.

## 6. Where code and documentation disagree

Three are runs that TLC must find violated:

- `report_jobs_active_limit`: `SubscriptionRetry.resume_due` requeues a job without
  `require_capacity`, which every other requeue calls, so an owner can have three
  queued or running jobs. `src/docs/DURABLE_RESEARCH_JOBS.md:52` says at most two.
- `subscriptions_stuck`: the paused job of an edition whose subscription was deleted
  can be neither resumed nor discarded and keeps its place among the owner's open
  jobs. `src/docs/DURABLE_RESEARCH_JOBS.md:47` says that paused jobs that cannot
  resume can be discarded.
- `subscriptions_resume`: a schedule paused when its job had just used its allowance
  up is refused by every later resume, where
  `src/docs/SUBSCRIPTIONS_OPERATIONS.md:45` says that resume re-enables the cadence.

Others were met while modelling. The models follow the code, and the properties leave
room for them:

- A job whose last allowance went to a call with an unknown outcome can neither be
  resumed (for the budget) nor discarded (for the cost), against the same line 47.
- `alert_notification_cancellation.py:12` says that enabling mail again "must not revive
  work admitted before an opt-out". Its three statements can miss a row that a
  dispatcher moves from sending back to pending between the first and the third
  (PostgreSQL's READ COMMITTED; SQLite's writer lock prevents it). `NoLateSend` exempts
  alert mail for that reason.
- `src/docs/LIVE_STREAM_RECOVERY.md:91` says that access changes keep the
  clear-and-reload behaviour. `events.stream.ts:34` clears only the batch, and no
  snapshot is requested: deltas received and not yet applied are lost until the next
  load. They are in `lost`.
- `src/frontend/src/stores/auth.ts:13` says that after a network failure a later request
  can retry the refresh. When the refresh had committed and only its answer was lost,
  the retry presents a consumed token and ends the session; `HonestRefresh` excepts
  families in `lost`.
- `api/stream_resume.py:4` says that a browser holding a position has every replayable
  message up to it. When the first access check finds the session idle, before hello,
  `api/stream_session.py:110-112` sends `access.changed` and `bye` with the sequence at
  the start (line 75), and `src/frontend/src/lib/sse.ts:192` remembers it, although
  nothing was replayed or loaded. If the session is accepted again, as the next item
  allows, the resume skips those messages. `PositionKept` excepts them: they are in
  `lost`. Without that, TLC finds it violated after `Write`, `Announce`, `Connect` and
  `IdleExpires`.
- `application/auth/activity.py:64` says that an event at or after the deadline cannot
  revive it. A heartbeat let in before the deadline commits after it (lines 71-74), and a
  refresh likewise, while `current_session.py:24-35` may have refused the session in
  between; it is then accepted again. `NoRevival` allows exactly this.
- `adapters/notify/webhook.py:23` and `src/docs/ALERT_ROUTING.md:158` say that a gateway's
  status does not prove that a message was not accepted. `adapters/notify/web_push.py:151`
  calls such an answer of a push service refused, as it calls every other status, and the
  row ends as refused although the message may arrive. `OutcomeIsTrue` leaves room for it.
- The answer to a logout in one tab clears the cookie, also when another tab has logged
  in meanwhile: the fresh login then has no cookie. The server's rows stay sound.

## 7. What is not modelled

- *Data.* Payloads, report text, prompts, hashes and error wording. Errors are four
  classes (none, resumable, final, transient). Retention and cadence arithmetic of
  editions (`edition_planning.py`) is pure and left for a module of operators.
- *In ReportCalls.* The monthly budget, the stage and web allowances and the gate
  are refusals inside `Fail` and `CheckFails`. A lease that only its owner has seen
  expire is merged with the recovery. The refusal to discard a job whose daily
  briefing is retained is left out, so discard is possible at least as often.
- *In AiUsage.* The pruning of retained totals, display views, the split of input
  and output tokens. A provider may report more tokens than reserved; the token
  limit may then be passed by that settlement, which is why `GrowsWithinLimit` is
  about requests. A change of cadence starts a new counter.
- *In LiveStream.* The memory budget, regrading and retention decide which ids change;
  the model lets any id change. The snapshot file is an arbitrary store after a
  restart. Snapshots cut at 2,000 events, viewports and filters are left out: the
  mirror covers whole partitions. Health, alert and bell frames are kinds the mirror
  ignores.
- *In Sessions.* The freshness cache, which lets a recent check of a session stand for
  some seconds: `NoRevival` speaks of checks that read the rows. The second factor an
  administrator must have, and the retention of old rows.
- *In Deliveries.* Which events make a row, the counts in a digest, the erasure of old
  text, and the removal of rows with an account. A row's lease is the worker that
  claimed it: the code's token also tells two claims of one worker apart, but a worker
  has finished or forgotten its row before it claims again.
- *Several API processes* on one database are not a supported deployment. Dispatchers
  are modelled as several, since their tables have leases.
- *Not modelled*: the source-phase ledger and the research tiers (one user's counters
  under one lock), due selection and edition planning (pure calendar arithmetic),
  section reuse, adapters (network I/O and parsing), report generation (sequential
  inside one task; its calls, stops and failures are modelled), retention commands (run
  with the server stopped), warning rules, teams and administration (row checks in one
  transaction), the workspaces (read models), HTTP and rendering. Together these are
  most of the repository's lines and little of its concurrency.

## 8. Plan

Twelve runs and forty properties are the size this project keeps to, so a new component
takes the place of an older question. What would come next:

1. The source-phase ledger beside `ReportCalls`, and the research tiers.
2. Pure operators for slot planning, checked against a reference definition.
3. The freshness cache of `Sessions`, and removal of an account across sessions and
   outboxes.

## 9. Running it

    tlc -workers 2 -config ReportJobs.cfg MCReportJobs
    tlapm ReportJobsProofs.tla

The other runs and proofs are started alike. Every run takes at most about three
minutes on two cores; `Subscriptions.cfg`, which evaluates the mapping to
`EditionService` at every step, is the longest, and `Deliveries.cfg` has the most states,
2.5 million.
