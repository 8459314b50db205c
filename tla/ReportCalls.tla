----------------------------- MODULE ReportCalls -----------------------------
(***************************************************************************)
(* The provider calls of one report job: the durable ledger of calls in    *)
(* its payload, the task that reserves, sends and settles them, and what   *)
(* stopping, resuming, retrying and discarding the job does to the ledger. *)
(*                                                                         *)
(* A call is named by a number, the order of its reservation.  A worker    *)
(* has at most one task for a job and a task makes one call at a time, so  *)
(* `cur` is the call it is busy with.  Every write to the ledger is a      *)
(* compare-and-set on the row's revision and lease: it takes place while   *)
(* the job is running under the task's lease, or not at all.  A write that *)
(* reaches the database after its caller gave up is, by that comparison,   *)
(* ordered before the next write of the row: it has then simply been       *)
(* saved and not confirmed.                                                *)
(*                                                                         *)
(* The callers of optional steps (planning, query translation, replanning, *)
(* the challenge, web discovery) put a time limit of their own on a call   *)
(* and swallow its error, some of them every error.  So a task may go on   *)
(* whatever became of a call, with rows of earlier calls still in flight,  *)
(* uncertain or released; which step makes which call is left open.        *)
(***************************************************************************)
EXTENDS Integers, FiniteSets, Functions

CONSTANTS
  Calls,      \* calls, as ranks of their reservation: a bound of the model
  Requests,   \* request hashes
  NoRequest,  \* the hash of a call that was never reserved
  OutputOf,   \* the output tokens a request reserves
  MaxCalls,   \* MAX_CALLS
  MaxOutput,  \* MAX_OUTPUT_TOKENS
  Counts      \* token counts a provider reports; bounds the model

ASSUME CallsAssumption ==
  /\ Calls \subseteq Nat \ {0} /\ IsFiniteSet(Calls)
  /\ NoRequest \notin Requests /\ OutputOf \in [Requests -> Nat \ {0}]
  /\ MaxCalls \in Nat \ {0} /\ MaxOutput \in Nat /\ Counts \subseteq Nat

VARIABLES
  job,      \* the job's status
  error,    \* the class of its error
  pc,       \* where the job's task is
  cur,      \* the call the task is busy with
  final,    \* what the task is about to write to that call's row
  row,      \* the state of each call in payload["calls"]
  tokens,   \* completion_tokens of a call's row, or Unknown
  request,  \* request_hash of a call's row
  clean,    \* the ledger is as it was when the task claimed the job
  sent,     \* history: the calls whose request was sent to the provider
  cost      \* history: the most output the provider may bill a sent call with

ledger == <<row, tokens, request>>
history == <<sent, cost>>
vars == <<job, error, pc, cur, final, ledger, clean, history>>

Unknown == -1
Settled == {"completed", "exhausted", "failed"}
\* "released" is failed with error not_dispatched, "exhausted" failed with
\* token_budget_exhausted; "dropped" rows have left the ledger.
RowStates == {"none", "in_flight", "uncertain", "released", "dropped"} \cup Settled
JobStates == {"queued", "running", "stopped", "discarded", "finished"}
\* resumable, one of NON_RESUMABLE_ERRORS, known_transient_failure
JobErrors == {"none", "final", "transient"}
\* no task; between two calls; reserved, before the second check; about to send;
\* waiting for the answer; writing the release of an unsent call; writing the
\* outcome; ended by an interruption; ended by another error
Places == {"none", "ready", "reserved", "checked", "sent", "releasing", "settling",
           "ended", "failed"}
Outcomes == [row : Settled \cup {"uncertain", "released"}, tokens : Counts \cup {0, Unknown}]

Init ==
  /\ job = "queued" /\ error = "none"
  /\ pc = "none" /\ cur = 0
  /\ final = [row |-> "uncertain", tokens |-> Unknown]
  /\ row = [c \in Calls |-> "none"]
  /\ tokens = [c \in Calls |-> Unknown]
  /\ request = [c \in Calls |-> NoRequest]
  /\ clean = TRUE
  /\ sent = {}
  /\ cost = [c \in Calls |-> 0]

-----------------------------------------------------------------------------
(* Reading the ledger.  A definition commented "Faulty:" is a plausible       *)
(* mistake in the next one that the specification never uses.                 *)

Ledger == {c \in Calls : row[c] \notin {"none", "dropped"}}

\* dispatched_calls
Dispatched == {c \in Ledger : row[c] # "released"}

\* What a row of the ledger uses of the output allowance.
Charge(c) ==
  IF row[c] \in Settled \cup {"released"} /\ tokens[c] # Unknown
  THEN tokens[c] ELSE OutputOf[request[c]]

\* output_used
OutputUsed == SumFunction([c \in Ledger |-> Charge(c)])

\* Faulty: what is reserved is not compared with what is left.
OutputLeft(r) == OutputUsed < MaxOutput

\* The job's allowance has room for a call of request r.
OutputFits(r) == OutputUsed + OutputOf[r] <= MaxOutput

HasBudget == Cardinality(Dispatched) < MaxCalls /\ OutputUsed < MaxOutput

\* Faulty: no request is known to be exhausted.
NeverExhausted(r) == FALSE

\* A call with the same hash ran out of output tokens.
KnownExhausted(r) == \E c \in Ledger : request[c] = r /\ row[c] = "exhausted"

\* automatic_retry_payload is not None: every outcome is known and no provider
\* failed.
AllAnswered == \A c \in Ledger : row[c] \in {"completed", "exhausted", "released"}

\* Faulty: only the calls a resume marked uncertain stop the discard.
NoneUncertain == \A c \in Ledger : row[c] # "uncertain"

\* require_discardable
Discardable == \A c \in Ledger : row[c] \in Settled \cup {"released"} /\ tokens[c] # Unknown

\* Faulty: the released rows stay.
KeptReleased(c) == row[c]

\* dispatched_calls, applied to a payload that is saved: released rows go.
WithoutReleased(c) == IF row[c] = "released" THEN "dropped" ELSE row[c]

\* Faulty: an interrupted call is dropped with the released ones.
DropInterrupted(c) == IF row[c] \in {"released", "in_flight"} THEN "dropped" ELSE row[c]

\* resumed_payload
Resumed(c) == IF row[c] = "in_flight" THEN "uncertain" ELSE WithoutReleased(c)

-----------------------------------------------------------------------------
(* The task *)

\* The worker claims the job: it has no task of an earlier lease any more.
Claim ==
  /\ job = "queued" /\ pc = "none"
  /\ job' = "running" /\ pc' = "ready" /\ clean' = TRUE
  /\ UNCHANGED <<error, cur, final, ledger, history>>

\* The call is over for the task, with a result or an error.  Its caller may
\* swallow the error, or fail with it: Fail.
BackToCaller == pc' = "ready"

\* _reserve, after the first check.  The write may be saved without the task
\* being told, or the caller's time limit cuts it off; then nothing is sent.
Reserve(c, r) ==
  /\ pc = "ready" /\ job = "running"
  /\ row[c] = "none" /\ \A d \in Calls : d < c => row[d] # "none"
  /\ ~KnownExhausted(r)
  /\ Cardinality(Dispatched) < MaxCalls /\ OutputFits(r)
  /\ Cardinality(Ledger) < MaxCalls
  /\ row' = [row EXCEPT ![c] = "in_flight"]
  /\ request' = [request EXCEPT ![c] = r]
  /\ cur' = c /\ clean' = FALSE
  /\ pc' = "reserved" \/ BackToCaller
  /\ UNCHANGED <<job, error, final, tokens, history>>

\* The second check, before anything is sent
CheckPasses ==
  /\ pc = "reserved" /\ job = "running"
  /\ pc' = "checked"
  /\ UNCHANGED <<job, error, cur, final, ledger, clean, history>>

\* It refuses, for the lease or for what the gate reads, or is cancelled.
CheckFails ==
  /\ pc = "reserved"
  /\ pc' = "releasing" /\ final' = [row |-> "released", tokens |-> 0]
  /\ UNCHANGED <<job, error, cur, ledger, clean, history>>

\* The AI allowance refuses, or its dispatch cannot be recorded.
AllowanceRefuses ==
  /\ pc = "checked"
  /\ pc' = "settling" /\ final' = [row |-> "released", tokens |-> 0]
  /\ UNCHANGED <<job, error, cur, ledger, clean, history>>

\* The request leaves for the provider; nothing is checked any more.
Send ==
  /\ pc = "checked"
  /\ pc' = "sent"
  /\ sent' = sent \cup {cur}
  /\ cost' = [cost EXCEPT ![cur] = OutputOf[request[cur]]]
  /\ UNCHANGED <<job, error, cur, final, ledger, clean>>

\* The provider answers or fails, and says what it used or does not.
Answer(s, n) ==
  /\ pc = "sent" /\ n <= OutputOf[request[cur]]
  /\ pc' = "settling" /\ final' = [row |-> s, tokens |-> n]
  /\ cost' = [cost EXCEPT ![cur] = IF n = Unknown THEN @ ELSE n]
  /\ UNCHANGED <<job, error, cur, ledger, clean, sent>>

\* Faulty: a cancelled call is taken not to have been sent.
CancelledUnsent == [row |-> "released", tokens |-> 0]

\* Faulty: the row keeps saying in_flight.
StillInFlight == [row |-> "in_flight", tokens |-> Unknown]

\* The outcome `run` starts from and keeps when it is cancelled.
Interrupted == [row |-> "uncertain", tokens |-> Unknown]

\* The task is cancelled inside invoke, or its caller's time limit runs out.
CancelCall ==
  /\ pc \in {"checked", "sent"}
  /\ pc' = "settling" /\ final' = Interrupted
  /\ UNCHANGED <<job, error, cur, ledger, clean, history>>

\* mutate under the lease, and _settle's own condition
MayWrite == job = "running" /\ row[cur] = "in_flight"

\* mutate(settle) is saved, or it is not.
Write(saved) ==
  IF saved
  THEN /\ MayWrite
       /\ row' = [row EXCEPT ![cur] = final.row]
       /\ tokens' = [tokens EXCEPT ![cur] = final.tokens]
       /\ clean' = FALSE
       /\ UNCHANGED request
  ELSE UNCHANGED <<ledger, clean>>

\* _settle of a call that was not sent: the refusal is raised, saved or not.
Release(saved) ==
  /\ pc = "releasing" /\ Write(saved) /\ BackToCaller
  /\ UNCHANGED <<job, error, cur, final, history>>

\* _settle of a call's outcome: an unconfirmed write is an error like the
\* call's own and that of the last check.
Settle(saved) ==
  /\ pc = "settling" /\ Write(saved) /\ BackToCaller
  /\ UNCHANGED <<job, error, cur, final, history>>

\* Between two calls the task is cancelled or fails, with the error of the last
\* call, a refused reservation and a failed first check included.
Fail ==
  /\ pc = "ready"
  /\ pc' \in {"failed", "ended"}
  /\ UNCHANGED <<job, error, cur, final, ledger, clean, history>>

\* classify_failure and decide_retry may allow an automatic retry.
Transient == pc = "failed" /\ clean /\ AllAnswered /\ HasBudget

\* SubscriptionRetry.pause, if the job is still this task's
StopJob(e) ==
  /\ pc \in {"failed", "ended"} /\ job = "running"
  /\ e = "transient" => Transient
  /\ e = "final" => pc = "failed"
  /\ pc' = "none" /\ job' = "stopped" /\ error' = e
  /\ row' = IF e = "transient" THEN [c \in Calls |-> WithoutReleased(c)] ELSE row
  /\ UNCHANGED <<cur, final, tokens, request, clean, history>>

\* The job is no longer this task's, or its stop could not be written.
EndTask ==
  /\ pc \in {"failed", "ended"}
  /\ pc' = "none"
  /\ UNCHANGED <<job, error, cur, final, ledger, clean, history>>

\* The report is published: ReportJobCheckpoints.finish
Finish ==
  /\ pc = "ready" /\ job = "running"
  /\ pc' = "none" /\ job' = "finished"
  /\ UNCHANGED <<error, cur, final, ledger, clean, history>>

\* The process dies.
Crash ==
  /\ pc # "none"
  /\ pc' = "none"
  /\ UNCHANGED <<job, error, cur, final, ledger, clean, history>>

-----------------------------------------------------------------------------
(* The owner's controls, and what the tick does to the job *)

\* ReportJobService.pause; the task is cancelled later.
Pause ==
  /\ job \in {"queued", "running"}
  /\ job' = "stopped" /\ error' = "none"
  /\ UNCHANGED <<pc, cur, final, ledger, clean, history>>

\* recover_expired, with the reason of expired_failure
Recover ==
  /\ job = "running"
  /\ job' = "stopped"
  /\ error' \in IF Ledger # {} /\ \A c \in Ledger : row[c] = "completed"
                THEN {"none", "final"} ELSE {"none"}
  /\ UNCHANGED <<pc, cur, final, ledger, clean, history>>

CanResume == job = "stopped" /\ error # "final" /\ HasBudget

\* ReportJobService.resume
Resume ==
  /\ CanResume
  /\ job' = "queued" /\ error' = "none"
  /\ row' = [c \in Calls |-> Resumed(c)]
  /\ UNCHANGED <<pc, cur, final, tokens, request, clean, history>>

\* SubscriptionRetry.resume_due
AutoRetry ==
  /\ job = "stopped" /\ error = "transient" /\ AllAnswered /\ HasBudget
  /\ job' = "queued" /\ error' = "none"
  /\ UNCHANGED <<pc, cur, final, ledger, clean, history>>

CanDiscard == job = "stopped" /\ Discardable

\* ReportJobService.discard
Discard ==
  /\ CanDiscard
  /\ job' = "discarded"
  /\ UNCHANGED <<error, pc, cur, final, ledger, clean, history>>

Task ==
  \/ Claim \/ CheckPasses \/ CheckFails \/ AllowanceRefuses \/ Send \/ CancelCall
  \/ \E c \in Calls, r \in Requests : Reserve(c, r)
  \/ \E s \in Settled, n \in Counts \cup {Unknown} : Answer(s, n)
  \/ \E saved \in BOOLEAN : Release(saved) \/ Settle(saved)
  \/ \E e \in JobErrors : StopJob(e)
  \/ Fail \/ EndTask \/ Finish \/ Crash

Controls == Pause \/ Recover \/ Resume \/ AutoRetry \/ Discard

Next == Task \/ Controls

Spec == Init /\ [][Next]_vars

-----------------------------------------------------------------------------
(* Properties *)

\* The variables have their types, and a call has a request once reserved.
CallsTypeOK ==
  /\ job \in JobStates /\ error \in JobErrors /\ pc \in Places
  /\ cur \in Calls \cup {0} /\ (pc \notin {"none", "ready", "ended", "failed"} => cur \in Calls)
  /\ final \in Outcomes
  /\ row \in [Calls -> RowStates]
  /\ tokens \in [Calls -> Counts \cup {0, Unknown}]
  /\ request \in [Calls -> Requests \cup {NoRequest}]
  /\ \A c \in Calls : row[c] # "none" => request[c] \in Requests
  /\ clean \in BOOLEAN /\ sent \subseteq Calls /\ cost \in [Calls -> Nat]

\* No more than MaxCalls requests of a job ever reach a provider, over all its
\* attempts, however often it is stopped and resumed with calls under way.
CallsWithinLimit == Cardinality(sent) <= MaxCalls

\* What the provider may bill for those calls stays within the job's output
\* allowance, as long as it honours the limit sent with each request.
OutputWithinLimit == SumFunctionOnSet(cost, sent) <= MaxOutput

\* A job stays within the calls and the output tokens it was admitted with.
WithinBudget == CallsWithinLimit /\ OutputWithinLimit

\* The ledger never charges a call that was sent less than the provider may bill
\* it with: a lost settlement, a cancellation and a resume keep the reservation.
ChargedInFull == \A c \in sent : c \in Dispatched /\ cost[c] <= Charge(c)

\* A job is discarded only when what it cost is known exactly.
DiscardKnowsCost == job = "discarded" => \A c \in sent : tokens[c] = cost[c]

\* What a job cost is never lost: it is charged in full, and known exactly before
\* the job may be discarded.
CostIsCharged == ChargedInFull /\ DiscardKnowsCost

\* Nothing is sent for a job that was discarded, or has published its report,
\* although a request is sent without a last look at the job.
NothingSentAfterEnd == [][(job \in {"discarded", "finished"}) => (sent' = sent)]_vars

\* The row of a sent call changes only by settling it while the job is leased, or
\* by the resume that makes it uncertain; a late settlement never changes it.
SettledStays ==
  [][\A c \in sent : row'[c] # row[c] =>
       row[c] = "in_flight" /\ (job = "running" \/ row'[c] = "uncertain")]_vars

\* An end is final, for the job and for each of its calls.
EndIsFinal == NothingSentAfterEnd /\ SettledStays

\* A request is not sent again for this job once the ledger says it ran out of
\* output tokens, by whatever attempt; a settlement that was lost says nothing.
ExhaustedNotRepeated ==
  \A c, d \in sent : d < c /\ request[d] = request[c] => row[d] # "exhausted"

\* A job that is queued with an allowance left has room in its bounded ledger:
\* refusals before dispatch never fill it for good.
RoomWhenQueued == job = "queued" /\ HasBudget => Cardinality(Ledger) < MaxCalls
=============================================================================
