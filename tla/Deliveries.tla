----------------------------- MODULE Deliveries -----------------------------
(***************************************************************************)
(* The outboxes and the dispatchers that drain them.  Four tables hold     *)
(* what has to leave the installation: edition mail, the daily digest,     *)
(* alert notifications (mail or webhook) and web push.  Each is drained    *)
(* by a loop that claims a row, rechecks under the administration lock     *)
(* that it is still wanted, hands it to a transport without any lock, and  *)
(* writes the outcome back behind a lease.  Several processes may run the  *)
(* loop.  A transport may take a message and never say so, and a thread    *)
(* abandoned by a timeout may still deliver.                               *)
(*                                                                         *)
(* Abstractions.  One behaviour runs one table; its rows belong to one     *)
(* recipient, one subscription and event kind, and one push device.  A     *)
(* row's clock columns are one flag: a waiting row is ripe when its        *)
(* next_attempt_at has come, a sending row when its updated_at is older    *)
(* than the recovery window.  Claim is the select and the compare and      *)
(* swap in one step.  A tick's limit of 25 rows exceeds Rows.  Address     *)
(* confirmation, access and routing are one refusal that may always come.  *)
(***************************************************************************)
EXTENDS Integers, FiniteSets

CONSTANTS N,            \* rows of the outbox, numbered in order of creation
          Workers,      \* processes that run the dispatcher
          MaxAttempts,  \* MAX_ATTEMPTS
          Webhooks,     \* the rows a webhook takes where the table is "alert"
          Nobody        \* the lease of a row never claimed

ASSUME DeliveriesAssumption ==
  N \in Nat /\ MaxAttempts \in Nat \ {0}
  /\ Webhooks \subseteq 1 .. N /\ Nobody \notin Workers

Rows == 1 .. N
Tables == {"edition", "digest", "alert", "push"}

Waiting == {"pending", "unavailable"}
Live == Waiting \union {"sending"}
Settled == {"sent", "failed", "cancelled", "uncertain", "empty", "refused", "gone"}
Outcomes == {"sent", "retryable", "unavailable", "uncertain", "refused", "expired"}

VARIABLES table,      \* the outbox of this behaviour
          state,      \* the rows' state; "none" before the row, "gone" after it
          attempts,
          ripe,       \* see above
          lease,      \* the worker whose claim wrote lease_token
          mail,       \* NotificationPreferenceRow.email_enabled
          chosen,     \* subscription policy, digest opt-in or registered device
          cancelling, \* statements cancel_alert_email still has to run
          smtp,       \* the installation has a mail server configured
          work,       \* the dispatchers: where in the tick, and on which row
          accepted,   \* times a transport took the row's message
          orphans,    \* rows with an attempt nobody waits for any more
          fenced      \* rows that existed when their recipient opted out

outbox == <<state, attempts, ripe, lease>>
choices == <<mail, chosen, cancelling>>
transport == <<accepted, orphans>>
vars == <<table, outbox, choices, smtp, work, transport, fenced>>

Hook(r) == table = "alert" /\ r \in Webhooks
ByMail(r) == table # "push" /\ ~Hook(r)

Idle == [at |-> "idle", row |-> 0]
Ready == [at |-> "ready", row |-> 0]
On(w, stage) == [at |-> stage, row |-> work[w].row]

Init ==
  /\ table \in Tables
  /\ state = [r \in Rows |-> "none"]
  /\ attempts = [r \in Rows |-> 0]
  /\ ripe = [r \in Rows |-> FALSE]
  /\ lease = [r \in Rows |-> Nobody]
  /\ mail \in IF table = "push" THEN {TRUE} ELSE BOOLEAN
  /\ chosen \in IF table = "alert" THEN {TRUE} ELSE BOOLEAN
  /\ table = "digest" /\ chosen => mail
  /\ cancelling = 0
  /\ smtp \in IF table = "push" THEN {TRUE} ELSE BOOLEAN
  /\ work = [w \in Workers |-> Idle]
  /\ accepted = [r \in Rows |-> 0]
  /\ orphans = {}
  /\ fenced = {}

-----------------------------------------------------------------------------
(* Admission.                                                              *)

\* What each enqueuing transaction asks.  Edition mail reads the subscription's
\* choice only, not the account's; alert mail the account's; a webhook nothing.
EditionAdmitted == chosen
DigestAdmitted == chosen
AlertAdmitted(r) == Hook(r) \/ mail
PushAdmitted == chosen

Admitted(r) ==
  \/ table = "edition" /\ EditionAdmitted
  \/ table = "digest" /\ DigestAdmitted
  \/ table = "alert" /\ AlertAdmitted(r)
  \/ table = "push" /\ PushAdmitted

\* A key derived from the event makes a second admission of the row harmless.
Queue(r) ==
  /\ state[r] = "none"
  /\ \A q \in Rows : q < r => state[q] # "none"
  /\ cancelling = 0
  /\ Admitted(r)
  /\ state' = [state EXCEPT ![r] = "pending"]
  /\ ripe' = [ripe EXCEPT ![r] = TRUE]
  /\ UNCHANGED <<table, attempts, lease, choices, smtp, work, transport, fenced>>

-----------------------------------------------------------------------------
(* One tick of a dispatcher.                                               *)

\* Faulty: an interrupted row is offered again.
InterruptedIsRetried == "pending"
\* What recovery makes of a row that has been sending for too long.
Interrupted == "uncertain"

Begin(w) ==
  LET lost == {r \in Rows : state[r] = "sending" /\ ripe[r]}
  IN /\ work[w] = Idle
     /\ work' = [work EXCEPT ![w] = Ready]
     /\ state' = [r \in Rows |-> IF r \in lost THEN Interrupted ELSE state[r]]
     /\ ripe' = [r \in Rows |-> r \notin lost /\ ripe[r]]
     /\ UNCHANGED <<table, attempts, lease, choices, smtp, transport, fenced>>

RipeRows == {r \in Rows : state[r] \in Waiting /\ attempts[r] < MaxAttempts /\ ripe[r]}
PendingRows == {r \in Rows : state[r] = "pending"}

Eligible == IF table = "push" THEN PendingRows ELSE RipeRows

Claim(w) ==
  \E r \in Eligible :
    /\ \A q \in Eligible : r <= q
    /\ work[w] = Ready
    /\ work' = [work EXCEPT ![w] = [at |-> "claimed", row |-> r]]
    /\ state' = [state EXCEPT ![r] = "sending"]
    /\ attempts' = [attempts EXCEPT ![r] = IF table = "push" THEN @ ELSE @ + 1]
    /\ ripe' = [ripe EXCEPT ![r] = FALSE]
    /\ lease' = [lease EXCEPT ![r] = w]
    /\ UNCHANGED <<table, choices, smtp, transport, fenced>>

\* A push row whose stored subscription cannot be decrypted is refused at once.
Unreadable(w) ==
  \E r \in Eligible :
    /\ \A q \in Eligible : r <= q
    /\ table = "push"
    /\ work[w] = Ready
    /\ work' = [work EXCEPT ![w] = Idle]
    /\ state' = [state EXCEPT ![r] = "refused"]
    /\ ripe' = [ripe EXCEPT ![r] = FALSE]
    /\ lease' = [lease EXCEPT ![r] = w]
    /\ UNCHANGED <<table, attempts, choices, smtp, transport, fenced>>

Rest(w) ==
  /\ work[w] = Ready
  /\ Eligible = {}
  /\ work' = [work EXCEPT ![w] = Idle]
  /\ UNCHANGED <<table, outbox, choices, smtp, transport, fenced>>

\* The lease fence of prepare and of finish.
Owned(w) == state[work[w].row] = "sending" /\ lease[work[w].row] = w

\* Edition mail reads the row before it waits for the administration lock.
\* The other tables read it too, but their later fenced write implies it.
Check(w) ==
  /\ table = "edition"
  /\ work[w].at = "claimed"
  /\ work' = [work EXCEPT ![w] = IF Owned(w) THEN On(w, "checked") ELSE Ready]
  /\ UNCHANGED <<table, outbox, choices, smtp, transport, fenced>>

\* The preferences prepare reads under the administration lock.
EditionWanted == mail /\ chosen
DigestWanted == mail /\ chosen
AlertWanted(r) == Hook(r) \/ mail
PushWanted == chosen

Wanted(r) ==
  \/ table = "edition" /\ EditionWanted
  \/ table = "digest" /\ DigestWanted
  \/ table = "alert" /\ AlertWanted(r)
  \/ table = "push" /\ PushWanted

AtPrepare(w) ==
  /\ work[w].at = IF table = "edition" THEN "checked" ELSE "claimed"
  /\ cancelling = 0

\* prepare finds the row wanted and its lease intact: the message goes out,
\* or comes straight back where the process has no mail server.
Release(w) ==
  LET r == work[w].row
  IN /\ AtPrepare(w)
     /\ Wanted(r)
     /\ ripe' = [ripe EXCEPT ![r] = IF Owned(w) THEN FALSE ELSE @]
     /\ work' = [work EXCEPT ![w] =
          IF ~Owned(w) THEN Ready
          ELSE IF ByMail(r) /\ ~smtp THEN On(w, "unavailable")
          ELSE On(w, "out")]
     /\ UNCHANGED <<table, state, attempts, lease, choices, smtp, transport, fenced>>

\* prepare refuses, because of an opt-out or for access, scope or routing.
\* Edition mail writes by primary key; the others write behind the lease.
Refuse(w) ==
  LET r == work[w].row
  IN /\ AtPrepare(w)
     /\ work' = [work EXCEPT ![w] = Ready]
     /\ \E s \in {"cancelled"} \union (IF table = "digest" THEN {"empty"} ELSE {}) :
          state' = [state EXCEPT ![r] = IF table = "edition" \/ Owned(w) THEN s ELSE @]
     /\ ripe' = [ripe EXCEPT ![r] = IF state'[r] = "sending" THEN @ ELSE FALSE]
     /\ UNCHANGED <<table, attempts, lease, choices, smtp, transport, fenced>>

Present == {r \in Rows : state[r] # "none"}

\* remove_push_device deletes the device and every row for it.
Removed == [r \in Rows |-> IF state[r] = "none" THEN "none" ELSE "gone"]

\* authorise found the device's account or session no longer valid.
Evict(w) ==
  /\ table = "push"
  /\ AtPrepare(w)
  /\ state[work[w].row] # "gone"
  /\ work' = [work EXCEPT ![w] = Ready]
  /\ state' = Removed
  /\ ripe' = [r \in Rows |-> FALSE]
  /\ chosen' = FALSE
  /\ fenced' = fenced \union Present
  /\ UNCHANGED <<table, attempts, lease, mail, cancelling, smtp, transport>>

-----------------------------------------------------------------------------
(* The transport.                                                          *)

\* What a sender may report, and how often the transport had then taken the
\* message.  Mail is retried only when it was certainly refused; gateway errors
\* and other statuses of a webhook or a push service prove nothing about
\* acceptance, although push calls them a refusal.  An attempt given up as
\* uncertain may still be in flight.
MailReports == {<<"sent", 1>>, <<"retryable", 0>>, <<"uncertain", 0>>}
HookReports == MailReports \union {<<"retryable", 1>>}
PushReports ==
  {<<"sent", 1>>, <<"refused", 0>>, <<"refused", 1>>, <<"expired", 0>>, <<"uncertain", 0>>}

Reports(r) ==
  IF table = "push" THEN PushReports ELSE IF Hook(r) THEN HookReports ELSE MailReports

Answer(w) ==
  LET r == work[w].row
  IN /\ work[w].at = "out"
     /\ \E report \in Reports(r) :
          /\ work' = [work EXCEPT ![w] = On(w, report[1])]
          /\ accepted' = [accepted EXCEPT ![r] = @ + report[2]]
          /\ orphans' = IF report[1] = "uncertain" THEN orphans \union {r} ELSE orphans
     /\ UNCHANGED <<table, outbox, choices, smtp, fenced>>

Land(r) ==
  /\ r \in orphans
  /\ orphans' = orphans \ {r}
  /\ accepted' = [accepted EXCEPT ![r] = @ + 1]
  /\ UNCHANGED <<table, outbox, choices, smtp, work, fenced>>

-----------------------------------------------------------------------------
(* The outcome.                                                            *)

\* Faulty: the outcome is written as it is named.
NoRefusal(r) == "retryable"
AfterRefusal(r) == IF attempts[r] < MaxAttempts THEN "pending" ELSE "failed"

\* The state finish writes.  Edition and digest mail that find no mail server
\* get their attempt back and wait; an alert's attempt counts.
EditionResult(r, o) == IF o = "retryable" THEN AfterRefusal(r) ELSE o
DigestResult(r, o) == IF o = "retryable" THEN AfterRefusal(r) ELSE o
\* Faulty: an alert that finds no mail server waits after its last attempt.
AlertAlwaysWaits(r, o) == IF o = "retryable" THEN AfterRefusal(r) ELSE o
AlertResult(r, o) ==
  CASE o = "retryable" -> AfterRefusal(r)
    [] o = "unavailable" -> IF attempts[r] < MaxAttempts THEN "unavailable" ELSE "failed"
    [] OTHER -> o
PushResult(o) == o

Result(r, o) ==
  CASE table = "edition" -> EditionResult(r, o)
    [] table = "digest" -> DigestResult(r, o)
    [] table = "alert" -> AlertResult(r, o)
    [] table = "push" -> PushResult(o)

Finish(w) ==
  LET r == work[w].row
      o == work[w].at
  IN /\ o \in Outcomes \ {"expired"}
     /\ work' = [work EXCEPT ![w] = Ready]
     /\ state' = [state EXCEPT ![r] = IF Owned(w) THEN Result(r, o) ELSE @]
     /\ attempts' = [attempts EXCEPT ![r] =
          IF Owned(w) /\ o = "unavailable" /\ table # "alert" THEN @ - 1 ELSE @]
     /\ ripe' = [ripe EXCEPT ![r] = IF Owned(w) THEN FALSE ELSE @]
     /\ UNCHANGED <<table, lease, choices, smtp, transport, fenced>>

\* The push service no longer knows the device, which is removed with all its
\* rows, whoever owns this one now; a device registered since has another id.
FinishExpired(w) ==
  /\ work[w].at = "expired"
  /\ work' = [work EXCEPT ![w] = Ready]
  /\ IF state[work[w].row] = "gone"
     THEN UNCHANGED <<state, ripe, chosen, fenced>>
     ELSE /\ state' = Removed
          /\ ripe' = [r \in Rows |-> FALSE]
          /\ chosen' = FALSE
          /\ fenced' = fenced \union Present
  /\ UNCHANGED <<table, attempts, lease, mail, cancelling, smtp, transport>>

\* The process dies, or the tick ends in a database error: the claim is
\* forgotten and the attempt, if any, goes on alone.
Crash(w) ==
  /\ work[w] # Idle
  /\ work' = [work EXCEPT ![w] = Idle]
  /\ orphans' = IF work[w].at = "out" THEN orphans \union {work[w].row} ELSE orphans
  /\ UNCHANGED <<table, outbox, choices, smtp, accepted, fenced>>

\* The installation is restarted with a mail server.
Configure ==
  /\ ~smtp
  /\ smtp' = TRUE
  /\ \A w \in Workers : work[w] = Idle
  /\ UNCHANGED <<table, outbox, choices, work, transport, fenced>>

Dispatch(w) ==
  \/ Begin(w) \/ Claim(w) \/ Unreadable(w) \/ Rest(w) \/ Check(w)
  \/ Release(w) \/ Refuse(w) \/ Evict(w) \/ Answer(w)
  \/ Finish(w) \/ FinishExpired(w)

-----------------------------------------------------------------------------
(* The recipient.                                                          *)

\* Faulty: a row under way is called cancelled.
StopCancelsAll(s) == IF s \in Live THEN "cancelled" ELSE s
\* Faulty: rows that wait for a mail server are forgotten.
StopKeepsUnavailable(s) ==
  CASE s = "pending" -> "cancelled"
    [] s = "sending" -> "uncertain"
    [] OTHER -> s
\* What an opt-out makes of a row.
Stop(s) ==
  CASE s \in Waiting -> "cancelled"
    [] s = "sending" -> "uncertain"
    [] OTHER -> s

\* The one UPDATE of cancel_subscription_email and of cancel_pending_digests.
Cancelled == [r \in Rows |-> Stop(state[r])]

LiveRows == {r \in Rows : state[r] \in Live}

\* save_email with mail disabled, for edition mail and digests.
OptOut ==
  /\ table \in {"edition", "digest"}
  /\ mail
  /\ mail' = FALSE
  /\ chosen' = (chosen /\ table # "digest")
  /\ state' = Cancelled
  /\ ripe' = [r \in Rows |-> FALSE]
  /\ fenced' = fenced \union LiveRows
  /\ UNCHANGED <<table, attempts, lease, cancelling, smtp, work, transport>>

\* save_subscription or the digest preference, saved without the row's kind.
OptOutOne ==
  /\ table \in {"edition", "digest"}
  /\ chosen
  /\ chosen' = FALSE
  /\ state' = Cancelled
  /\ ripe' = [r \in Rows |-> FALSE]
  /\ fenced' = fenced \union LiveRows
  /\ UNCHANGED <<table, attempts, lease, mail, cancelling, smtp, work, transport>>

\* save_email with mail disabled, for alerts: three UPDATEs in this order, the
\* preference with the last.  The administration lock is held throughout,
\* which finish and claim do not take.
StatementsLeft == <<"sending", "unavailable", "pending">>

OptOutAlerts ==
  /\ table = "alert"
  /\ mail
  /\ cancelling = 0
  /\ cancelling' = 3
  /\ fenced' = fenced \union {r \in LiveRows : ByMail(r)}
  /\ UNCHANGED <<table, outbox, mail, chosen, smtp, work, transport>>

CancelAlerts ==
  LET hit == {r \in Rows : ByMail(r) /\ state[r] = StatementsLeft[cancelling]}
  IN /\ cancelling > 0
     /\ cancelling' = cancelling - 1
     /\ mail' = (cancelling > 1)
     /\ state' = [r \in Rows |-> IF r \in hit THEN Stop(state[r]) ELSE state[r]]
     /\ ripe' = [r \in Rows |-> r \notin hit /\ ripe[r]]
     /\ UNCHANGED <<table, attempts, lease, chosen, smtp, work, transport, fenced>>

\* The recipient's push device is removed: by hand, or by the enqueue of a tick
\* that finds its account or session no longer valid.
RemoveDevice ==
  /\ table = "push"
  /\ chosen
  /\ chosen' = FALSE
  /\ state' = Removed
  /\ ripe' = [r \in Rows |-> FALSE]
  /\ fenced' = fenced \union Present
  /\ UNCHANGED <<table, attempts, lease, mail, cancelling, smtp, work, transport>>

OptIn ==
  /\ ~mail
  /\ cancelling = 0
  /\ mail' = TRUE
  /\ UNCHANGED <<table, outbox, chosen, cancelling, smtp, work, transport, fenced>>

\* A digest needs account mail; a subscription's choice and a device do not.
OptInOne ==
  /\ ~chosen
  /\ table = "digest" => mail
  /\ chosen' = TRUE
  /\ UNCHANGED <<table, outbox, mail, cancelling, smtp, work, transport, fenced>>

\* Alert retention deletes a row whatever its state.
Prune(r) ==
  /\ table = "alert"
  /\ cancelling = 0
  /\ state[r] \notin {"none", "gone"}
  /\ state' = [state EXCEPT ![r] = "gone"]
  /\ ripe' = [ripe EXCEPT ![r] = FALSE]
  /\ UNCHANGED <<table, attempts, lease, choices, smtp, work, transport, fenced>>

\* Time passes for a row.
Ripen(r) ==
  /\ state[r] \in Live
  /\ ~ripe[r]
  /\ ripe' = [ripe EXCEPT ![r] = TRUE]
  /\ UNCHANGED <<table, state, attempts, lease, choices, smtp, work, transport, fenced>>

Next ==
  \/ \E r \in Rows : Queue(r) \/ Land(r) \/ Prune(r) \/ Ripen(r)
  \/ \E w \in Workers : Dispatch(w) \/ Crash(w)
  \/ OptOut \/ OptOutOne \/ OptOutAlerts \/ CancelAlerts \/ RemoveDevice
  \/ OptIn \/ OptInOne \/ Configure

Spec == Init /\ [][Next]_vars

-----------------------------------------------------------------------------
(* Properties.                                                             *)

DeliveriesTypeOK ==
  /\ table \in Tables
  /\ state \in [Rows -> Live \union Settled \union {"none"}]
  /\ attempts \in [Rows -> 0 .. MaxAttempts]
  /\ ripe \in [Rows -> BOOLEAN]
  /\ lease \in [Rows -> Workers \union {Nobody}]
  /\ mail \in BOOLEAN /\ chosen \in BOOLEAN /\ smtp \in BOOLEAN
  /\ cancelling \in 0 .. 3
  /\ work \in [Workers -> [at : Outcomes \union {"idle", "ready", "claimed", "checked", "out"},
                         row : Rows \union {0}]]
  /\ accepted \in [Rows -> Nat]
  /\ orphans \subseteq Rows /\ fenced \subseteq Rows

\* A transport takes a mail or push row at most once, whatever times out,
\* is recovered or is claimed again; a webhook at most once for each
\* of its attempts.
AcceptedOnce ==
  \A r \in Rows : accepted[r] <= IF Hook(r) THEN MaxAttempts ELSE 1

\* What a row says happened did: "sent" was accepted, and a mail or push row
\* that was accepted is never called failed, cancelled or empty, nor offered
\* again.  A refused push may have been accepted, for the status that says so
\* proves nothing; it is not offered again either.
MayBeTaken ==
  {"sending", "sent", "uncertain", "gone"} \union (IF table = "push" THEN {"refused"} ELSE {})
OutcomeIsTrue ==
  \A r \in Rows :
    /\ state[r] = "sent" => accepted[r] > 0
    /\ accepted[r] > 0 /\ ~Hook(r) => state[r] \in MayBeTaken

\* A row that waits has an attempt left, so that a claim looks at it once it is
\* ripe: no path leaves it waiting with its attempts used up.  It says nothing
\* of a row left sending by a crash, which recovery (Begin) finds by its age.
NothingStranded ==
  \A r \in Rows : state[r] \in Waiting => table = "push" \/ attempts[r] < MaxAttempts

\* The step that hands w's row to a transport.
HandsOver(w) == work[w].at \in {"claimed", "checked"} /\ work'[w].at = "out"

\* Mail admitted before an opt-out, and a notification for a removed device,
\* is never handed to a transport afterwards, although the recipient opts in
\* again or registers again.  Alert mail is exempt: its opt-out is not atomic
\* and finish may carry a row past it.
OldStaysOld ==
  \A w \in Workers : HandsOver(w) => work[w].row \notin fenced \/ table = "alert"
NoLateSend == [][OldStaysOld]_vars
=============================================================================
