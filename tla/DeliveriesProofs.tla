-------------------------- MODULE DeliveriesProofs --------------------------
(***************************************************************************)
(* The safety properties of Deliveries, for any number of rows, dispatchers *)
(* and attempts.  A step is a quiet one, which parks rows and drops         *)
(* workers, or one of nine that advance a row (lemma Steps); each part of   *)
(* the inductive invariant is shown from that.                              *)
(***************************************************************************)
EXTENDS Deliveries, TLAPS

Busy(w) == work[w].at \notin {"idle", "ready"}

\* A busy dispatcher holds the lease of a row that is under way, was given up
\* or is gone; so no two are busy on one row.
BusyRows ==
  \A w \in Workers : Busy(w) =>
    /\ work[w].row \in Rows
    /\ lease[work[w].row] = w
    /\ state[work[w].row] \in {"sending", "uncertain", "gone"}
    /\ table # "push" => attempts[work[w].row] > 0

\* What a dispatcher was told agrees with what the transport did.
Untaken(r) == accepted[r] = 0 /\ r \notin orphans
Before == {"claimed", "checked", "out"}
NotTaken == Before \union {"retryable", "unavailable", "expired"}
ToldTrue ==
  \A w \in Workers : Busy(w) =>
    /\ work[w].at = "sent" => accepted[work[w].row] > 0
    /\ work[w].at \in NotTaken /\ ~Hook(work[w].row) => Untaken(work[w].row)
    /\ table = "push" => work[w].at \notin {"retryable", "unavailable"}
    /\ work[w].at = "refused" => table = "push"

\* A mail or push row has one message at most with the transport, and none
\* when its state rules it out.
OneMessage ==
  \A r \in Rows : ~Hook(r) =>
    /\ accepted[r] <= 1
    /\ accepted[r] > 0 => r \notin orphans
    /\ Untaken(r) \/ state[r] \in MayBeTaken

\* A webhook's messages, with the one that may follow, are within its attempts.
Pending(r) == \E w \in Workers : work[w].at \in Before /\ work[w].row = r
Due(p) == IF p THEN 1 ELSE 0
HookAttempts ==
  \A r \in Rows : Hook(r) => accepted[r] + Due(r \in orphans) + Due(Pending(r)) <= attempts[r]

SentWasTaken == \A r \in Rows : state[r] = "sent" => accepted[r] > 0

\* A row that waits, or will, has an attempt left.
AttemptLeft ==
  \A r \in Rows : state[r] \in Waiting \union {"none"} =>
    table = "push" \/ attempts[r] < MaxAttempts

FencedIsOver == table # "alert" => \A r \in fenced : state[r] \in Settled

DeliveriesInv ==
  /\ DeliveriesTypeOK /\ BusyRows /\ ToldTrue /\ OneMessage /\ HookAttempts
  /\ SentWasTaken /\ AttemptLeft /\ FencedIsOver

-----------------------------------------------------------------------------
\* What opt-outs, recovery, retention and removed devices do to a row's state.
Parks(s, t) ==
  \/ t = s
  \/ s \in Waiting /\ t = "cancelled"
  \/ s = "sending" /\ t = "uncertain"
  \/ s # "none" /\ t = "gone"

Quiet ==
  /\ \A r \in Rows : Parks(state[r], state'[r])
  /\ \A w \in Workers : work'[w] = work[w] \/ work'[w].at \in {"idle", "ready"}
  /\ UNCHANGED <<attempts, lease, accepted, orphans>>
  /\ table # "alert" => \A r \in fenced' \ fenced : state'[r] \in Settled

\* A dispatcher that owns its row moves it on towards the transport.
Forward(w) ==
  /\ work[w].at \in {"claimed", "checked"} /\ Owned(w)
  /\ \/ \E a \in {"checked", "out"} : work' = [work EXCEPT ![w] = On(w, a)]
     \/ ByMail(work[w].row) /\ work' = [work EXCEPT ![w] = On(w, "unavailable")]
  /\ UNCHANGED <<state, attempts, lease, accepted, orphans, fenced>>

CrashOut(w) ==
  /\ work[w].at = "out"
  /\ work' = [work EXCEPT ![w] = Idle]
  /\ orphans' = orphans \union {work[w].row}
  /\ UNCHANGED <<state, attempts, lease, accepted, fenced>>

\* Every step keeps the table and is quiet, or one that advances a row.
LEMMA Steps ==
  ASSUME DeliveriesTypeOK, BusyRows, [Next]_vars
  PROVE  /\ table' = table
         /\ \/ Quiet
            \/ \E r \in Rows : Queue(r) \/ Land(r)
            \/ \E w \in Workers : \/ Claim(w) \/ Unreadable(w) \/ Forward(w) \/ Refuse(w)
                                  \/ Answer(w) \/ Finish(w) \/ CrashOut(w)
<1> USE DEF Parks, Waiting, Settled, Live
<1>0. /\ state \in [Rows -> Live \union Settled \union {"none"}]
      /\ DOMAIN work = Workers
      /\ work = [w \in Workers |-> work[w]]
      /\ fenced \subseteq Rows
  BY DEF DeliveriesTypeOK
<1>1. CASE UNCHANGED vars
  BY <1>1 DEF vars, outbox, choices, transport, Quiet
<1>2. ASSUME NEW w \in Workers, Begin(w) PROVE Quiet /\ table' = table
  BY <1>0, <1>2 DEF Begin, Interrupted, Quiet, choices, transport, Ready
<1>3. ASSUME NEW w \in Workers, Rest(w) PROVE Quiet /\ table' = table
  BY <1>0, <1>3 DEF Rest, Quiet, outbox, choices, transport, Idle
<1>4. ASSUME NEW w \in Workers, Check(w) PROVE (Quiet \/ Forward(w)) /\ table' = table
  BY <1>0, <1>4 DEF Check, Forward, Quiet, outbox, choices, transport, Ready
<1>5. ASSUME NEW w \in Workers, Release(w) PROVE (Quiet \/ Forward(w)) /\ table' = table
  <2>1. work[w].at \in {"claimed", "checked"} /\ table' = table
    BY <1>5 DEF Release, AtPrepare
  <2>2. UNCHANGED <<state, attempts, lease, accepted, orphans, fenced>>
    BY <1>5 DEF Release, transport
  <2>3. CASE Owned(w)
    BY <1>5, <2>1, <2>2, <2>3 DEF Release, Forward
  <2>4. CASE ~Owned(w)
    <3>1. work' = [work EXCEPT ![w] = Ready]
      BY <1>5, <2>4 DEF Release
    <3> QED
      BY <1>0, <2>1, <2>2, <3>1 DEF Quiet, Ready
  <2> QED
    BY <2>3, <2>4
<1>6. ASSUME NEW w \in Workers, Evict(w) PROVE Quiet /\ table' = table
  BY <1>0, <1>6 DEF Evict, Removed, Present, Quiet, transport, Ready
<1>7. ASSUME NEW w \in Workers, FinishExpired(w) PROVE Quiet /\ table' = table
  <2>1. CASE state[work[w].row] = "gone"
    BY <1>0, <1>7, <2>1 DEF FinishExpired, Quiet, transport, Ready
  <2>2. CASE state[work[w].row] # "gone"
    BY <1>0, <1>7, <2>2 DEF FinishExpired, Removed, Present, Quiet, transport, Ready
  <2> QED
    BY <2>1, <2>2
<1>8. ASSUME NEW w \in Workers, Crash(w) PROVE (Quiet \/ CrashOut(w)) /\ table' = table
  BY <1>0, <1>8 DEF Crash, CrashOut, Quiet, outbox, choices, Idle
<1>9. CASE OptOut \/ OptOutOne
  BY <1>0, <1>9 DEF OptOut, OptOutOne, Cancelled, Stop, LiveRows, Quiet, transport
<1>10. CASE OptOutAlerts
  BY <1>0, <1>10 DEF OptOutAlerts, Quiet, outbox, transport
<1>11. CASE CancelAlerts
  BY <1>0, <1>11 DEF CancelAlerts, Stop, Quiet, transport
<1>12. CASE RemoveDevice
  BY <1>0, <1>12 DEF RemoveDevice, Removed, Present, Quiet, transport
<1>13. ASSUME NEW r \in Rows, Prune(r) PROVE Quiet /\ table' = table
  BY <1>0, <1>13 DEF Prune, Quiet, transport
<1>14. ASSUME NEW r \in Rows, Ripen(r) PROVE Quiet /\ table' = table
  BY <1>0, <1>14 DEF Ripen, Quiet, transport
<1>15. CASE OptIn \/ OptInOne \/ Configure
  BY <1>0, <1>15 DEF OptIn, OptInOne, Configure, Quiet, outbox, transport
<1>16. ASSUME NEW w \in Workers, Claim(w) \/ Unreadable(w) \/ Refuse(w) \/ Answer(w) \/ Finish(w)
       PROVE  table' = table
  BY <1>16 DEF Claim, Unreadable, Refuse, Answer, Finish
<1>17. ASSUME NEW r \in Rows, Queue(r) \/ Land(r)
       PROVE  table' = table
  BY <1>17 DEF Queue, Land
<1> QED
  BY <1>1, <1>2, <1>3, <1>4, <1>5, <1>6, <1>7, <1>8, <1>9, <1>10, <1>11, <1>12, <1>13, <1>14,
     <1>15, <1>16, <1>17 DEF Next, Dispatch, OptOut, OptOutOne, OptOutAlerts, CancelAlerts,
     RemoveDevice, OptIn, OptInOne, Configure

-----------------------------------------------------------------------------
\* Facts about one dispatcher's step.

\* Two busy dispatchers are on different rows.
LEMMA Apart ==
  ASSUME BusyRows, NEW v \in Workers, NEW w \in Workers, Busy(v), Busy(w),
         work[v].row = work[w].row
  PROVE  v = w
  BY DEF BusyRows

LEMMA BusyStep ==
  ASSUME DeliveriesTypeOK, BusyRows, [Next]_vars
  PROVE  BusyRows'
<1> SUFFICES ASSUME NEW v \in Workers, Busy(v)'
             PROVE  /\ work'[v].row \in Rows
                    /\ lease'[work'[v].row] = v
                    /\ state'[work'[v].row] \in {"sending", "uncertain", "gone"}
                    /\ table # "push" => attempts'[work'[v].row] > 0
  BY Steps DEF BusyRows
<1> USE DEF Busy, Idle, Ready
<1>0. /\ state \in [Rows -> Live \union Settled \union {"none"}]
      /\ attempts \in [Rows -> 0 .. MaxAttempts] /\ MaxAttempts \in Nat
      /\ lease \in [Rows -> Workers \union {Nobody}]
      /\ DOMAIN work = Workers
      /\ \A w \in Workers : work[w].row \in Rows \union {0}
  BY DeliveriesAssumption DEF DeliveriesTypeOK
<1>1. CASE Quiet
  <2>1. work'[v] = work[v] /\ Busy(v)
    BY <1>1 DEF Quiet
  <2> QED
    BY <1>0, <1>1, <2>1 DEF Quiet, BusyRows, Parks, Waiting
<1>2. ASSUME NEW r \in Rows, Queue(r) \/ Land(r)
      PROVE  /\ UNCHANGED <<work, attempts, lease>>
             /\ \A q \in Rows : state[q] # "none" => state'[q] = state[q]
  BY <1>0, <1>2 DEF Queue, Land, outbox
<1>3. ASSUME NEW w \in Workers, Claim(w)
      PROVE  /\ work'[v].row \in Rows
             /\ lease'[work'[v].row] = v
             /\ state'[work'[v].row] \in {"sending", "uncertain", "gone"}
             /\ table # "push" => attempts'[work'[v].row] > 0
  <2>1. PICK r \in Rows :
          /\ state[r] \in Waiting
          /\ work' = [work EXCEPT ![w] = [at |-> "claimed", row |-> r]]
          /\ state' = [state EXCEPT ![r] = "sending"]
          /\ attempts' = [attempts EXCEPT ![r] = IF table = "push" THEN @ ELSE @ + 1]
          /\ lease' = [lease EXCEPT ![r] = w]
    BY <1>3 DEF Claim, Eligible, RipeRows, PendingRows, Waiting
  <2>2. CASE v = w
    BY <1>0, <2>1, <2>2
  <2>3. CASE v # w
    <3>1. work'[v] = work[v] /\ Busy(v) /\ work[v].row # r
      BY <1>0, <2>1, <2>3 DEF BusyRows, Waiting
    <3> QED
      BY <1>0, <2>1, <3>1 DEF BusyRows
  <2> QED
    BY <2>2, <2>3
<1>4. ASSUME NEW w \in Workers, Unreadable(w) \/ Refuse(w) \/ Finish(w)
      PROVE  /\ work'[v].row \in Rows
             /\ lease'[work'[v].row] = v
             /\ state'[work'[v].row] \in {"sending", "uncertain", "gone"}
             /\ table # "push" => attempts'[work'[v].row] > 0
  <2>0. work' = [work EXCEPT ![w] = Idle] \/ work' = [work EXCEPT ![w] = Ready]
    BY <1>4 DEF Unreadable, Refuse, Finish
  <2>1. v # w /\ work'[v] = work[v] /\ Busy(v)
    BY <1>0, <2>0
  <2>2. CASE Unreadable(w)
    <3>1. PICK r \in Rows :
            /\ state[r] \in Waiting
            /\ state' = [state EXCEPT ![r] = "refused"]
            /\ lease' = [lease EXCEPT ![r] = w]
            /\ attempts' = attempts
      BY <2>2 DEF Unreadable, Eligible, RipeRows, PendingRows, Waiting
    <3>2. work[v].row # r
      BY <2>1, <3>1 DEF BusyRows, Waiting
    <3> QED
      BY <1>0, <2>1, <3>1, <3>2 DEF BusyRows
  <2>3. CASE Refuse(w) \/ Finish(w)
    <3>1. Busy(w)
      BY <2>3 DEF Refuse, Finish, AtPrepare, Outcomes
    <3>2. work[v].row # work[w].row
      BY <2>1, <3>1, Apart
    <3>3. lease' = lease /\ \A q \in Rows \ {work[w].row} :
            state'[q] = state[q] /\ attempts'[q] = attempts[q]
      BY <1>0, <2>3 DEF Refuse, Finish
    <3> QED
      BY <2>1, <3>2, <3>3 DEF BusyRows
  <2> QED
    BY <1>4, <2>2, <2>3
<1>5. ASSUME NEW w \in Workers, Forward(w) \/ Answer(w) \/ CrashOut(w)
      PROVE  /\ UNCHANGED <<state, attempts, lease>>
             /\ Busy(v) /\ work'[v].row = work[v].row
  BY <1>0, <1>5 DEF Forward, Answer, CrashOut, On, outbox
<1> QED
  BY <1>1, <1>2, <1>3, <1>4, <1>5, Steps DEF BusyRows

\* What finish writes for each outcome.
LEMMA ResultIs ==
  ASSUME table \in Tables, NEW r, NEW o \in Outcomes \ {"expired"},
         table = "push" => o # "retryable"
  PROVE  /\ o \in {"sent", "uncertain", "refused"} => Result(r, o) = o
         /\ o = "retryable" => Result(r, o) = AfterRefusal(r)
         /\ o = "unavailable" =>
              \/ Result(r, o) = "unavailable" /\ (table # "alert" \/ attempts[r] < MaxAttempts)
              \/ Result(r, o) = "failed"
<1>1. o \in {"sent", "retryable", "unavailable", "uncertain", "refused"}
  BY DEF Outcomes
<1>2. CASE table = "edition"
  <2>1. Result(r, o) = EditionResult(r, o)
    BY <1>2 DEF Result
  <2> QED
    BY <1>1, <1>2, <2>1 DEF EditionResult
<1>3. CASE table = "digest"
  <2>1. Result(r, o) = DigestResult(r, o)
    BY <1>3 DEF Result
  <2> QED
    BY <1>1, <1>3, <2>1 DEF DigestResult
<1>4. CASE table = "alert"
  <2>1. Result(r, o) = AlertResult(r, o)
    BY <1>4 DEF Result
  <2>2. o = "retryable" => AlertResult(r, o) = AfterRefusal(r)
    BY DEF AlertResult
  <2>3. o = "unavailable" =>
          AlertResult(r, o) = IF attempts[r] < MaxAttempts THEN "unavailable" ELSE "failed"
    BY DEF AlertResult
  <2>4. o \in {"sent", "uncertain", "refused"} => AlertResult(r, o) = o
    BY DEF AlertResult
  <2> QED
    BY <1>1, <1>4, <2>1, <2>2, <2>3, <2>4
<1>5. CASE table = "push"
  <2>1. Result(r, o) = PushResult(o)
    BY <1>5 DEF Result
  <2> QED
    BY <1>1, <1>5, <2>1 DEF PushResult
<1> QED
  BY <1>2, <1>3, <1>4, <1>5 DEF Tables

\* What each advancing step does to its row, in the invariant's terms.
LEMMA ClaimDoes ==
  ASSUME DeliveriesTypeOK, NEW w \in Workers, Claim(w)
  PROVE  \E r \in Rows :
           /\ state[r] \in Waiting
           /\ work' = [work EXCEPT ![w] = [at |-> "claimed", row |-> r]]
           /\ state' = [state EXCEPT ![r] = "sending"]
           /\ attempts' = [attempts EXCEPT ![r] = IF table = "push" THEN @ ELSE @ + 1]
           /\ table # "push" => attempts[r] < MaxAttempts
           /\ UNCHANGED <<accepted, orphans, fenced>>
  BY DEF Claim, Eligible, RipeRows, PendingRows, Waiting, transport

LEMMA UnreadableDoes ==
  ASSUME DeliveriesTypeOK, NEW w \in Workers, Unreadable(w)
  PROVE  \E r \in Rows :
           /\ state[r] \in Waiting /\ table = "push"
           /\ work[w] = Ready
           /\ work' = [work EXCEPT ![w] = Idle]
           /\ state' = [state EXCEPT ![r] = "refused"]
           /\ UNCHANGED <<attempts, accepted, orphans, fenced>>
  BY DEF Unreadable, Eligible, RipeRows, PendingRows, Waiting, transport

LEMMA FinishDoes ==
  ASSUME DeliveriesTypeOK, BusyRows, ToldTrue, NEW w \in Workers, Finish(w)
  PROVE  LET r == work[w].row
             o == work[w].at
         IN  /\ r \in Rows /\ Busy(w) /\ o \in Outcomes \ {"expired"}
             /\ work' = [work EXCEPT ![w] = Ready]
             /\ UNCHANGED <<accepted, orphans, fenced>>
             /\ \A q \in Rows \ {r} : state'[q] = state[q] /\ attempts'[q] = attempts[q]
             /\ ~Owned(w) => state'[r] = state[r] /\ attempts'[r] = attempts[r]
             /\ Owned(w) =>
                  /\ state[r] = "sending"
                  /\ o \in {"sent", "uncertain", "refused"} => state'[r] = o
                  /\ o = "retryable" => state'[r] = AfterRefusal(r)
                  /\ o = "unavailable" =>
                       \/ /\ state'[r] = "unavailable"
                          /\ table # "alert" \/ attempts[r] < MaxAttempts
                       \/ state'[r] = "failed"
                  /\ attempts'[r] = IF o = "unavailable" /\ table # "alert"
                                    THEN attempts[r] - 1 ELSE attempts[r]
<1> DEFINE r == work[w].row
           o == work[w].at
<1>1. o \in Outcomes \ {"expired"} /\ Busy(w)
  BY DEF Finish, Busy, Outcomes
<1>2. r \in Rows
  BY <1>1 DEF BusyRows
<1>3. /\ state' = [state EXCEPT ![r] = IF Owned(w) THEN Result(r, o) ELSE @]
      /\ attempts' = [attempts EXCEPT ![r] =
          IF Owned(w) /\ o = "unavailable" /\ table # "alert" THEN @ - 1 ELSE @]
      /\ work' = [work EXCEPT ![w] = Ready]
      /\ UNCHANGED <<accepted, orphans, fenced>>
  BY DEF Finish, transport
<1>4. /\ o \in {"sent", "uncertain", "refused"} => Result(r, o) = o
      /\ o = "retryable" => Result(r, o) = AfterRefusal(r)
      /\ o = "unavailable" =>
              \/ Result(r, o) = "unavailable" /\ (table # "alert" \/ attempts[r] < MaxAttempts)
              \/ Result(r, o) = "failed"
  <2>1. table \in Tables /\ (table = "push" => o # "retryable")
    BY <1>1 DEF DeliveriesTypeOK, ToldTrue
  <2> QED
    BY <1>1, <2>1, ResultIs
<1>5. /\ state \in [Rows -> Live \union Settled \union {"none"}]
      /\ attempts \in [Rows -> 0 .. MaxAttempts]
  BY DEF DeliveriesTypeOK
<1> HIDE DEF r, o
<1>6. /\ \A q \in Rows \ {r} : state'[q] = state[q] /\ attempts'[q] = attempts[q]
      /\ state'[r] = IF Owned(w) THEN Result(r, o) ELSE state[r]
      /\ attempts'[r] = IF Owned(w) /\ o = "unavailable" /\ table # "alert"
                        THEN attempts[r] - 1 ELSE attempts[r]
  BY <1>2, <1>3, <1>5
<1>7. Owned(w) => state[r] = "sending"
  BY DEF Owned, r
<1> QED
  BY <1>1, <1>2, <1>3, <1>4, <1>6, <1>7 DEF r, o

\* A refusal at prepare.
LEMMA RefuseDoes ==
  ASSUME DeliveriesTypeOK, BusyRows, NEW w \in Workers, Refuse(w)
  PROVE  LET r == work[w].row
         IN  /\ r \in Rows /\ Busy(w) /\ work[w].at \in {"claimed", "checked"}
             /\ work' = [work EXCEPT ![w] = Ready]
             /\ \A q \in Rows \ {r} : state'[q] = state[q]
             /\ state'[r] \in {"cancelled", "empty", state[r]}
             /\ UNCHANGED <<attempts, accepted, orphans, fenced>>
<1> DEFINE r == work[w].row
<1>1. work[w].at \in {"claimed", "checked"} /\ Busy(w)
  BY DEF Refuse, AtPrepare, Busy
<1>2. r \in Rows
  BY <1>1 DEF BusyRows
<1>3. PICK s \in {"cancelled", "empty"} :
        state' = [state EXCEPT ![r] = IF table = "edition" \/ Owned(w) THEN s ELSE @]
  BY DEF Refuse
<1>4. work' = [work EXCEPT ![w] = Ready] /\ UNCHANGED <<attempts, accepted, orphans, fenced>>
  BY DEF Refuse, transport
<1>5. state \in [Rows -> Live \union Settled \union {"none"}]
  BY DEF DeliveriesTypeOK
<1> QED
  BY <1>1, <1>2, <1>3, <1>4, <1>5

\* A transport's report.
LEMMA AnswerDoes ==
  ASSUME DeliveriesTypeOK, BusyRows, NEW w \in Workers, Answer(w)
  PROVE  LET r == work[w].row
         IN  /\ r \in Rows /\ Busy(w) /\ work[w].at = "out"
             /\ UNCHANGED <<state, attempts, fenced>>
             /\ \E o \in Outcomes, n \in {0, 1} :
                  /\ work' = [work EXCEPT ![w] = On(w, o)]
                  /\ accepted' = [accepted EXCEPT ![r] = @ + n]
                  /\ orphans' = IF o = "uncertain" THEN orphans \union {r} ELSE orphans
                  /\ o = "sent" => n = 1
                  /\ o = "uncertain" => n = 0
                  /\ o \notin {"sent", "refused"} /\ ~Hook(r) => n = 0
                  /\ o = "refused" => table = "push"
                  /\ table = "push" => o \notin {"retryable", "unavailable"}
<1> DEFINE r == work[w].row
<1>1. work[w].at = "out" /\ Busy(w)
  BY DEF Answer, Busy
<1>2. r \in Rows
  BY <1>1 DEF BusyRows
<1>3. PICK report \in Reports(r) :
          /\ work' = [work EXCEPT ![w] = On(w, report[1])]
          /\ accepted' = [accepted EXCEPT ![r] = @ + report[2]]
          /\ orphans' = IF report[1] = "uncertain" THEN orphans \union {r} ELSE orphans
  BY DEF Answer
<1>4. /\ report[1] \in Outcomes /\ report[2] \in {0, 1}
      /\ report[1] = "sent" => report[2] = 1
      /\ report[1] = "uncertain" => report[2] = 0
      /\ report[1] \notin {"sent", "refused"} /\ ~Hook(r) => report[2] = 0
      /\ report[1] = "refused" => table = "push"
      /\ table = "push" => report[1] \notin {"retryable", "unavailable"}
  <2> HIDE DEF r
  <2>1. CASE table = "push"
    BY <2>1 DEF Reports, PushReports, Outcomes
  <2>2. CASE table # "push" /\ Hook(r)
    BY <2>2 DEF Reports, HookReports, MailReports, Outcomes
  <2>3. CASE table # "push" /\ ~Hook(r)
    BY <2>3 DEF Reports, MailReports, Outcomes
  <2> QED
    BY <2>1, <2>2, <2>3
<1>5. UNCHANGED <<state, attempts, fenced>>
  BY DEF Answer, outbox
<1> QED
  BY <1>1, <1>2, <1>3, <1>4, <1>5

-----------------------------------------------------------------------------
LEMMA ToldStep ==
  ASSUME DeliveriesInv, [Next]_vars
  PROVE  ToldTrue'
<1>0. /\ DeliveriesTypeOK /\ BusyRows /\ ToldTrue /\ OneMessage
      /\ accepted \in [Rows -> Nat] /\ DOMAIN work = Workers /\ table' = table
      /\ BusyRows'
  BY BusyStep, Steps DEF DeliveriesInv, DeliveriesTypeOK
<1> DEFINE Told(v, r) ==
      /\ work'[v].at = "sent" => accepted'[r] > 0
      /\ work'[v].at \in NotTaken /\ ~Hook(r) => accepted'[r] = 0 /\ r \notin orphans'
      /\ table = "push" => work'[v].at \notin {"retryable", "unavailable"}
      /\ work'[v].at = "refused" => table = "push"
<1> SUFFICES ASSUME NEW v \in Workers, Busy(v)'
             PROVE  Told(v, work'[v].row)
  BY <1>0 DEF ToldTrue, Hook, Untaken
<1> USE DEF Idle, Ready
\* a dispatcher that stays where it was, on a row whose transport is not concerned
<1>1. ASSUME work'[v] = work[v],
             LET r == work[v].row IN
               accepted'[r] = accepted[r] /\ (r \in orphans' => r \in orphans)
      PROVE  Told(v, work'[v].row)
  BY <1>0, <1>1 DEF ToldTrue, Busy, Untaken
<1>2. CASE Quiet
  BY <1>0, <1>1, <1>2 DEF Quiet, Busy
<1>3. ASSUME NEW r \in Rows, Queue(r)
      PROVE  UNCHANGED <<work, accepted, orphans>>
  BY <1>3 DEF Queue, transport
<1>4. ASSUME NEW r \in Rows, Land(r)
      PROVE  /\ work' = work /\ r \in orphans /\ orphans' = orphans \ {r}
             /\ accepted' = [accepted EXCEPT ![r] = @ + 1]
  BY <1>4 DEF Land
<1>5. ASSUME NEW r \in Rows, Land(r)
      PROVE  Told(v, work'[v].row)
  BY <1>0, <1>4, <1>5 DEF ToldTrue, Busy, Untaken, BusyRows
<1>6. ASSUME NEW w \in Workers, Claim(w)
      PROVE  Told(v, work'[v].row)
  <2>1. PICK r \in Rows :
           /\ state[r] \in Waiting
           /\ work' = [work EXCEPT ![w] = [at |-> "claimed", row |-> r]]
           /\ UNCHANGED <<accepted, orphans>>
    BY <1>0, <1>6, ClaimDoes
  <2>2. CASE v = w
    BY <1>0, <2>1, <2>2 DEF OneMessage, Untaken, Waiting, MayBeTaken
  <2>3. CASE v # w
    BY <1>0, <1>1, <2>1, <2>3
  <2> QED
    BY <2>2, <2>3
<1>7. ASSUME NEW w \in Workers, Unreadable(w) \/ Refuse(w) \/ Finish(w)
      PROVE  work'[v] = work[v] /\ UNCHANGED <<accepted, orphans>>
  <2>1. /\ work' = [work EXCEPT ![w] = Idle] \/ work' = [work EXCEPT ![w] = Ready]
        /\ UNCHANGED <<accepted, orphans>>
    BY <1>7 DEF Unreadable, Refuse, Finish, transport
  <2> QED
    BY <1>0, <2>1 DEF Busy
<1>8. ASSUME NEW w \in Workers, Forward(w)
      PROVE  Told(v, work'[v].row)
  <2>1. /\ work[w].at \in {"claimed", "checked"} /\ UNCHANGED <<accepted, orphans>>
        /\ \E a \in {"checked", "out", "unavailable"} :
             work' = [work EXCEPT ![w] = On(w, a)] /\ (a = "unavailable" => table # "push")
    BY <1>8 DEF Forward, ByMail
  <2>2. CASE v = w
    BY <1>0, <2>1, <2>2 DEF ToldTrue, On, Busy, NotTaken, Before, Untaken
  <2>3. CASE v # w
    BY <1>0, <1>1, <2>1, <2>3
  <2> QED
    BY <2>2, <2>3
<1>9. ASSUME NEW w \in Workers, Answer(w)
      PROVE  Told(v, work'[v].row)
  <2> DEFINE r == work[w].row
  <2>1. r \in Rows /\ Busy(w) /\ work[w].at = "out"
    BY <1>0, <1>9, AnswerDoes
  <2>2. PICK o \in Outcomes, n \in {0, 1} :
                  /\ work' = [work EXCEPT ![w] = On(w, o)]
                  /\ accepted' = [accepted EXCEPT ![r] = @ + n]
                  /\ orphans' = IF o = "uncertain" THEN orphans \union {r} ELSE orphans
                  /\ o = "sent" => n = 1
                  /\ o \notin {"sent", "refused"} /\ ~Hook(r) => n = 0
                  /\ o = "refused" => table = "push"
                  /\ table = "push" => o \notin {"retryable", "unavailable"}
    BY <1>0, <1>9, AnswerDoes
  <2>3. CASE v = w
    <3>1. work'[v].at = o /\ work'[v].row = r
      BY <1>0, <2>2, <2>3 DEF On
    <3>2. ~Hook(r) => Untaken(r)
      BY <1>0, <2>1 DEF ToldTrue, NotTaken, Before
    <3> HIDE DEF r
    <3>3. accepted'[r] = accepted[r] + n
      BY <1>0, <2>1, <2>2
    <3>4. o = "sent" => accepted'[r] > 0
      BY <1>0, <2>1, <2>2, <3>3
    <3>5. o \in NotTaken => o \notin {"sent", "refused", "uncertain"}
      BY DEF NotTaken, Before
    <3>6. o \in NotTaken /\ ~Hook(r) => accepted'[r] = 0 /\ r \notin orphans'
      BY <2>2, <3>2, <3>3, <3>5 DEF Untaken
    <3> QED
      BY <2>2, <3>1, <3>4, <3>6
  <2>4. CASE v # w
    <3>1. work'[v] = work[v] /\ Busy(v)
      BY <1>0, <2>2, <2>4 DEF Busy
    <3>2. work[v].row # r /\ work[v].row \in Rows
      BY <1>0, <2>1, <2>4, <3>1, Apart DEF BusyRows
    <3> HIDE DEF r
    <3> QED
      BY <1>0, <1>1, <2>2, <3>1, <3>2
  <2> QED
    BY <2>3, <2>4
<1>10. ASSUME NEW w \in Workers, CrashOut(w)
       PROVE  Told(v, work'[v].row)
  <2>1. v # w /\ work'[v] = work[v] /\ Busy(v) /\ Busy(w)
    BY <1>0, <1>10 DEF CrashOut, Busy
  <2>2. work[v].row # work[w].row
    BY <1>0, <2>1, Apart
  <2> QED
    BY <1>1, <1>10, <2>1, <2>2 DEF CrashOut
<1>11. ASSUME work' = work, UNCHANGED <<accepted, orphans>>
       PROVE  Told(v, work'[v].row)
  BY <1>1, <1>11
<1> QED
  BY <1>0, <1>1, <1>2, <1>3, <1>5, <1>6, <1>7, <1>8, <1>9, <1>10, <1>11, Steps

LEMMA OneStep ==
  ASSUME DeliveriesInv, [Next]_vars
  PROVE  OneMessage'
<1>0. /\ DeliveriesTypeOK /\ BusyRows /\ ToldTrue /\ OneMessage
      /\ accepted \in [Rows -> Nat] /\ DOMAIN work = Workers /\ table' = table
      /\ state \in [Rows -> Live \union Settled \union {"none"}]
  BY Steps DEF DeliveriesInv, DeliveriesTypeOK
<1> SUFFICES ASSUME NEW q \in Rows, ~Hook(q)
             PROVE  /\ accepted'[q] <= 1
                    /\ accepted'[q] > 0 => q \notin orphans'
                    /\ Untaken(q)' \/ state'[q] \in MayBeTaken
  BY <1>0 DEF OneMessage, Hook, MayBeTaken
<1> DEFINE Goal == /\ accepted'[q] <= 1
                   /\ accepted'[q] > 0 => q \notin orphans'
                   /\ Untaken(q)' \/ state'[q] \in MayBeTaken
<1>1. /\ accepted[q] \in Nat /\ accepted[q] <= 1
      /\ accepted[q] > 0 => q \notin orphans
      /\ Untaken(q) \/ state[q] \in MayBeTaken
      /\ "gone" \in MayBeTaken /\ "uncertain" \in MayBeTaken /\ "sending" \in MayBeTaken
      /\ "sent" \in MayBeTaken /\ (table = "push" => "refused" \in MayBeTaken)
      /\ MayBeTaken \subseteq {"sending", "sent", "uncertain", "gone", "refused"}
  BY <1>0 DEF OneMessage, MayBeTaken
<1>2. CASE Quiet
  BY <1>1, <1>2 DEF Quiet, Parks, Waiting, Untaken
<1>3. ASSUME NEW r \in Rows, Queue(r) PROVE Goal
  BY <1>0, <1>1, <1>3 DEF Queue, transport, Untaken
<1>4. ASSUME NEW r \in Rows, Land(r) PROVE Goal
  BY <1>0, <1>1, <1>4 DEF Land, outbox, Untaken
<1>5. ASSUME NEW w \in Workers, Claim(w) PROVE Goal
  BY <1>0, <1>1, <1>5, ClaimDoes DEF Untaken
<1>6. ASSUME NEW w \in Workers, Unreadable(w) PROVE Goal
  BY <1>0, <1>1, <1>6, UnreadableDoes DEF Untaken, Waiting
<1>7. ASSUME NEW w \in Workers, Refuse(w) PROVE Goal
  <2>1. q = work[w].row => Untaken(q)
    BY <1>0, <1>7, RefuseDoes DEF ToldTrue, NotTaken, Before
  <2> QED
    BY <1>0, <1>1, <1>7, <2>1, RefuseDoes DEF Untaken
<1>8. ASSUME NEW w \in Workers, Finish(w) PROVE Goal
  <2>0. UNCHANGED <<accepted, orphans>>
    BY <1>0, <1>8, FinishDoes
  <2>1. CASE q # work[w].row \/ ~Owned(w)
    <3>1. state'[q] = state[q]
      BY <1>0, <1>8, <2>1, FinishDoes
    <3> QED
      BY <1>1, <2>0, <3>1 DEF Untaken
  <2>2. CASE q = work[w].row /\ work[w].at \in {"sent", "uncertain", "refused"} /\ Owned(w)
    <3>1. state'[q] = work[w].at /\ (work[w].at = "refused" => table = "push")
      BY <1>0, <1>8, <2>2, FinishDoes DEF ToldTrue
    <3> QED
      BY <1>1, <2>0, <2>2, <3>1 DEF Untaken
  <2>3. CASE q = work[w].row /\ work[w].at \notin {"sent", "uncertain", "refused"}
    <3>1. Untaken(q)
      BY <1>0, <1>8, <2>3, FinishDoes DEF ToldTrue, NotTaken, Before, Outcomes
    <3> QED
      BY <1>1, <2>0, <3>1 DEF Untaken
  <2> QED
    BY <2>1, <2>2, <2>3
<1>9. ASSUME NEW w \in Workers, Answer(w) PROVE Goal
  <2> DEFINE r == work[w].row
  <2>1. r \in Rows /\ Busy(w) /\ work[w].at = "out" /\ state' = state
    BY <1>0, <1>9, AnswerDoes
  <2>2. PICK o \in Outcomes, n \in {0, 1} :
                  /\ accepted' = [accepted EXCEPT ![r] = @ + n]
                  /\ orphans' = IF o = "uncertain" THEN orphans \union {r} ELSE orphans
                  /\ o = "uncertain" => n = 0
    BY <1>0, <1>9, AnswerDoes
  <2>3. CASE q = r
    <3>1. Untaken(r) /\ state[r] \in {"sending", "uncertain", "gone"}
      BY <1>0, <2>1, <2>3 DEF ToldTrue, NotTaken, Before, BusyRows
    <3> HIDE DEF r
    <3> QED
      BY <1>0, <1>1, <2>1, <2>2, <2>3, <3>1 DEF Untaken
  <2>4. CASE q # r
    <3> HIDE DEF r
    <3> QED
      BY <1>0, <1>1, <2>1, <2>2, <2>4 DEF Untaken
  <2> QED
    BY <2>3, <2>4
<1>10. ASSUME NEW w \in Workers, CrashOut(w) PROVE Goal
  <2>1. Busy(w)
    BY <1>10 DEF CrashOut, Busy
  <2>2. /\ work[w].row \in Rows /\ state[work[w].row] \in {"sending", "uncertain", "gone"}
        /\ ~Hook(work[w].row) => Untaken(work[w].row)
    BY <1>0, <1>10, <2>1 DEF CrashOut, BusyRows, ToldTrue, NotTaken, Before
  <2> QED
    BY <1>1, <1>10, <2>2 DEF CrashOut, Untaken
<1>11. ASSUME NEW w \in Workers, Forward(w) PROVE Goal
  BY <1>1, <1>11 DEF Forward, Untaken
<1> QED
  BY <1>0, <1>2, <1>3, <1>4, <1>5, <1>6, <1>7, <1>8, <1>9, <1>10, <1>11, Steps

LEMMA SentStep ==
  ASSUME DeliveriesInv, [Next]_vars
  PROVE  SentWasTaken'
<1>0. /\ DeliveriesTypeOK /\ BusyRows /\ ToldTrue /\ SentWasTaken
      /\ accepted \in [Rows -> Nat]
      /\ state \in [Rows -> Live \union Settled \union {"none"}]
  BY DEF DeliveriesInv, DeliveriesTypeOK
<1> SUFFICES ASSUME NEW q \in Rows, state'[q] = "sent"
             PROVE  accepted'[q] > 0
  BY DEF SentWasTaken
<1>1. state[q] = "sent" => accepted[q] > 0
  BY <1>0 DEF SentWasTaken
<1>2. CASE Quiet
  BY <1>1, <1>2 DEF Quiet, Parks
<1>3. ASSUME NEW r \in Rows, Queue(r) \/ Land(r) PROVE accepted'[q] > 0
  BY <1>0, <1>1, <1>3 DEF Queue, Land, transport, outbox
<1>4. ASSUME NEW w \in Workers, Claim(w) \/ Unreadable(w) PROVE accepted'[q] > 0
  BY <1>0, <1>1, <1>4, ClaimDoes, UnreadableDoes
<1>5. ASSUME NEW w \in Workers, Refuse(w) PROVE accepted'[q] > 0
  BY <1>0, <1>1, <1>5, RefuseDoes
<1>6. ASSUME NEW w \in Workers, Finish(w) PROVE accepted'[q] > 0
  <2>0. UNCHANGED <<accepted, orphans>>
    BY <1>0, <1>6, FinishDoes
  <2>1. CASE q # work[w].row \/ ~Owned(w)
    <3>1. state'[q] = state[q]
      BY <1>0, <1>6, <2>1, FinishDoes
    <3> QED
      BY <1>1, <2>0, <3>1
  <2>2. CASE q = work[w].row /\ Owned(w)
    <3>1. AfterRefusal(q) # "sent"
      BY DEF AfterRefusal
    <3>2. work[w].at = "sent" /\ Busy(w)
      BY <1>0, <1>6, <2>2, <3>1, FinishDoes DEF Outcomes
    <3> QED
      BY <1>0, <2>0, <2>2, <3>2 DEF ToldTrue
  <2> QED
    BY <2>1, <2>2
<1>7. ASSUME NEW w \in Workers, Answer(w) PROVE accepted'[q] > 0
  <2>1. work[w].row \in Rows /\ state' = state
    BY <1>0, <1>7, AnswerDoes
  <2>2. PICK n \in {0, 1} : accepted' = [accepted EXCEPT ![work[w].row] = @ + n]
    BY <1>0, <1>7, AnswerDoes
  <2> QED
    BY <1>0, <1>1, <2>1, <2>2
<1>8. ASSUME NEW w \in Workers, Forward(w) \/ CrashOut(w) PROVE accepted'[q] > 0
  BY <1>1, <1>8 DEF Forward, CrashOut
<1> QED
  BY <1>0, <1>2, <1>3, <1>4, <1>5, <1>6, <1>7, <1>8, Steps

LEMMA HookStep ==
  ASSUME DeliveriesInv, [Next]_vars
  PROVE  HookAttempts'
<1>0. /\ DeliveriesTypeOK /\ BusyRows /\ ToldTrue /\ HookAttempts
      /\ accepted \in [Rows -> Nat] /\ DOMAIN work = Workers /\ table' = table
      /\ attempts \in [Rows -> 0 .. MaxAttempts] /\ MaxAttempts \in Nat
  BY DeliveriesAssumption, Steps DEF DeliveriesInv, DeliveriesTypeOK
<1> SUFFICES ASSUME NEW q \in Rows, Hook(q)
             PROVE  accepted'[q] + Due(q \in orphans') + Due(Pending(q)') <= attempts'[q]
  BY <1>0 DEF HookAttempts, Hook, Due
<1> DEFINE Goal == accepted'[q] + Due(q \in orphans') + Due(Pending(q)') <= attempts'[q]
<1>1. /\ accepted[q] \in Nat /\ attempts[q] \in Nat /\ table = "alert"
      /\ accepted[q] + Due(q \in orphans) + Due(Pending(q)) <= attempts[q]
  BY <1>0 DEF HookAttempts, Hook
\* an attempt that ends, or none that begins
<1>2. ASSUME Pending(q)' => Pending(q), accepted'[q] = accepted[q], attempts'[q] = attempts[q],
             q \in orphans' => q \in orphans
      PROVE  Goal
  BY <1>1, <1>2 DEF Due
<1>3. CASE Quiet
  <2>1. Pending(q)' => Pending(q)
    BY <1>3 DEF Quiet, Pending, Before
  <2> QED
    BY <1>2, <1>3, <2>1 DEF Quiet
<1>4. ASSUME NEW r \in Rows, Queue(r) PROVE Goal
  BY <1>2, <1>4 DEF Queue, transport, Pending
<1>5. ASSUME NEW r \in Rows, Land(r) PROVE Goal
  <2>1. Pending(q)' <=> Pending(q)
    BY <1>5 DEF Land, Pending
  <2>2. r \in orphans /\ orphans' = orphans \ {r} /\ attempts' = attempts
        /\ accepted' = [accepted EXCEPT ![r] = @ + 1]
    BY <1>5 DEF Land, outbox
  <2>3. CASE r = q
    BY <1>0, <1>1, <2>1, <2>2, <2>3 DEF Due
  <2>4. CASE r # q
    BY <1>0, <1>2, <2>1, <2>2, <2>4
  <2> QED
    BY <2>3, <2>4
<1>6. ASSUME NEW w \in Workers, Claim(w) PROVE Goal
  <2>1. PICK r \in Rows :
           /\ work' = [work EXCEPT ![w] = [at |-> "claimed", row |-> r]]
           /\ attempts' = [attempts EXCEPT ![r] = IF table = "push" THEN @ ELSE @ + 1]
           /\ UNCHANGED <<accepted, orphans>>
    BY <1>0, <1>6, ClaimDoes
  <2>2. CASE r = q
    <3>1. attempts'[q] = attempts[q] + 1
      BY <1>0, <1>1, <2>1, <2>2
    <3> QED
      BY <1>1, <2>1, <3>1 DEF Due
  <2>3. CASE r # q
    <3>1. Pending(q)' => Pending(q)
      BY <1>0, <2>1, <2>3 DEF Pending
    <3> QED
      BY <1>0, <1>2, <2>1, <2>3, <3>1
  <2> QED
    BY <2>2, <2>3
<1>7. ASSUME NEW w \in Workers, Unreadable(w) \/ Refuse(w) \/ Finish(w) PROVE Goal
  <2>1. /\ work' = [work EXCEPT ![w] = Idle] \/ work' = [work EXCEPT ![w] = Ready]
        /\ UNCHANGED <<accepted, orphans>>
    BY <1>7 DEF Unreadable, Refuse, Finish, transport
  <2>2. Pending(q)' => Pending(q)
    BY <1>0, <2>1 DEF Pending, Before, Idle, Ready
  <2>3. attempts'[q] = attempts[q]
    BY <1>0, <1>1, <1>7 DEF Unreadable, Refuse, Finish
  <2> QED
    BY <1>2, <2>1, <2>2, <2>3
<1>8. ASSUME NEW w \in Workers, Forward(w) PROVE Goal
  <2>1. PICK a \in {"checked", "out", "unavailable"} : work' = [work EXCEPT ![w] = On(w, a)]
    BY <1>8 DEF Forward
  <2>2. Pending(q)' => Pending(q)
    BY <1>0, <1>8, <2>1 DEF Forward, Pending, Before, On
  <2> QED
    BY <1>2, <1>8, <2>2 DEF Forward
<1>9. ASSUME NEW w \in Workers, Answer(w) PROVE Goal
  <2> DEFINE r == work[w].row
  <2>1. r \in Rows /\ Busy(w) /\ work[w].at = "out" /\ attempts' = attempts
    BY <1>0, <1>9, AnswerDoes
  <2>2. PICK o \in Outcomes, n \in {0, 1} :
                  /\ work' = [work EXCEPT ![w] = On(w, o)]
                  /\ accepted' = [accepted EXCEPT ![r] = @ + n]
                  /\ orphans' = IF o = "uncertain" THEN orphans \union {r} ELSE orphans
                  /\ o = "uncertain" => n = 0
    BY <1>0, <1>9, AnswerDoes
  <2>3. Pending(q)' => Pending(q)
    BY <1>0, <2>2 DEF Pending, Before, On, Outcomes
  <2>4. CASE q = r
    <3>1. Pending(q)
      BY <2>1, <2>4 DEF Pending, Before
    <3>2. ~Pending(q)'
      <4> SUFFICES ASSUME NEW v \in Workers, work'[v].at \in Before, work'[v].row = q
                   PROVE  FALSE
        BY DEF Pending
      <4>1. v # w /\ work'[v] = work[v]
        BY <1>0, <2>2 DEF On, Before, Outcomes
      <4> QED
        BY <2>1, <2>4, <4>1, <1>0, Apart DEF Before, Busy
    <3> HIDE DEF r
    <3>3. accepted'[q] = accepted[q] + n
      BY <1>0, <2>1, <2>2, <2>4
    <3>4. Due(q \in orphans') + n <= Due(q \in orphans) + 1
      BY <2>2, <2>4 DEF Due
    <3>5. Due(q \in orphans) \in Nat /\ Due(q \in orphans') \in Nat
      BY DEF Due
    <3>6. Due(Pending(q)) = 1 /\ Due(Pending(q)') = 0
      BY <3>1, <3>2 DEF Due
    <3> QED
      BY <1>1, <2>1, <3>3, <3>4, <3>5, <3>6
  <2>5. CASE q # r
    <3> HIDE DEF r
    <3> QED
      BY <1>0, <1>2, <2>1, <2>2, <2>3, <2>5
  <2> QED
    BY <2>4, <2>5
<1>10. ASSUME NEW w \in Workers, CrashOut(w) PROVE Goal
  <2>1. /\ work[w].at = "out" /\ work' = [work EXCEPT ![w] = Idle] /\ Busy(w)
        /\ orphans' = orphans \union {work[w].row} /\ UNCHANGED <<accepted, attempts>>
    BY <1>10 DEF CrashOut, Busy
  <2>2. Pending(q)' => Pending(q)
    BY <1>0, <2>1 DEF Pending, Before, Idle
  <2>3. CASE q = work[w].row
    <3>1. Pending(q)
      BY <2>1, <2>3 DEF Pending, Before
    <3>2. ~Pending(q)'
      <4> SUFFICES ASSUME NEW v \in Workers, work'[v].at \in Before, work'[v].row = q
                   PROVE  FALSE
        BY DEF Pending
      <4>1. v # w /\ work'[v] = work[v]
        BY <1>0, <2>1 DEF Idle, Before
      <4> QED
        BY <2>1, <2>3, <4>1, <1>0, Apart DEF Before, Busy
    <3> QED
      BY <1>1, <2>1, <3>1, <3>2 DEF Due
  <2>4. CASE q # work[w].row
    BY <1>2, <2>1, <2>2, <2>4
  <2> QED
    BY <2>3, <2>4
<1> QED
  BY <1>0, <1>3, <1>4, <1>5, <1>6, <1>7, <1>8, <1>9, <1>10, Steps

LEMMA LeftStep ==
  ASSUME DeliveriesInv, [Next]_vars
  PROVE  AttemptLeft'
<1>0. /\ DeliveriesTypeOK /\ BusyRows /\ ToldTrue /\ AttemptLeft /\ table' = table
      /\ attempts \in [Rows -> 0 .. MaxAttempts] /\ MaxAttempts \in Nat
      /\ state \in [Rows -> Live \union Settled \union {"none"}]
  BY DeliveriesAssumption, Steps DEF DeliveriesInv, DeliveriesTypeOK
<1> SUFFICES ASSUME NEW q \in Rows, state'[q] \in Waiting \union {"none"}, table # "push"
             PROVE  attempts'[q] < MaxAttempts
  BY <1>0 DEF AttemptLeft
<1> USE DEF Waiting
<1>1. state[q] \in Waiting \union {"none"} => attempts[q] < MaxAttempts
  BY <1>0 DEF AttemptLeft
<1>2. CASE Quiet
  BY <1>1, <1>2 DEF Quiet, Parks
<1>3. ASSUME NEW r \in Rows, Queue(r) \/ Land(r) PROVE attempts'[q] < MaxAttempts
  BY <1>0, <1>1, <1>3 DEF Queue, Land, outbox
<1>4. ASSUME NEW w \in Workers, Claim(w) PROVE attempts'[q] < MaxAttempts
  BY <1>0, <1>1, <1>4, ClaimDoes
<1>5. ASSUME NEW w \in Workers, Refuse(w) PROVE attempts'[q] < MaxAttempts
  BY <1>0, <1>1, <1>5, RefuseDoes
<1>6. ASSUME NEW w \in Workers, Finish(w) PROVE attempts'[q] < MaxAttempts
  <2>1. CASE q # work[w].row \/ ~Owned(w)
    <3>1. state'[q] = state[q] /\ attempts'[q] = attempts[q]
      BY <1>0, <1>6, <2>1, FinishDoes
    <3> QED
      BY <1>1, <3>1
  <2>2. CASE q = work[w].row /\ Owned(w)
    <3>1. work[w].at \in {"retryable", "unavailable"}
      BY <1>0, <1>6, <2>2, FinishDoes DEF Outcomes
    <3>2. CASE work[w].at = "retryable"
      BY <1>0, <1>6, <2>2, <3>2, FinishDoes DEF AfterRefusal
    <3>3. CASE work[w].at = "unavailable"
      <4>1. /\ table # "alert" \/ attempts[q] < MaxAttempts
            /\ attempts'[q] = IF table # "alert" THEN attempts[q] - 1 ELSE attempts[q]
        BY <1>0, <1>6, <2>2, <3>3, FinishDoes
      <4> QED
        BY <1>0, <4>1
    <3> QED
      BY <3>1, <3>2, <3>3
  <2> QED
    BY <2>1, <2>2
<1>7. ASSUME NEW w \in Workers, Unreadable(w) \/ Answer(w) \/ Forward(w) \/ CrashOut(w)
      PROVE  attempts'[q] < MaxAttempts
  BY <1>0, <1>1, <1>7, UnreadableDoes, AnswerDoes DEF Forward, CrashOut
<1> QED
  BY <1>0, <1>2, <1>3, <1>4, <1>5, <1>6, <1>7, Steps

LEMMA FencedStep ==
  ASSUME DeliveriesInv, [Next]_vars
  PROVE  FencedIsOver'
<1>0. /\ DeliveriesTypeOK /\ BusyRows /\ ToldTrue /\ FencedIsOver /\ table' = table
      /\ fenced \subseteq Rows
      /\ state \in [Rows -> Live \union Settled \union {"none"}]
  BY Steps DEF DeliveriesInv, DeliveriesTypeOK
<1> SUFFICES ASSUME NEW q \in fenced', table # "alert"
             PROVE  state'[q] \in Settled
  BY <1>0 DEF FencedIsOver
<1> USE DEF Waiting, Settled
<1>1. q \in fenced => q \in Rows /\ state[q] \in Settled
  BY <1>0 DEF FencedIsOver
<1>2. CASE Quiet
  <2>1. CASE q \in fenced
    BY <1>1, <1>2, <2>1 DEF Quiet, Parks
  <2>2. CASE q \notin fenced
    BY <1>2, <2>2 DEF Quiet
  <2> QED
    BY <2>1, <2>2
<1>3. ASSUME NEW r \in Rows, Queue(r) \/ Land(r) PROVE state'[q] \in Settled
  BY <1>0, <1>1, <1>3 DEF Queue, Land, outbox
<1>4. ASSUME NEW w \in Workers, Claim(w) \/ Unreadable(w) PROVE state'[q] \in Settled
  BY <1>0, <1>1, <1>4, ClaimDoes, UnreadableDoes
<1>5. ASSUME NEW w \in Workers, Refuse(w) PROVE state'[q] \in Settled
  BY <1>0, <1>1, <1>5, RefuseDoes
<1>6. ASSUME NEW w \in Workers, Finish(w) PROVE state'[q] \in Settled
  <2>1. fenced' = fenced /\ (q # work[w].row \/ ~Owned(w))
    BY <1>0, <1>1, <1>6, FinishDoes
  <2> QED
    BY <1>0, <1>1, <1>6, <2>1, FinishDoes
<1>7. ASSUME NEW w \in Workers, Answer(w) \/ Forward(w) \/ CrashOut(w)
      PROVE  state'[q] \in Settled
  BY <1>0, <1>1, <1>7, AnswerDoes DEF Forward, CrashOut
<1> QED
  BY <1>0, <1>2, <1>3, <1>4, <1>5, <1>6, <1>7, Steps

-----------------------------------------------------------------------------
\* The type invariant.
RowStates == Live \union Settled \union {"none"}
Places == Outcomes \union {"idle", "ready", "claimed", "checked", "out"}

LEMMA TypeStep ==
  ASSUME DeliveriesInv, [Next]_vars
  PROVE  DeliveriesTypeOK'
<1>0. /\ DeliveriesTypeOK /\ BusyRows /\ ToldTrue /\ MaxAttempts \in Nat /\ N \in Nat
  BY DeliveriesAssumption DEF DeliveriesInv
<1>t. /\ table \in Tables
      /\ state \in [Rows -> RowStates]
      /\ attempts \in [Rows -> 0 .. MaxAttempts]
      /\ ripe \in [Rows -> BOOLEAN]
      /\ lease \in [Rows -> Workers \union {Nobody}]
      /\ mail \in BOOLEAN /\ chosen \in BOOLEAN /\ smtp \in BOOLEAN
      /\ cancelling \in 0 .. 3
      /\ work \in [Workers -> [at : Places, row : Rows \union {0}]]
      /\ accepted \in [Rows -> Nat]
      /\ orphans \subseteq Rows /\ fenced \subseteq Rows
  BY <1>0 DEF DeliveriesTypeOK, RowStates, Places
<1> USE DEF RowStates, Places, Outcomes, Live, Settled, Waiting
<1>g. DeliveriesTypeOK' <=>
      /\ table' \in Tables
      /\ state' \in [Rows -> RowStates]
      /\ attempts' \in [Rows -> 0 .. MaxAttempts]
      /\ ripe' \in [Rows -> BOOLEAN]
      /\ lease' \in [Rows -> Workers \union {Nobody}]
      /\ mail' \in BOOLEAN /\ chosen' \in BOOLEAN /\ smtp' \in BOOLEAN
      /\ cancelling' \in 0 .. 3
      /\ work' \in [Workers -> [at : Places, row : Rows \union {0}]]
      /\ accepted' \in [Rows -> Nat]
      /\ orphans' \subseteq Rows /\ fenced' \subseteq Rows
  BY DEF DeliveriesTypeOK
<1>1. ASSUME NEW w \in Workers, Begin(w) PROVE DeliveriesTypeOK'
  BY <1>0, <1>t, <1>g, <1>1 DEF Begin, Interrupted, Ready, choices, transport
<1>2. ASSUME NEW w \in Workers, Claim(w) PROVE DeliveriesTypeOK'
  <2>1. PICK r \in Rows :
           /\ work' = [work EXCEPT ![w] = [at |-> "claimed", row |-> r]]
           /\ state' = [state EXCEPT ![r] = "sending"]
           /\ attempts' = [attempts EXCEPT ![r] = IF table = "push" THEN @ ELSE @ + 1]
           /\ table # "push" => attempts[r] < MaxAttempts
           /\ ripe' = [ripe EXCEPT ![r] = FALSE]
           /\ lease' = [lease EXCEPT ![r] = w]
           /\ UNCHANGED <<table, choices, smtp, transport, fenced>>
    BY <1>2 DEF Claim, Eligible, RipeRows, PendingRows
  <2>2. attempts' \in [Rows -> 0 .. MaxAttempts]
    BY <1>0, <1>t, <2>1
  <2> QED
    BY <1>t, <1>g, <2>1, <2>2 DEF choices, transport
<1>3. ASSUME NEW w \in Workers, Unreadable(w) PROVE DeliveriesTypeOK'
  BY <1>0, <1>t, <1>g, <1>3 DEF Unreadable, Eligible, RipeRows, PendingRows, choices,
     transport, Idle
<1>4. ASSUME NEW w \in Workers, Rest(w) PROVE DeliveriesTypeOK'
  BY <1>0, <1>t, <1>g, <1>4 DEF Rest, outbox, choices, transport, Idle
<1>5. ASSUME NEW w \in Workers, Check(w) PROVE DeliveriesTypeOK'
  BY <1>0, <1>t, <1>g, <1>5 DEF Check, On, Ready, outbox, choices, transport
<1>6. ASSUME NEW w \in Workers, Release(w) PROVE DeliveriesTypeOK'
  BY <1>0, <1>t, <1>g, <1>6 DEF Release, On, Ready, choices, transport
<1>7. ASSUME NEW w \in Workers, Refuse(w) PROVE DeliveriesTypeOK'
  BY <1>0, <1>t, <1>g, <1>7 DEF Refuse, AtPrepare, Ready, choices, transport
<1>8. ASSUME NEW w \in Workers, Evict(w) PROVE DeliveriesTypeOK'
  BY <1>0, <1>t, <1>g, <1>8 DEF Evict, Removed, Present, Ready, transport
<1>9. ASSUME NEW w \in Workers, FinishExpired(w) PROVE DeliveriesTypeOK'
  BY <1>0, <1>t, <1>g, <1>9 DEF FinishExpired, Removed, Present, Ready, transport
<1>10. ASSUME NEW w \in Workers, Crash(w) PROVE DeliveriesTypeOK'
  <2>1. orphans' \subseteq Rows
    BY <1>0, <1>t, <1>10 DEF Crash, BusyRows, Busy
  <2>2. work' = [work EXCEPT ![w] = [at |-> "idle", row |-> 0]]
        /\ UNCHANGED <<table, outbox, choices, smtp, accepted, fenced>>
    BY <1>10 DEF Crash, Idle
  <2> QED
    BY <1>t, <1>g, <2>1, <2>2 DEF outbox, choices
<1>11. ASSUME NEW r \in Rows, Queue(r) PROVE DeliveriesTypeOK'
  BY <1>0, <1>t, <1>g, <1>11 DEF Queue, choices, transport
<1>12. ASSUME NEW r \in Rows, Land(r) PROVE DeliveriesTypeOK'
  BY <1>0, <1>t, <1>g, <1>12 DEF Land, outbox, choices
<1>13. ASSUME NEW r \in Rows, Prune(r) PROVE DeliveriesTypeOK'
  BY <1>0, <1>t, <1>g, <1>13 DEF Prune, choices, transport
<1>14. ASSUME NEW r \in Rows, Ripen(r) PROVE DeliveriesTypeOK'
  BY <1>0, <1>t, <1>g, <1>14 DEF Ripen, choices, transport
<1>15. CASE OptOut
  BY <1>0, <1>t, <1>g, <1>15 DEF OptOut, Cancelled, Stop, LiveRows, transport
<1>16. CASE OptOutOne
  BY <1>0, <1>t, <1>g, <1>16 DEF OptOutOne, Cancelled, Stop, LiveRows, transport
<1>17. CASE OptOutAlerts
  BY <1>0, <1>t, <1>g, <1>17 DEF OptOutAlerts, LiveRows, outbox, transport
<1>18. CASE CancelAlerts
  BY <1>0, <1>t, <1>g, <1>18 DEF CancelAlerts, Stop, transport
<1>19. CASE RemoveDevice
  BY <1>0, <1>t, <1>g, <1>19 DEF RemoveDevice, Removed, Present, transport
<1>20. CASE OptIn
  BY <1>0, <1>t, <1>g, <1>20 DEF OptIn, outbox, transport
<1>21. CASE OptInOne
  BY <1>0, <1>t, <1>g, <1>21 DEF OptInOne, outbox, transport
<1>22. CASE Configure
  BY <1>0, <1>t, <1>g, <1>22 DEF Configure, outbox, choices, transport
<1>23. CASE UNCHANGED vars
  BY <1>t, <1>g, <1>23 DEF vars, outbox, choices, transport
<1>24. ASSUME NEW w \in Workers, Answer(w) PROVE DeliveriesTypeOK'
  <2>1. work[w].row \in Rows
    BY <1>0, <1>24, AnswerDoes
  <2>2. PICK o \in Outcomes, k \in {0, 1} :
          /\ work' = [work EXCEPT ![w] = On(w, o)]
          /\ accepted' = [accepted EXCEPT ![work[w].row] = @ + k]
          /\ orphans' \subseteq orphans \union {work[w].row}
    BY <1>0, <1>24, AnswerDoes
  <2>3. work' \in [Workers -> [at : Places, row : Rows \union {0}]]
    BY <1>t, <2>1, <2>2 DEF On
  <2>4. accepted' \in [Rows -> Nat] /\ orphans' \subseteq Rows
    BY <1>t, <2>1, <2>2
  <2> QED
    BY <1>t, <1>g, <1>24, <2>3, <2>4 DEF Answer, outbox, choices
<1>25. ASSUME NEW w \in Workers, Finish(w) PROVE DeliveriesTypeOK'
  <2> DEFINE r == work[w].row
             o == work[w].at
  <2>1. r \in Rows /\ Busy(w) /\ o \in Outcomes \ {"expired"}
    BY <1>0, <1>25, FinishDoes
  <2>2. state'[r] \in RowStates
    BY <1>0, <1>t, <1>25, <2>1, FinishDoes DEF AfterRefusal
  <2>3. o = "unavailable" /\ Owned(w) => attempts[r] > 0
    BY <1>0, <2>1 DEF ToldTrue, BusyRows
  <2>4. /\ state' = [state EXCEPT ![r] = state'[r]]
        /\ attempts' = [attempts EXCEPT ![r] = attempts'[r]]
        /\ work' = [work EXCEPT ![w] = [at |-> "ready", row |-> 0]]
        /\ ripe' = [ripe EXCEPT ![r] = IF Owned(w) THEN FALSE ELSE @]
        /\ UNCHANGED <<table, lease, choices, smtp, transport, fenced>>
    BY <1>t, <1>25, <2>1 DEF Finish, Ready
  <2> HIDE DEF r, o
  <2>5. attempts'[r] = attempts[r] \/ (attempts'[r] = attempts[r] - 1 /\ attempts[r] > 0)
    BY <1>0, <1>25, <2>3, FinishDoes DEF r, o
  <2>6. attempts' \in [Rows -> 0 .. MaxAttempts]
    BY <1>0, <1>t, <2>1, <2>4, <2>5
  <2>7. state' \in [Rows -> RowStates]
    BY <1>t, <2>1, <2>2, <2>4
  <2> QED
    BY <1>t, <1>g, <2>1, <2>4, <2>6, <2>7 DEF choices, transport
<1> QED
  BY <1>1, <1>2, <1>3, <1>4, <1>5, <1>6, <1>7, <1>8, <1>9, <1>10, <1>11, <1>12, <1>13, <1>14,
     <1>15, <1>16, <1>17, <1>18, <1>19, <1>20, <1>21, <1>22, <1>23, <1>24, <1>25 DEF Next,
     Dispatch

-----------------------------------------------------------------------------
LEMMA InitInv == Init => DeliveriesInv
<1> SUFFICES ASSUME Init
             PROVE  DeliveriesInv
  OBVIOUS
<1> USE DeliveriesAssumption DEF Init, Idle
<1>1. DeliveriesTypeOK
  <2>1. mail \in BOOLEAN /\ chosen \in BOOLEAN /\ smtp \in BOOLEAN
    OBVIOUS
  <2>2. state \in [Rows -> {"none"}] /\ work \in [Workers -> {[at |-> "idle", row |-> 0]}]
    OBVIOUS
  <2>3. attempts \in [Rows -> 0 .. MaxAttempts] /\ accepted \in [Rows -> Nat]
    OBVIOUS
  <2>4. /\ state \in [Rows -> Live \union Settled \union {"none"}]
        /\ work \in [Workers -> [at : Outcomes \union {"idle", "ready", "claimed", "checked", "out"},
                                row : Rows \union {0}]]
    BY <2>2
  <2> QED
    BY <2>1, <2>3, <2>4 DEF DeliveriesTypeOK
<1>2. BusyRows /\ ToldTrue
  BY DEF BusyRows, ToldTrue, Busy
<1>3. OneMessage /\ SentWasTaken /\ AttemptLeft /\ FencedIsOver
  BY DEF OneMessage, Untaken, SentWasTaken, AttemptLeft, FencedIsOver, Waiting
<1>4. HookAttempts
  BY DEF HookAttempts, Due, Pending, Before
<1> QED
  BY <1>1, <1>2, <1>3, <1>4 DEF DeliveriesInv

LEMMA DeliveriesInvariant == Spec => []DeliveriesInv
<1>1. DeliveriesInv /\ [Next]_vars => DeliveriesInv'
  <2> SUFFICES ASSUME DeliveriesInv, [Next]_vars
               PROVE  DeliveriesInv'
    OBVIOUS
  <2>1. DeliveriesTypeOK /\ BusyRows
    BY DEF DeliveriesInv
  <2> QED
    BY <2>1, TypeStep, BusyStep, ToldStep, OneStep, HookStep, SentStep, LeftStep, FencedStep
       DEF DeliveriesInv
<1> QED
  BY InitInv, <1>1, PTL DEF Spec

\* Rows, dispatchers and counters keep their types; above all, an attempt that is
\* given back was taken.
THEOREM DeliveriesTypeCorrect == Spec => []DeliveriesTypeOK
<1>1. DeliveriesInv => DeliveriesTypeOK
  BY DEF DeliveriesInv
<1> QED
  BY <1>1, DeliveriesInvariant, PTL

\* A mail or push row is taken by its transport at most once, a webhook's at
\* most once for each attempt, whatever times out or is recovered.
THEOREM AcceptedCorrect == Spec => []AcceptedOnce
<1>1. DeliveriesInv => AcceptedOnce
  <2> SUFFICES ASSUME DeliveriesInv, NEW r \in Rows
               PROVE  accepted[r] <= IF Hook(r) THEN MaxAttempts ELSE 1
    BY DEF AcceptedOnce
  <2>1. accepted[r] \in Nat /\ attempts[r] \in 0 .. MaxAttempts /\ MaxAttempts \in Nat
    BY DeliveriesAssumption DEF DeliveriesInv, DeliveriesTypeOK
  <2>2. CASE Hook(r)
    BY <2>1, <2>2 DEF DeliveriesInv, HookAttempts, Due
  <2>3. CASE ~Hook(r)
    BY <2>3 DEF DeliveriesInv, OneMessage
  <2> QED
    BY <2>2, <2>3
<1> QED
  BY <1>1, DeliveriesInvariant, PTL

\* A row's state agrees with what the transport did, a refused push excepted.
THEOREM OutcomeCorrect == Spec => []OutcomeIsTrue
<1>1. DeliveriesInv => OutcomeIsTrue
  BY DEF DeliveriesInv, SentWasTaken, OneMessage, Untaken, OutcomeIsTrue
<1> QED
  BY <1>1, DeliveriesInvariant, PTL

\* No row waits with its attempts used up.
THEOREM StrandedCorrect == Spec => []NothingStranded
<1>1. DeliveriesInv => NothingStranded
  BY DEF DeliveriesInv, AttemptLeft, NothingStranded
<1> QED
  BY <1>1, DeliveriesInvariant, PTL

\* Mail admitted before an opt-out and a notification for a removed device are
\* not handed to a transport afterwards.
THEOREM LateCorrect == Spec => NoLateSend
<1>1. ASSUME DeliveriesInv, [Next]_vars PROVE OldStaysOld
  <2> SUFFICES ASSUME NEW w \in Workers, HandsOver(w), work[w].row \in fenced, table # "alert"
               PROVE  FALSE
    BY DEF OldStaysOld
  <2>0. /\ DeliveriesTypeOK /\ BusyRows /\ ToldTrue /\ DOMAIN work = Workers
        /\ work[w].at \in {"claimed", "checked"} /\ work'[w].at = "out"
    BY <1>1 DEF DeliveriesInv, DeliveriesTypeOK, HandsOver
  <2>1. state[work[w].row] \in Settled
    BY <1>1 DEF DeliveriesInv, FencedIsOver
  <2>2. ~Forward(w)
    BY <2>1 DEF Forward, Owned, Settled
  <2>3. ~Quiet /\ work' # work
    BY <2>0 DEF Quiet
  <2>4. ASSUME NEW r \in Rows PROVE ~Queue(r) /\ ~Land(r)
    BY <2>3 DEF Queue, Land
  <2>5. ASSUME NEW v \in Workers, v # w
        PROVE  /\ ~Claim(v) /\ ~Unreadable(v) /\ ~Forward(v) /\ ~Refuse(v)
               /\ ~Answer(v) /\ ~Finish(v) /\ ~CrashOut(v)
    BY <2>0, <2>5 DEF Claim, Unreadable, Forward, Refuse, Answer, Finish, CrashOut
  <2>6. ~Claim(w) /\ ~Unreadable(w)
    BY <2>0 DEF Claim, Unreadable, Ready
  <2>7. ~Answer(w) /\ ~Finish(w) /\ ~CrashOut(w)
    BY <2>0 DEF Answer, Finish, CrashOut, Outcomes
  <2>8. ~Refuse(w)
    <3>1. Refuse(w) => work' = [work EXCEPT ![w] = Ready]
      BY DEF Refuse
    <3> QED
      BY <2>0, <3>1 DEF Ready
  <2> QED
    BY <1>1, <2>0, <2>2, <2>3, <2>4, <2>5, <2>6, <2>7, <2>8, Steps
<1>2. DeliveriesInv /\ [Next]_vars => [OldStaysOld]_vars
  BY <1>1
<1> QED
  BY <1>2, DeliveriesInvariant, PTL DEF Spec, NoLateSend
=============================================================================
