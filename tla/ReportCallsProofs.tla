-------------------------- MODULE ReportCallsProofs --------------------------
(* Proofs about ReportCalls, for any calls, requests and limits. *)
EXTENDS ReportCalls, Sums

USE CallsAssumption

-----------------------------------------------------------------------------
(* The inductive invariant *)

Pending == {"in_flight", "uncertain"}
BusyPlaces == {"reserved", "checked", "sent", "releasing", "settling"}

\* A call that was sent keeps a row that is charged; what the provider may bill
\* is the reservation until a known count replaces it in the row.
SentRows == \A c \in sent : row[c] \in Pending \cup Settled
PendingUnknown == \A c \in Calls : row[c] \in Pending \cup {"none"} => tokens[c] = Unknown
Costs == \A c \in sent :
  /\ tokens[c] = Unknown => cost[c] <= OutputOf[request[c]]
  /\ tokens[c] # Unknown => cost[c] = tokens[c]

\* Calls are reserved in order.
Dense == \A c, d \in Calls : d < c /\ row[c] # "none" => row[d] # "none"

\* The call the task is busy with is the last one and is not settled yet.
BusyRow == pc \in BusyPlaces =>
  /\ row[cur] \in Pending
  /\ \A d \in Calls : d > cur => row[d] = "none"
BusySent ==
  /\ pc \in {"reserved", "checked", "releasing"} => cur \notin sent
  /\ pc = "releasing" => final = [row |-> "released", tokens |-> 0]
  /\ pc = "sent" => cur \in sent

\* What will be written is what happened to the call.
Outcome == pc = "settling" =>
  /\ final.row = "released" => cur \notin sent /\ final.tokens = 0
  /\ final.row = "uncertain" => final.tokens = Unknown
  /\ final.tokens = Unknown => (cur \in sent => cost[cur] <= OutputOf[request[cur]])
  /\ final.row \in Settled /\ final.tokens # Unknown /\ cur \in sent => cost[cur] =
      final.tokens

Counted == Cardinality(Dispatched) <= MaxCalls
Ends ==
  /\ job = "discarded" => \A c \in Ledger : row[c] \notin Pending /\ tokens[c] # Unknown
  /\ job = "finished" => pc \notin BusyPlaces \cup {"ready"}
Fresh == \A c, d \in Calls :
  d < c /\ row[c] # "none" /\ row[d] = "exhausted" => request[d] # request[c]

LedgerInv == SentRows /\ PendingUnknown /\ Costs /\ Dense /\ Fresh
TaskInv == BusyRow /\ BusySent /\ Outcome /\ Ends
CallsInv == CallsTypeOK /\ LedgerInv /\ TaskInv /\ Counted

-----------------------------------------------------------------------------
(* Type correctness.  Send needs that the busy call has a request. *)

LEMMA TypeStep == ASSUME CallsTypeOK, BusyRow, [Next]_vars PROVE CallsTypeOK'
<1> USE DEF CallsTypeOK, JobStates, JobErrors, Places, Outcomes, RowStates, Settled,
    Unknown, Pending, BusyPlaces, BusyRow
<1>1. CASE Claim
  BY <1>1 DEF Claim, ledger, history
<1>2. CASE CheckPasses
  BY <1>2 DEF CheckPasses, ledger, history
<1>3. CASE CheckFails
  BY <1>3 DEF CheckFails, ledger, history
<1>4. CASE AllowanceRefuses
  BY <1>4 DEF AllowanceRefuses, ledger, history
<1>5. CASE Send
  BY <1>5 DEF Send, ledger, history
<1>6. CASE CancelCall
  BY <1>6 DEF CancelCall, ledger, history, Interrupted
<1>7. CASE Fail
  BY <1>7 DEF Fail, ledger, history
<1>8. CASE EndTask
  BY <1>8 DEF EndTask, ledger, history
<1>9. CASE Finish
  BY <1>9 DEF Finish, ledger, history
<1>10. CASE Crash
  BY <1>10 DEF Crash, ledger, history
<1>11. CASE Pause
  BY <1>11 DEF Pause, ledger, history
<1>12. CASE Recover
  BY <1>12 DEF Recover, ledger, history
<1>13. CASE Resume
  BY <1>13 DEF Resume, ledger, history, Resumed, WithoutReleased, CanResume
<1>14. CASE AutoRetry
  BY <1>14 DEF AutoRetry, ledger, history
<1>15. CASE Discard
  BY <1>15 DEF Discard, ledger, history, CanDiscard, Discardable, Ledger
<1>16. ASSUME NEW c \in Calls, NEW r \in Requests, Reserve(c, r)
      PROVE  CallsTypeOK'
  BY <1>16 DEF Reserve, BackToCaller, ledger, history, KnownExhausted, Ledger
<1>17. ASSUME NEW s \in Settled, NEW n \in Counts \cup {Unknown}, Answer(s, n)
      PROVE  CallsTypeOK'
  BY <1>17 DEF Answer, ledger, history
<1>18. ASSUME NEW saved \in BOOLEAN, Release(saved)
      PROVE  CallsTypeOK'
  BY <1>18 DEF Release, BackToCaller, ledger, history, Write, MayWrite
<1>19. ASSUME NEW saved \in BOOLEAN, Settle(saved)
      PROVE  CallsTypeOK'
  BY <1>19 DEF Settle, BackToCaller, ledger, history, Write, MayWrite
<1>20. ASSUME NEW e \in JobErrors, StopJob(e)
      PROVE  CallsTypeOK'
  BY <1>20 DEF StopJob, ledger, history, WithoutReleased
<1>21. CASE UNCHANGED vars
  BY <1>21 DEF vars, ledger, history
<1> QED
  BY <1>1, <1>2, <1>3, <1>4, <1>5, <1>6, <1>7, <1>8, <1>9, <1>10, <1>11, <1>12, <1>13,
      <1>14, <1>15, <1>16, <1>17, <1>18, <1>19, <1>20, <1>21 DEF Next, Task, Controls

-----------------------------------------------------------------------------
(* The ledger tells what the provider may bill. *)

LEMMA LedgerStep ==
  ASSUME CallsTypeOK, BusyRow, BusySent, Outcome, LedgerInv, [Next]_vars
  PROVE LedgerInv'
<1> USE DEF CallsTypeOK, JobStates, JobErrors, Places, Outcomes, RowStates, Settled,
    Unknown, Pending, BusyPlaces,
           LedgerInv, SentRows, PendingUnknown, Costs, Dense, Fresh, BusyRow, BusySent, Outcome
<1>1. CASE Claim
  BY <1>1 DEF Claim, ledger, history
<1>2. CASE CheckPasses
  BY <1>2 DEF CheckPasses, ledger, history
<1>3. CASE CheckFails
  BY <1>3 DEF CheckFails, ledger, history
<1>4. CASE AllowanceRefuses
  BY <1>4 DEF AllowanceRefuses, ledger, history
<1>5. CASE Send
  BY <1>5 DEF Send, ledger, history
<1>6. CASE CancelCall
  BY <1>6 DEF CancelCall, ledger, history, Interrupted
<1>7. CASE Fail
  BY <1>7 DEF Fail, ledger, history
<1>8. CASE EndTask
  BY <1>8 DEF EndTask, ledger, history
<1>9. CASE Finish
  BY <1>9 DEF Finish, ledger, history
<1>10. CASE Crash
  BY <1>10 DEF Crash, ledger, history
<1>11. CASE Pause
  BY <1>11 DEF Pause, ledger, history
<1>12. CASE Recover
  BY <1>12 DEF Recover, ledger, history
<1>13. CASE Resume
  BY <1>13 DEF Resume, ledger, history, Resumed, WithoutReleased, CanResume
<1>14. CASE AutoRetry
  BY <1>14 DEF AutoRetry, ledger, history
<1>15. CASE Discard
  BY <1>15 DEF Discard, ledger, history, CanDiscard, Discardable, Ledger
<1>16. ASSUME NEW c \in Calls, NEW r \in Requests, Reserve(c, r)
      PROVE  LedgerInv'
  BY <1>16 DEF Reserve, BackToCaller, ledger, history, KnownExhausted, Ledger
<1>17. ASSUME NEW s \in Settled, NEW n \in Counts \cup {Unknown}, Answer(s, n)
      PROVE  LedgerInv'
  BY <1>17 DEF Answer, ledger, history
<1>18. ASSUME NEW saved \in BOOLEAN, Release(saved)
      PROVE  LedgerInv'
  BY <1>18 DEF Release, BackToCaller, ledger, history, Write, MayWrite
<1>19. ASSUME NEW saved \in BOOLEAN, Settle(saved)
      PROVE  LedgerInv'
  BY <1>19 DEF Settle, BackToCaller, ledger, history, Write, MayWrite
<1>20. ASSUME NEW e \in JobErrors, StopJob(e)
      PROVE  LedgerInv'
  BY <1>20 DEF StopJob, ledger, history, WithoutReleased
<1>21. CASE UNCHANGED vars
  BY <1>21 DEF vars, ledger, history
<1> QED
  BY <1>1, <1>2, <1>3, <1>4, <1>5, <1>6, <1>7, <1>8, <1>9, <1>10, <1>11, <1>12, <1>13,
      <1>14, <1>15, <1>16, <1>17, <1>18, <1>19, <1>20, <1>21 DEF Next, Task, Controls

-----------------------------------------------------------------------------
(* The task knows what happened to its call. *)

LEMMA TaskStep == ASSUME CallsTypeOK, LedgerInv, TaskInv, [Next]_vars PROVE TaskInv'
<1> USE DEF CallsTypeOK, JobStates, JobErrors, Places, Outcomes, RowStates, Settled,
    Unknown, Pending, BusyPlaces,
           LedgerInv, SentRows, PendingUnknown, Costs, Dense, TaskInv, BusyRow, BusySent,
               Outcome, Ends, Ledger
<1>1. CASE Claim
  BY <1>1 DEF Claim, ledger, history
<1>2. CASE CheckPasses
  BY <1>2 DEF CheckPasses, ledger, history
<1>3. CASE CheckFails
  BY <1>3 DEF CheckFails, ledger, history
<1>4. CASE AllowanceRefuses
  BY <1>4 DEF AllowanceRefuses, ledger, history
<1>5. CASE Send
  BY <1>5 DEF Send, ledger, history
<1>6. CASE CancelCall
  BY <1>6 DEF CancelCall, ledger, history, Interrupted
<1>7. CASE Fail
  BY <1>7 DEF Fail, ledger, history
<1>8. CASE EndTask
  BY <1>8 DEF EndTask, ledger, history
<1>9. CASE Finish
  BY <1>9 DEF Finish, ledger, history
<1>10. CASE Crash
  BY <1>10 DEF Crash, ledger, history
<1>11. CASE Pause
  BY <1>11 DEF Pause, ledger, history
<1>12. CASE Recover
  BY <1>12 DEF Recover, ledger, history
<1>13. CASE Resume
  BY <1>13 DEF Resume, ledger, history, Resumed, WithoutReleased, CanResume
<1>14. CASE AutoRetry
  BY <1>14 DEF AutoRetry, ledger, history
<1>15. CASE Discard
  BY <1>15 DEF Discard, ledger, history, CanDiscard, Discardable, Ledger
<1>16. ASSUME NEW c \in Calls, NEW r \in Requests, Reserve(c, r)
      PROVE  TaskInv'
  BY <1>16 DEF Reserve, BackToCaller, ledger, history, KnownExhausted, Ledger
<1>17. ASSUME NEW s \in Settled, NEW n \in Counts \cup {Unknown}, Answer(s, n)
      PROVE  TaskInv'
  BY <1>17 DEF Answer, ledger, history
<1>18. ASSUME NEW saved \in BOOLEAN, Release(saved)
      PROVE  TaskInv'
  BY <1>18 DEF Release, BackToCaller, ledger, history, Write, MayWrite
<1>19. ASSUME NEW saved \in BOOLEAN, Settle(saved)
      PROVE  TaskInv'
  BY <1>19 DEF Settle, BackToCaller, ledger, history, Write, MayWrite
<1>20. ASSUME NEW e \in JobErrors, StopJob(e)
      PROVE  TaskInv'
  BY <1>20 DEF StopJob, ledger, history, WithoutReleased
<1>21. CASE UNCHANGED vars
  BY <1>21 DEF vars, ledger, history
<1> QED
  BY <1>1, <1>2, <1>3, <1>4, <1>5, <1>6, <1>7, <1>8, <1>9, <1>10, <1>11, <1>12, <1>13,
      <1>14, <1>15, <1>16, <1>17, <1>18, <1>19, <1>20, <1>21 DEF Next, Task, Controls

-----------------------------------------------------------------------------
(* The limit on calls.  Only a reservation adds a call to Dispatched, and it  *)
(* finds fewer than MaxCalls there.                                           *)

LEMMA DispatchedFinite ==
  ASSUME CallsTypeOK
  PROVE  IsFiniteSet(Dispatched) /\ Dispatched \subseteq Calls
<1>1. Dispatched \subseteq Calls
  BY DEF Dispatched, Ledger
<1> QED
  BY <1>1, FS_Subset

LEMMA OnlyReserveAdds ==
  ASSUME CallsTypeOK, BusyRow, [Next]_vars,
         ~ \E c \in Calls, r \in Requests : Reserve(c, r)
  PROVE  Dispatched' \subseteq Dispatched
<1> USE DEF CallsTypeOK, Outcomes, RowStates, Settled, Dispatched, Ledger, BusyRow, Pending,
            BusyPlaces
<1>1. row' = row => Dispatched' \subseteq Dispatched
  OBVIOUS
<1>2. CASE Resume
  BY <1>2 DEF Resume, Resumed, WithoutReleased
<1>3. ASSUME NEW e \in JobErrors, StopJob(e)
      PROVE  Dispatched' \subseteq Dispatched
  BY <1>3 DEF StopJob, WithoutReleased
<1>4. ASSUME NEW saved \in BOOLEAN, Release(saved) \/ Settle(saved)
      PROVE  Dispatched' \subseteq Dispatched
  BY <1>4 DEF Release, Settle, Write, MayWrite, ledger
<1>5. CASE UNCHANGED vars
  BY <1>1, <1>5 DEF vars, ledger
<1>6. CASE \/ Claim \/ CheckPasses \/ CheckFails \/ AllowanceRefuses \/ Send \/ CancelCall
           \/ \E s \in Settled, n \in Counts \cup {Unknown} : Answer(s, n)
           \/ Fail \/ EndTask \/ Finish \/ Crash
  BY <1>1, <1>6 DEF Claim, CheckPasses, CheckFails, AllowanceRefuses, Send, CancelCall, Answer,
     Fail, EndTask, Finish, Crash, ledger
<1>7. CASE Pause \/ Recover \/ AutoRetry \/ Discard
  BY <1>1, <1>7 DEF Pause, Recover, AutoRetry, Discard, ledger
<1> QED
  BY <1>2, <1>3, <1>4, <1>5, <1>6, <1>7 DEF Next, Task, Controls

LEMMA CountedStep == ASSUME CallsTypeOK, BusyRow, Counted, [Next]_vars PROVE Counted'
<1>1. IsFiniteSet(Dispatched) /\ Cardinality(Dispatched) \in Nat
  BY DispatchedFinite, FS_CardinalityType
<1>2. ASSUME NEW c \in Calls, NEW r \in Requests, Reserve(c, r)
      PROVE  Counted'
  <2>1. Dispatched' \subseteq Dispatched \cup {c}
    BY <1>2 DEF Reserve, CallsTypeOK, Dispatched, Ledger
  <2>2. /\ IsFiniteSet(Dispatched \cup {c})
        /\ Cardinality(Dispatched \cup {c}) =
             IF c \in Dispatched THEN Cardinality(Dispatched) ELSE Cardinality(Dispatched) + 1
    BY <1>1, FS_AddElement
  <2>3. Cardinality(Dispatched') <= Cardinality(Dispatched \cup {c})
    BY <2>1, <2>2, FS_Subset
  <2>4. Cardinality(Dispatched') \in Nat /\ Cardinality(Dispatched \cup {c}) \in Nat
    BY <2>1, <2>2, FS_Subset, FS_CardinalityType
  <2>5. Cardinality(Dispatched) < MaxCalls
    BY <1>2 DEF Reserve
  <2> QED
    BY <1>1, <2>2, <2>3, <2>4, <2>5 DEF Counted
<1>3. CASE ~ \E c \in Calls, r \in Requests : Reserve(c, r)
  <2>1. Dispatched' \subseteq Dispatched
    BY <1>3, OnlyReserveAdds
  <2>2. /\ Cardinality(Dispatched') <= Cardinality(Dispatched)
        /\ Cardinality(Dispatched') \in Nat
    BY <1>1, <2>1, FS_Subset, FS_CardinalityType
  <2> QED
    BY <1>1, <2>2 DEF Counted
<1> QED
  BY <1>2, <1>3

-----------------------------------------------------------------------------
(* The invariant and the theorems *)

LEMMA CallsInit == Init => CallsInv
<1> SUFFICES ASSUME Init PROVE CallsInv
  OBVIOUS
<1>1. CallsTypeOK
  BY DEF Init, CallsTypeOK, JobStates, JobErrors, Places, Outcomes, RowStates, Settled, Unknown
<1>2. Dispatched = {}
  BY DEF Init, Dispatched, Ledger
<1>3. Counted
  BY <1>2, FS_EmptySet DEF Counted
<1>4. LedgerInv /\ TaskInv
  BY DEF Init, LedgerInv, TaskInv, SentRows, PendingUnknown, Costs, Dense, BusyRow,
      BusySent, Outcome, Ends, Fresh,
     BusyPlaces
<1> QED
  BY <1>1, <1>3, <1>4 DEF CallsInv

LEMMA CallsStep == CallsInv /\ [Next]_vars => CallsInv'
<1> SUFFICES ASSUME CallsInv, [Next]_vars PROVE CallsInv'
  OBVIOUS
<1>1. CallsTypeOK /\ LedgerInv /\ TaskInv /\ Counted /\ BusyRow /\ BusySent /\ Outcome
  BY DEF CallsInv, TaskInv
<1> QED
  BY <1>1, TypeStep, LedgerStep, TaskStep, CountedStep DEF CallsInv

LEMMA CallsInvariant == Spec => []CallsInv
BY CallsInit, CallsStep, PTL DEF Spec

\* Every variable keeps its type, for any calls, requests and limits.
THEOREM CallsTypeCorrect == Spec => []CallsTypeOK
<1>1. CallsInv => CallsTypeOK
  BY DEF CallsInv
<1> QED
  BY <1>1, CallsInvariant, PTL

\* The ledger charges every call that reached a provider in full: `_calls` and
\* output_used never forget a call that was lost, cancelled or resumed.
THEOREM ChargedCorrect == Spec => []ChargedInFull
<1>1. CallsInv => ChargedInFull
  <2> SUFFICES ASSUME CallsInv, NEW c \in sent
               PROVE  c \in Dispatched /\ cost[c] <= Charge(c)
    BY DEF ChargedInFull
  <2> USE DEF CallsInv, CallsTypeOK, LedgerInv, Settled, Pending, Unknown
  <2>1. c \in Calls /\ row[c] \in Pending \cup Settled
    BY DEF SentRows
  <2>2. c \in Dispatched
    BY <2>1 DEF Dispatched, Ledger
  <2>3. cost[c] <= Charge(c)
    BY <2>1 DEF Costs, PendingUnknown, Charge
  <2> QED
    BY <2>2, <2>3
<1> QED
  BY <1>1, CallsInvariant, PTL

\* At most MaxCalls requests of a job ever reach a provider.
THEOREM CallLimitCorrect == Spec => []CallsWithinLimit
<1>1. CallsInv => CallsWithinLimit
  <2> SUFFICES ASSUME CallsInv PROVE Cardinality(sent) <= MaxCalls
    BY DEF CallsWithinLimit
  <2>1. sent \subseteq Dispatched
    BY DEF CallsInv, CallsTypeOK, LedgerInv, SentRows, Dispatched, Ledger, Pending, Settled
  <2>2. IsFiniteSet(Dispatched) /\ Cardinality(Dispatched) \in Nat
    BY DispatchedFinite, FS_CardinalityType DEF CallsInv
  <2>3. Cardinality(sent) <= Cardinality(Dispatched) /\ Cardinality(sent) \in Nat
    BY <2>1, <2>2, FS_Subset, FS_CardinalityType
  <2> QED
    BY <2>2, <2>3 DEF CallsInv, Counted
<1> QED
  BY <1>1, CallsInvariant, PTL

\* A discarded job's cost is known exactly.
THEOREM DiscardCorrect == Spec => []DiscardKnowsCost
<1>1. CallsInv => DiscardKnowsCost
  BY DEF CallsInv, CallsTypeOK, LedgerInv, TaskInv, DiscardKnowsCost, Ends, SentRows, Costs,
      Ledger, Pending, Settled
<1> QED
  BY <1>1, CallsInvariant, PTL

\* A job's cost is charged in full while it may grow, and known when it is discarded.
THEOREM CostCorrect == Spec => []CostIsCharged
<1>1. ChargedInFull /\ DiscardKnowsCost => CostIsCharged
  BY DEF CostIsCharged
<1> QED
  BY <1>1, ChargedCorrect, DiscardCorrect, PTL

\* Nothing is sent for a discarded or finished job.
THEOREM NothingSentCorrect == Spec => NothingSentAfterEnd
<1>1. CallsInv /\ [Next]_vars => [(job \in {"discarded", "finished"}) => (sent' = sent)]_vars
  <2> SUFFICES ASSUME CallsInv, Next, job \in {"discarded", "finished"}
               PROVE  sent' = sent
    OBVIOUS
  <2>1. ~Send
    <3> SUFFICES ASSUME Send PROVE FALSE
      OBVIOUS
    <3>1. pc = "checked" /\ cur \in Calls /\ row[cur] \in Pending
      BY DEF Send, CallsInv, CallsTypeOK, TaskInv, BusyRow, BusyPlaces
    <3> QED
      BY <3>1 DEF CallsInv, TaskInv, Ends, Ledger, Pending, BusyPlaces
  <2> QED
    BY <2>1 DEF Next, Task, Controls, Claim, CheckPasses, CheckFails, AllowanceRefuses,
        CancelCall,
       Reserve, Answer, Release, Settle, StopJob, Fail, EndTask, Finish, Crash, Pause, Recover,
       Resume, AutoRetry, Discard, history
<1> QED
  BY <1>1, CallsInvariant, PTL DEF Spec, NothingSentAfterEnd

\* A request is not sent again once the ledger holds its exhaustion.
THEOREM NoRepeatCorrect == Spec => []ExhaustedNotRepeated
<1>1. CallsInv => ExhaustedNotRepeated
  BY DEF CallsInv, CallsTypeOK, LedgerInv, ExhaustedNotRepeated, Fresh, SentRows, Pending,
      Settled
<1> QED
  BY <1>1, CallsInvariant, PTL

\* The row of a sent call changes only by settling it under the lease, or by the
\* resume that makes it uncertain.
THEOREM SettledCorrect == Spec => SettledStays
<1>1. CallsInv /\ [Next]_vars =>
        [\A c \in sent : row'[c] # row[c] =>
           row[c] = "in_flight" /\ (job = "running" \/ row'[c] = "uncertain")]_vars
  <2> SUFFICES ASSUME CallsInv, Next, NEW c \in sent, row'[c] # row[c]
               PROVE  row[c] = "in_flight" /\ (job = "running" \/ row'[c] = "uncertain")
    OBVIOUS
  <2> USE DEF CallsTypeOK, SentRows, Pending, Settled
  <2>1. c \in Calls /\ CallsTypeOK /\ SentRows
    BY DEF CallsInv, LedgerInv
  <2>2. CASE Resume
    BY <2>1, <2>2 DEF Resume, Resumed, WithoutReleased
  <2>3. ASSUME NEW e \in JobErrors, StopJob(e)
        PROVE  FALSE
    BY <2>1, <2>3 DEF StopJob, WithoutReleased
  <2>4. ASSUME NEW saved \in BOOLEAN, Release(saved) \/ Settle(saved)
        PROVE  row[c] = "in_flight" /\ job = "running"
    BY <2>1, <2>4 DEF Release, Settle, Write, MayWrite, ledger
  <2>5. ASSUME NEW d \in Calls, NEW r \in Requests, Reserve(d, r)
        PROVE  FALSE
    BY <2>1, <2>5 DEF Reserve
  <2>6. row' = row \/ Resume \/ (\E e \in JobErrors : StopJob(e))
        \/ (\E saved \in BOOLEAN : Release(saved) \/ Settle(saved))
        \/ (\E d \in Calls, r \in Requests : Reserve(d, r))
    BY DEF Next, Task, Controls, Claim, CheckPasses, CheckFails, AllowanceRefuses, Send, CancelCall,
       Answer, Fail, EndTask, Finish, Crash, Pause, Recover, AutoRetry, Discard, ledger
  <2> QED
    BY <2>2, <2>3, <2>4, <2>5, <2>6
<1> QED
  BY <1>1, CallsInvariant, PTL DEF Spec, SettledStays
\* The end of a job stops its calls and the end of a call is not rewritten.
THEOREM EndCorrect == Spec => EndIsFinal
  BY NothingSentCorrect, SettledCorrect DEF EndIsFinal

-----------------------------------------------------------------------------
(* Room in the ledger.  A job that waits in the queue, or for its automatic   *)
(* retry, holds no released row: the resume, and the stop that allows the     *)
(* retry, drop them, and only a task under the lease releases a call.         *)

NoReleased == \A c \in Calls : row[c] # "released"
Waiting == job = "queued" \/ (job = "stopped" /\ error = "transient")
RoomInv == Waiting => NoReleased

LEMMA RoomStep == ASSUME CallsTypeOK, RoomInv, [Next]_vars PROVE RoomInv'
<1> USE DEF RoomInv, Waiting, NoReleased, CallsTypeOK, RowStates, Settled
<1>1. CASE Resume
  BY <1>1 DEF Resume, Resumed, WithoutReleased
<1>2. ASSUME NEW e \in JobErrors, StopJob(e) PROVE RoomInv'
  BY <1>2 DEF StopJob, WithoutReleased
<1>3. ASSUME NEW saved \in BOOLEAN, Release(saved) \/ Settle(saved) PROVE RoomInv'
  BY <1>3 DEF Release, Settle, Write, MayWrite, ledger
<1>4. ASSUME NEW c \in Calls, NEW r \in Requests, Reserve(c, r) PROVE RoomInv'
  BY <1>4 DEF Reserve
<1>5. CASE row' = row /\ (Waiting' => Waiting)
  BY <1>5
<1>6. \/ row' = row /\ (Waiting' => Waiting)
      \/ Resume \/ (\E e \in JobErrors : StopJob(e))
      \/ (\E saved \in BOOLEAN : Release(saved) \/ Settle(saved))
      \/ (\E c \in Calls, r \in Requests : Reserve(c, r))
  BY DEF Next, Task, Controls, Claim, CheckPasses, CheckFails, AllowanceRefuses, Send, CancelCall,
     Answer, Fail, EndTask, Finish, Crash, Pause, Recover, AutoRetry, Discard, ledger, vars
<1> QED
  BY <1>1, <1>2, <1>3, <1>4, <1>5, <1>6

\* A queued job with an allowance left has room for another row: what a refusal
\* leaves behind never fills the ledger of MAX_CALLS rows for good.
THEOREM RoomCorrect == Spec => []RoomWhenQueued
<1>1. Init => RoomInv
  BY DEF Init, RoomInv, NoReleased
<1>2. CallsInv /\ RoomInv /\ [Next]_vars => RoomInv'
  BY RoomStep DEF CallsInv
<1>3. RoomInv => RoomWhenQueued
  <2>1. ASSUME RoomInv, job = "queued" PROVE Ledger = Dispatched
    BY <2>1 DEF RoomInv, Waiting, NoReleased, Dispatched, Ledger
  <2> QED
    BY <2>1 DEF RoomWhenQueued, HasBudget
<1> QED
  BY <1>1, <1>2, <1>3, CallsInvariant, PTL DEF Spec

-----------------------------------------------------------------------------
(* The output allowance.  A row is charged its reservation, and later at most  *)
(* that; only a reservation adds a row, and it fits.                           *)

Charges == [c \in Ledger |-> Charge(c)]
Charged == OutputUsed <= MaxOutput

\* The task never settles a call with more than it reserved.
Reported == pc = "settling" /\ final.tokens # Unknown => final.tokens <= OutputOf[request[cur]]

\* What a row is charged is a number of tokens.
LEMMA ChargeIsNat == CallsTypeOK => \A c \in Ledger : Charge(c) \in Nat
<1> SUFFICES ASSUME CallsTypeOK, NEW c \in Ledger PROVE Charge(c) \in Nat
  OBVIOUS
<1>1. c \in Calls /\ tokens[c] \in Counts \cup {0, Unknown} /\ request[c] \in Requests
  BY DEF CallsTypeOK, Ledger
<1>2. tokens[c] # Unknown => tokens[c] \in Nat
  <2>1. 0 \in Nat /\ \A n \in Counts : n \in Nat
    OBVIOUS
  <2> QED
    BY <1>1, <2>1, Zenon
<1>3. OutputOf[request[c]] \in Nat
  BY <1>1
<1> QED
  BY <1>2, <1>3 DEF Charge

\* Dropping rows and lowering charges lowers the sum.
LEMMA SumLowered ==
  ASSUME NEW f, NEW S, IsFiniteSet(S), NEW g, NEW T \in SUBSET S,
         \A x \in S : f[x] \in Nat, \A x \in T : g[x] \in Nat /\ g[x] <= f[x]
  PROVE  SumFunctionOnSet(g, T) <= SumFunctionOnSet(f, S)
<1>1. IsFiniteSet(T) /\ \A x \in T : f[x] \in Nat
  BY FS_Subset
<1>2. SumFunctionOnSet(g, T) <= SumFunctionOnSet(f, T)
  BY <1>1, SumMonotone
<1>3. SumFunctionOnSet(f, T) <= SumFunctionOnSet(f, S)
  BY SumSubset
<1>4. /\ SumFunctionOnSet(g, T) \in Nat /\ SumFunctionOnSet(f, T) \in Nat
      /\ SumFunctionOnSet(f, S) \in Nat
  BY <1>1, SumNat
<1> QED
  BY <1>2, <1>3, <1>4

LEMMA LedgerFinite == ASSUME CallsTypeOK PROVE IsFiniteSet(Ledger) /\ Ledger \subseteq Calls
<1>1. Ledger \subseteq Calls
  BY DEF Ledger
<1> QED
  BY <1>1, FS_Subset

LEMMA UsedIsNat ==
  ASSUME CallsTypeOK
  PROVE  /\ OutputUsed = SumFunctionOnSet(Charges, Ledger) /\ OutputUsed \in Nat
         /\ \A c \in Ledger : Charges[c] = Charge(c) /\ Charges[c] \in Nat
<1>1. OutputUsed = SumFunctionOnSet(Charges, Ledger)
  BY DEF OutputUsed, SumFunction, Charges
<1>2. \A c \in Ledger : Charges[c] = Charge(c) /\ Charges[c] \in Nat
  BY ChargeIsNat DEF Charges
<1>3. SumFunctionOnSet(Charges, Ledger) \in Nat
  BY <1>2, LedgerFinite, SumNat
<1> QED
  BY <1>1, <1>2, <1>3

\* A step that adds no row and raises no charge keeps the job within its allowance.
LEMMA UsedLowered ==
  ASSUME CallsTypeOK, CallsTypeOK', Charged, Ledger' \subseteq Ledger,
         \A c \in Ledger' : Charge(c)' <= Charge(c)
  PROVE  Charged'
<1>1. /\ IsFiniteSet(Ledger) /\ Ledger' \in SUBSET Ledger
      /\ \A c \in Ledger : Charges[c] = Charge(c) /\ Charges[c] \in Nat
  BY LedgerFinite, UsedIsNat
<1>2. \A c \in Ledger' : Charge(c)' \in Nat
  <2>1. (CallsTypeOK => \A c \in Ledger : Charge(c) \in Nat)'
    BY ChargeIsNat, PTL
  <2> QED
    BY <2>1
<1>3. \A c \in Ledger' : Charges'[c] = Charge(c)'
  BY DEF Charges
<1>4. \A c \in Ledger' : Charges'[c] \in Nat /\ Charges'[c] <= Charges[c]
  BY <1>1, <1>2, <1>3
<1>5. SumFunctionOnSet(Charges', Ledger') <= SumFunctionOnSet(Charges, Ledger)
  BY <1>1, <1>4, SumLowered
<1>6. OutputUsed' = SumFunctionOnSet(Charges', Ledger')
  BY DEF OutputUsed, SumFunction, Charges
<1>7. SumFunctionOnSet(Charges', Ledger') \in Nat
  <2>1. IsFiniteSet(Ledger')
    BY <1>1, FS_Subset
  <2> QED
    BY <1>4, <2>1, SumNat
<1> QED
  BY <1>5, <1>6, <1>7, UsedIsNat, CallsAssumption DEF Charged

LEMMA UsedSame == ASSUME Charged, UNCHANGED ledger PROVE Charged'
BY DEF Charged, OutputUsed, Ledger, Charge, ledger

\* A reservation adds its own tokens, and they fit.
LEMMA ReserveFits ==
  ASSUME CallsTypeOK, LedgerInv, NEW c \in Calls, NEW r \in Requests, Reserve(c, r)
  PROVE  Charged'
<1> USE DEF CallsTypeOK
<1>1. /\ row[c] = "none" /\ row' = [row EXCEPT ![c] = "in_flight"]
      /\ request' = [request EXCEPT ![c] = r] /\ tokens' = tokens
      /\ OutputUsed + OutputOf[r] <= MaxOutput
  BY DEF Reserve, OutputFits
<1>2. Ledger' = Ledger \cup {c} /\ c \notin Ledger
  BY <1>1 DEF Ledger
<1>3. Charge(c)' = OutputOf[r] /\ \A d \in Ledger : Charge(d)' = Charge(d)
  BY <1>1, <1>2 DEF Charge, Ledger, Settled
<1>4. OutputUsed' = SumFunctionOnSet(Charges', Ledger')
  BY DEF OutputUsed, SumFunction, Charges
<1>5. /\ IsFiniteSet(Ledger) /\ OutputUsed = SumFunctionOnSet(Charges, Ledger)
      /\ \A d \in Ledger : Charges[d] = Charge(d) /\ Charges[d] \in Nat
  BY LedgerFinite, UsedIsNat
<1>6. \A d \in Ledger' : Charges'[d] = Charge(d)'
  BY DEF Charges
<1>7. Charges'[c] = OutputOf[r] /\ \A d \in Ledger : Charges[d] = Charges'[d]
  BY <1>2, <1>3, <1>5, <1>6
<1>8. SumFunctionOnSet(Charges, Ledger) = SumFunctionOnSet(Charges', Ledger)
  BY <1>5, <1>7, SumSame
<1>9. SumFunctionOnSet(Charges', Ledger \cup {c})
        = SumFunctionOnSet(Charges', Ledger) + Charges'[c]
  <2>1. \A d \in Ledger \cup {c} : Charges'[d] \in Nat
    BY <1>5, <1>7
  <2> QED
    BY <1>2, <1>5, <2>1, SumAdd
<1> QED
  BY <1>1, <1>2, <1>4, <1>5, <1>7, <1>8, <1>9 DEF Charged

\* Writing the outcome of the call under way lowers its charge or keeps it.
LEMMA WriteLowers ==
  ASSUME CallsTypeOK, CallsTypeOK', LedgerInv, TaskInv, Reported, Charged,
         NEW saved \in BOOLEAN, Release(saved) \/ Settle(saved)
  PROVE  Charged'
<1>1. CASE UNCHANGED ledger
  BY <1>1, UsedSame
<1>2. CASE Write(TRUE)
  <2> USE DEF CallsTypeOK
  <2>1. /\ pc \in {"releasing", "settling"} /\ cur \in Calls /\ row[cur] = "in_flight"
        /\ row' = [row EXCEPT ![cur] = final.row]
        /\ tokens' = [tokens EXCEPT ![cur] = final.tokens] /\ request' = request
    BY <1>2 DEF Release, Settle, Write, MayWrite
  <2>2. Ledger' \subseteq Ledger /\ cur \in Ledger /\ request[cur] \in Requests
    BY <2>1 DEF Ledger
  <2>3. \A c \in Ledger' : c # cur => Charge(c)' <= Charge(c)
    <3> SUFFICES ASSUME NEW c \in Ledger', c # cur PROVE Charge(c)' <= Charge(c)
      OBVIOUS
    <3>1. Charge(c) \in Nat
      BY <2>2, ChargeIsNat
    <3>2. Charge(c)' = Charge(c)
      BY <2>1, <2>2 DEF Charge, Ledger
    <3> QED
      BY <3>1, <3>2
  <2>4. ASSUME NEW c \in Ledger', c = cur PROVE Charge(c)' <= Charge(c)
    <3>1. Charge(c) = OutputOf[request[c]] /\ OutputOf[request[c]] \in Nat
      BY <2>1, <2>2, <2>4 DEF Charge, Settled
    <3>2. row'[c] = final.row /\ tokens'[c] = final.tokens /\ request'[c] = request[c]
      BY <2>1, <2>4
    <3>3. Charge(c)' = OutputOf[request[c]] \/ (Charge(c)' = final.tokens /\ final.tokens # Unknown)
      BY <3>2 DEF Charge
    <3>4. final.tokens # Unknown => final.tokens <= OutputOf[request[c]]
      BY <2>1, <2>4, <3>1 DEF Reported, TaskInv, BusySent
    <3> QED
      BY <3>1, <3>3, <3>4
  <2> QED
    BY <2>2, <2>3, <2>4, UsedLowered
<1> QED
  BY <1>1, <1>2 DEF Release, Settle, Write

\* A resume and the stop for a retry drop released rows and keep what they charge.
LEMMA DropLowers ==
  ASSUME CallsTypeOK, CallsTypeOK', Charged, Resume \/ \E e \in JobErrors : StopJob(e)
  PROVE  Charged'
<1> USE DEF CallsTypeOK
<1>1. /\ tokens' = tokens /\ request' = request
      /\ \A c \in Calls : row'[c] \in {row[c], Resumed(c), WithoutReleased(c)}
  BY DEF Resume, StopJob
<1>2. Ledger' \subseteq Ledger
  BY <1>1 DEF Ledger, Resumed, WithoutReleased
<1>3. ASSUME NEW c \in Ledger' PROVE Charge(c)' <= Charge(c)
  <2>1. Charge(c) \in Nat
    BY <1>2, ChargeIsNat
  <2>2. Charge(c)' = Charge(c)
    BY <1>1, <1>2 DEF Charge, Ledger, Resumed, WithoutReleased, Settled
  <2> QED
    BY <2>1, <2>2
<1> QED
  BY <1>2, <1>3, UsedLowered

LEMMA ReportedStep == ASSUME CallsTypeOK, BusyRow, Reported, [Next]_vars PROVE Reported'
<1> USE DEF Reported, CallsTypeOK, Unknown
<1>1. ASSUME NEW s \in Settled, NEW n \in Counts \cup {Unknown}, Answer(s, n)
      PROVE  Reported'
  BY <1>1 DEF Answer, ledger
<1>2. CASE CheckFails \/ CancelCall
  BY <1>2 DEF CheckFails, CancelCall, Interrupted
<1>3. CASE AllowanceRefuses
  <2>1. final'.tokens = 0 /\ cur' = cur /\ request' = request /\ request[cur] \in Requests
    BY <1>3 DEF AllowanceRefuses, ledger, BusyRow, BusyPlaces, Pending
  <2> QED
    BY <2>1
<1>4. CASE pc' # "settling"
  BY <1>4
<1>5. CASE UNCHANGED <<pc, cur, final, request>>
  BY <1>5
<1> QED
  BY <1>1, <1>2, <1>3, <1>4, <1>5 DEF Next, Task, Controls, Claim, CheckPasses, Send, Reserve,
     BackToCaller, Release, Settle, StopJob, Fail, EndTask, Finish, Crash, Pause, Recover, Resume,
     AutoRetry, Discard, ledger, vars

LEMMA ChargedStep == ASSUME CallsInv, Reported, Charged, [Next]_vars PROVE Charged'
<1>1. CallsTypeOK /\ CallsTypeOK' /\ LedgerInv /\ TaskInv
  BY CallsStep DEF CallsInv
<1>2. CASE UNCHANGED ledger
  BY <1>2, UsedSame
<1>3. ASSUME NEW c \in Calls, NEW r \in Requests, Reserve(c, r) PROVE Charged'
  BY <1>1, <1>3, ReserveFits
<1>4. ASSUME NEW saved \in BOOLEAN, Release(saved) \/ Settle(saved) PROVE Charged'
  BY <1>1, <1>4, WriteLowers
<1>5. CASE Resume \/ \E e \in JobErrors : StopJob(e)
  BY <1>1, <1>5, DropLowers
<1> QED
  BY <1>2, <1>3, <1>4, <1>5 DEF Next, Task, Controls, Claim, CheckPasses, CheckFails,
     AllowanceRefuses, Send, CancelCall, Answer, Fail, EndTask, Finish, Crash, Pause, Recover,
     AutoRetry, Discard, vars

LEMMA ChargedInit == Init => Reported /\ Charged
<1> SUFFICES ASSUME Init PROVE Reported /\ Charged
  OBVIOUS
<1>1. Reported
  BY DEF Init, Reported
<1>2. CallsTypeOK /\ Ledger = {}
  BY CallsInit DEF CallsInv, Init, Ledger
<1>3. OutputUsed = 0
  BY <1>2, UsedIsNat, SumEmpty
<1> QED
  BY <1>1, <1>3, CallsAssumption DEF Charged

LEMMA ChargedInvariant == Spec => [](CallsInv /\ Reported /\ Charged)
<1>1. CallsInv /\ Reported /\ Charged /\ [Next]_vars => Reported' /\ Charged'
  BY ReportedStep, ChargedStep DEF CallsInv, TaskInv
<1> QED
  BY <1>1, ChargedInit, CallsInvariant, PTL DEF Spec

\* What may be billed for the calls sent is part of what the ledger charges.
LEMMA BilledIsCharged ==
  ASSUME CallsInv, ChargedInFull
  PROVE  SumFunctionOnSet(cost, sent) <= OutputUsed
<1>1. CallsTypeOK /\ sent \in SUBSET Ledger /\ IsFiniteSet(Ledger)
  BY LedgerFinite DEF CallsInv, ChargedInFull, Dispatched
<1>2. OutputUsed = SumFunctionOnSet(Charges, Ledger)
  BY <1>1, UsedIsNat
<1>3. \A c \in Ledger : Charges[c] = Charge(c) /\ Charges[c] \in Nat
  BY <1>1, UsedIsNat
<1>4. \A c \in sent : cost[c] \in Nat /\ cost[c] <= Charges[c]
  BY <1>1, <1>3 DEF ChargedInFull, CallsTypeOK
<1>5. SumFunctionOnSet(cost, sent) <= SumFunctionOnSet(Charges, Ledger)
  BY <1>1, <1>3, <1>4, SumLowered
<1> QED
  BY <1>2, <1>5

\* What the provider may bill for a job's calls stays within MAX_OUTPUT_TOKENS,
\* for a provider that honours the limit each request carries.
THEOREM OutputCorrect == Spec => []OutputWithinLimit
<1>1. CallsInv /\ Reported /\ Charged /\ ChargedInFull => OutputWithinLimit
  <2> SUFFICES ASSUME CallsInv, Charged, ChargedInFull PROVE OutputWithinLimit
    OBVIOUS
  <2>1. SumFunctionOnSet(cost, sent) <= OutputUsed
    BY BilledIsCharged
  <2>2. OutputUsed \in Nat /\ OutputUsed <= MaxOutput /\ MaxOutput \in Nat
    BY UsedIsNat, CallsAssumption DEF CallsInv, Charged
  <2>3. SumFunctionOnSet(cost, sent) \in Nat
    <3>1. IsFiniteSet(sent) /\ \A c \in sent : cost[c] \in Nat
      BY CallsAssumption, FS_Subset DEF CallsInv, CallsTypeOK
    <3> QED
      BY <3>1, SumNat
  <2> QED
    BY <2>1, <2>2, <2>3 DEF OutputWithinLimit
<1> QED
  BY <1>1, ChargedInvariant, ChargedCorrect, PTL

\* A job stays within the calls and the output tokens it was admitted with.
THEOREM BudgetCorrect == Spec => []WithinBudget
<1>1. CallsWithinLimit /\ OutputWithinLimit => WithinBudget
  BY DEF WithinBudget
<1> QED
  BY <1>1, CallLimitCorrect, OutputCorrect, PTL
=============================================================================
