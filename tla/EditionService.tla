--------------------------- MODULE EditionService ---------------------------
(***************************************************************************)
(* What a subscription promises about its editions: one of them at a time  *)
(* is under way, only while the subscription is enabled does one start,    *)
(* continue or deliver, an edition that delivers adds exactly one report,  *)
(* and an end is final.  Jobs, attempts, leases, reasons, candidates,      *)
(* probes and the ticks of the worker do not exist here.                   *)
(***************************************************************************)
EXTENDS Integers

CONSTANTS
  Editions,
  Subs,       \* subscriptions
  SubOf,      \* the subscription of an edition
  MaxRetries  \* automatic retries an edition may have

VARIABLES
  phase,      \* where each edition stands
  retries,    \* its automatic retries so far
  reports,    \* the number of reports delivered for it
  activation  \* of a subscription

vars == <<phase, retries, reports, activation>>

\* Planned editions have a place in the schedule and no work to lose; working ones
\* are in the queue or worked on; waiting ones were stopped or could not start.
UnderWay == {"planned", "working", "waiting"}
Unstarted == {"none", "planned"}

EditionsOf(s) == {e \in Editions : SubOf[e] = s}
Enabled(e) == activation[SubOf[e]] = "enabled"
Move(S, p) == phase' = [e \in Editions |-> IF e \in S THEN p ELSE phase[e]]

Init == /\ phase = [e \in Editions |-> "none"]
        /\ retries = [e \in Editions |-> 0]
        /\ reports = [e \in Editions |-> 0]
        /\ activation = [s \in Subs |-> "enabled"]

\* Edition e takes its turn; editions S, which it replaces or which were missed
\* before it, never will.
Plan(e) ==
  /\ phase[e] \in Unstarted /\ Enabled(e)
  /\ \E p \in UnderWay, S \in SUBSET {f \in EditionsOf(SubOf[e]) \ {e} : phase[f] \in Unstarted} :
       /\ \A f \in EditionsOf(SubOf[e]) \ ({e} \cup S) : phase[f] \notin UnderWay
       /\ phase' = [f \in Editions |->
            CASE f = e -> p [] f \in S -> "skipped" [] OTHER -> phase[f]]
  /\ UNCHANGED <<retries, reports, activation>>

\* A report delivered already covers some editions.
Cover(s) ==
  /\ activation[s] = "enabled" /\ \E f \in EditionsOf(s) : phase[f] = "delivered"
  /\ \E S \in SUBSET {e \in EditionsOf(s) : phase[e] \in Unstarted} : Move(S, "skipped")
  /\ UNCHANGED <<retries, reports, activation>>

\* One step may halt the editions of several subscriptions: a restart does.
Halt ==
  /\ \E S \in SUBSET {e \in Editions : phase[e] = "working"} : Move(S, "waiting")
  /\ UNCHANGED <<retries, reports, activation>>

\* An edition that could not start is planned again.
Replan(e) ==
  /\ phase[e] = "waiting"
  /\ Move({e}, "planned")
  /\ UNCHANGED <<retries, reports, activation>>

Continue(e) ==
  /\ phase[e] = "waiting" /\ Enabled(e)
  /\ Move({e}, "working")
  /\ UNCHANGED <<retries, reports, activation>>

Retry(e) ==
  /\ phase[e] = "waiting" /\ Enabled(e) /\ retries[e] < MaxRetries
  /\ Move({e}, "working")
  /\ retries' = [retries EXCEPT ![e] = @ + 1]
  /\ UNCHANGED <<reports, activation>>

Deliver(e) ==
  /\ phase[e] = "working" /\ Enabled(e)
  /\ Move({e}, "delivered")
  /\ reports' = [reports EXCEPT ![e] = @ + 1]
  /\ UNCHANGED <<retries, activation>>

Fail(e) ==
  /\ phase[e] \in {"working", "waiting"}
  /\ Move({e}, "failed")
  /\ UNCHANGED <<retries, reports, activation>>

-----------------------------------------------------------------------------
(* The owner's controls of the schedule.  A deletion is for ever. *)

Set(s, a) ==
  /\ activation[s] # "archived"
  /\ activation' = [activation EXCEPT ![s] = a]
  /\ UNCHANGED <<retries, reports>>

\* A pause halts what is being worked on.
Pause(s) == Set(s, "paused") /\ Move({e \in EditionsOf(s) : phase[e] = "working"}, "waiting")

\* It may take up again what waits.
Enable(s) ==
  /\ activation[s] # "enabled" /\ Set(s, "enabled")
  /\ \E S \in SUBSET {e \in EditionsOf(s) : phase[e] = "waiting"} : Move(S, "working")

\* An edit that disables lets what is being worked on go on, but not deliver.
Edit(s) == activation[s] = "enabled" /\ Set(s, "edited") /\ UNCHANGED phase

Delete(s) == Set(s, "archived") /\ Move({e \in EditionsOf(s) : phase[e] \in UnderWay}, "cancelled")

-----------------------------------------------------------------------------
Next ==
  \/ \E e \in Editions : Plan(e) \/ Replan(e) \/ Continue(e) \/ Retry(e) \/ Deliver(e) \/ Fail(e)
  \/ Halt
  \/ \E s \in Subs : Cover(s) \/ Pause(s) \/ Enable(s) \/ Edit(s) \/ Delete(s)

Spec == Init /\ [][Next]_vars
=============================================================================
