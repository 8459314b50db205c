--------------------------- MODULE ReportService ---------------------------
(***************************************************************************)
(* What the durable queue promises about one report request: a request is  *)
(* submitted once, at most one request of an owner is being worked on, it  *)
(* may be halted and continued any number of times, and every completion   *)
(* delivers exactly one report.  Leases, tokens, tasks, ticks, prepared    *)
(* candidates and restarts do not exist here.                              *)
(***************************************************************************)
EXTENDS Integers, FiniteSets

CONSTANTS
  Requests,  \* pairs <<owner, request UUID>>
  MaxActive, \* waiting and running requests an owner may have on submission
  MaxOpen    \* unfinished requests an owner may have on submission

VARIABLES
  phase,     \* where each request stands
  reports    \* the number of reports delivered for it

vars == <<phase, reports>>

Phases == {"none", "waiting", "running", "stopped", "reported"}
OfOwner(r, phases) == {q \in Requests : q[1] = r[1] /\ phase[q] \in phases}
Move(r, p) == phase' = [phase EXCEPT ![r] = p]

Init == /\ phase = [r \in Requests |-> "none"]
        /\ reports = [r \in Requests |-> 0]

Submit(r) ==
  /\ phase[r] = "none"
  /\ Cardinality(OfOwner(r, {"waiting", "running"})) < MaxActive
  /\ Cardinality(OfOwner(r, {"waiting", "running", "stopped"})) < MaxOpen
  /\ Move(r, "waiting")
  /\ UNCHANGED reports

Begin(r) ==
  /\ phase[r] = "waiting"
  /\ OfOwner(r, {"running"}) = {}
  /\ Move(r, "running")
  /\ UNCHANGED reports

Deliver(r) ==
  /\ phase[r] = "running"
  /\ Move(r, "reported")
  /\ reports' = [reports EXCEPT ![r] = @ + 1]

\* One step may halt several requests: a restart strands all of them.
Halt(S) ==
  /\ \A r \in S : phase[r] \in {"waiting", "running"}
  /\ phase' = [r \in Requests |-> IF r \in S THEN "stopped" ELSE phase[r]]
  /\ UNCHANGED reports

Continue(r) ==
  /\ phase[r] = "stopped"
  /\ Move(r, "waiting")
  /\ UNCHANGED reports

\* The progress is discarded; a delivered report stays.
Forget(r) ==
  /\ phase[r] \in {"stopped", "reported"}
  /\ Move(r, "none")
  /\ UNCHANGED reports

Next ==
  \/ \E r \in Requests : Submit(r) \/ Begin(r) \/ Deliver(r) \/ Continue(r) \/ Forget(r)
  \/ \E S \in (SUBSET Requests) \ {{}} : Halt(S)

Spec == Init /\ [][Next]_vars
=============================================================================
