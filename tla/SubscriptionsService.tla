------------------------ MODULE SubscriptionsService ------------------------
(* The editions with their jobs and attempts implement EditionService. *)
EXTENDS Subscriptions

PhaseOfWorkflow == [w \in Workflows |->
  CASE w = "pending" -> "planned"
    [] w \in Working -> "working"
    [] w \in Resumable -> "waiting"
    [] w = "completed" -> "delivered"
    [] OTHER -> w]

EditionPhase == [e \in Editions |-> PhaseOfWorkflow[workflow[e]]]

\* Every version inserted for any job that was ever a candidate for the edition
CandidatesOf(e) == {j \in EditionJobs : KeyOf[j] = e}
VersionsOf(e) == UNION {{j} \X (1..published[j]) : j \in CandidatesOf(e)}
EditionReports == [e \in Editions |-> Cardinality(VersionsOf(e))]

Promise == INSTANCE EditionService
             WITH phase <- EditionPhase, retries <- auto, reports <- EditionReports

\* Seen through its editions, a subscription does only what it promises: in
\* particular no lost answer, crash or second candidate makes an edition deliver
\* twice, or end as completed without its report.
ImplementsEditions == Promise!Spec
=============================================================================
