---------------------------- MODULE MCReportJobs ----------------------------
(* Instances of ReportJobs for TLC. *)
EXTENDS ReportJobsService

\* Two jobs of one owner and one of another, three requests.
TwoOwners == [j \in Jobs |-> IF j <= 2 THEN 1 ELSE 2]
OwnRequests == [j \in Jobs |-> j]

\* One owner whose first request is sent twice.
OneOwner == [j \in Jobs |-> 1]
SentTwice == [j \in Jobs |-> IF j <= 2 THEN 1 ELSE j]
=============================================================================
