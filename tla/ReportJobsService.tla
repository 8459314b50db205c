------------------------- MODULE ReportJobsService -------------------------
(* The queue of report-job rows implements the service of ReportService. *)
EXTENDS ReportJobs

RequestOf(j) == <<OwnerOf[j], KeyOf[j]>>
Requests == {RequestOf(j) : j \in Jobs}
RowsOf(r) == {j \in Jobs : RequestOf(j) = r /\ Exists(j)}

PhaseOf == [s \in Statuses |->
  CASE s = "queued" -> "waiting"
    [] s = "running" -> "running"
    [] s \in Stopped -> "stopped"
    [] s \in Final -> "reported"
    [] OTHER -> "none"]

\* The request stands where its row stands; there is at most one row.
Phase == [r \in Requests |->
  IF RowsOf(r) = {} THEN "none" ELSE PhaseOf[status[CHOOSE j \in RowsOf(r) : TRUE]]]

\* Every version inserted for any job the request ever had.
Delivered(r) == UNION {{j} \X (1..published[j]) : j \in {k \in Jobs : RequestOf(k) = r}}
Reports == [r \in Requests |-> Cardinality(Delivered(r))]

Service == INSTANCE ReportService WITH phase <- Phase, reports <- Reports

\* Seen through its requests, the queue does only what the service allows:
\* in particular a request sent twice is worked on once, and crashes, expired
\* leases and lost answers never deliver a second report for one submission.
ImplementsService == Service!Spec
=============================================================================
