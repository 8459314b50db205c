---------------------------- MODULE MCReportCalls ----------------------------
(* Constants for checking ReportCalls. *)
EXTENDS ReportCalls

FourCalls == 1..4
TwoRequests == {"section", "synthesis"}
SmallAndLarge == [r \in TwoRequests |-> IF r = "section" THEN 2 ELSE 4]
LowAndHigh == {1, 4}
=============================================================================
