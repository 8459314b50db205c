---------------------------- MODULE MCLiveStream ----------------------------
(* Instances of LiveStream for TLC. *)
EXTENDS LiveStream

\* Every observation is a partition of its own.
OwnCategory == [i \in Ids |-> i]
=============================================================================
