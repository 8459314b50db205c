----------------------------- MODULE MCSessions -----------------------------
(* Finite instances of Sessions for TLC.                                   *)
EXTENDS Sessions, TLC

Symmetric == Permutations(Clients)
=============================================================================
