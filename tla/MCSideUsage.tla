----------------------------- MODULE MCSideUsage -----------------------------
(***************************************************************************)
(* Instances of SideUsage for TLC.  Request ids and usages are compared for *)
(* equality only, so each set may be permuted.                              *)
(***************************************************************************)
EXTENDS SideUsage, TLC

Symmetric == Permutations(RequestIDs) \cup Permutations(Usages)
=============================================================================
