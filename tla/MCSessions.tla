----------------------------- MODULE MCSessions -----------------------------
(***************************************************************************)
(* Instances of Sessions for TLC.  Times are scaled down: what matters is   *)
(* their order, AccessTTL < RefreshTTL <= BlacklistTTL.                     *)
(***************************************************************************)
EXTENDS Sessions, TLC

Symmetry == Permutations(Sid) \cup Permutations(Req)
=============================================================================
