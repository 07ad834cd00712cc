---------------------------- MODULE MCAuditChain ----------------------------
(***************************************************************************)
(* Appends that overlap each other, repairs, the removal of old rows and   *)
(* rows altered by hand, over rows with and without a hash.                *)
(***************************************************************************)
EXTENDS AuditChain, TLC

Symmetry == Permutations(Repairs)
=============================================================================
