--------------------------- MODULE MCAuditAnchor ---------------------------
(***************************************************************************)
(* Appends that overlap, a row without a hash, and two overlapping runs of *)
(* createAnchor over a log whose oldest rows expire.                       *)
(***************************************************************************)
EXTENDS AuditAnchor, TLC

Symmetry == Permutations(Anchorers) \cup Permutations(Appends)
=============================================================================
