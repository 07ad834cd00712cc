----------------------------- MODULE MCNplCase ------------------------------
(***************************************************************************)
(* One account, two proposals, two users and two requests at a time.       *)
(***************************************************************************)
EXTENDS NplWaterfall, TLC

Symmetry == Permutations(Workers) \cup Permutations(Users)
            \cup Permutations(Proposals)
=============================================================================
