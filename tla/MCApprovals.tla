---------------------------- MODULE MCApprovals -----------------------------
(***************************************************************************)
(* Two requests, two accounts, an administrator who may submit and review, *)
(* a regulator who may review, and two HTTP requests at a time.            *)
(***************************************************************************)
EXTENDS Approvals, TLC

Symmetry == Permutations(Requests) \cup Permutations(Accounts)
            \cup Permutations(Workers)
=============================================================================
