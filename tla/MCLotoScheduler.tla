-------------------------- MODULE MCLotoScheduler --------------------------
(* Instances of LotoScheduler for TLC.                                     *)
EXTENDS LotoScheduler
=============================================================================
