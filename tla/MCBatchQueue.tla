---------------------------- MODULE MCBatchQueue ----------------------------
(***************************************************************************)
(* Three jobs for one slot, so that two wait: a create whose last chunk    *)
(* has no valid record, an update, and one more create.                    *)
(***************************************************************************)
EXTENDS BatchQueue, TLC

CONSTANTS j1, j2, j3

Chunk(good, bad) == [good |-> good, bad |-> bad]

MCInit ==
    /\ kind = (j1 :> "create") @@ (j2 :> "update") @@ (j3 :> "create")
    /\ load = (j1 :> <<Chunk(1, 1), Chunk(0, 1)>>)
              @@ (j2 :> <<Chunk(2, 0)>>)
              @@ (j3 :> <<Chunk(1, 0)>>)
    /\ Init

MCSpec == MCInit /\ [][Next]_vars /\ \A j \in Jobs : WF_vars(Run(j))
=============================================================================
