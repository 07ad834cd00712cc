--------------------------- MODULE MCWalletEngine ---------------------------
(***************************************************************************)
(* Three requests over two connections.  The jobs are drawn from a list    *)
(* that holds each kind of job on each kind of wallet, and every choice of *)
(* three, repetitions included, is checked: all that compete for one row,  *)
(* fees of two organizations that share the platform wallet, and fees that *)
(* need a second connection.  Requests are interchangeable, so the order   *)
(* in which they draw does not matter and only one order is kept.          *)
(***************************************************************************)
EXTENDS WalletEngine, TLC

CONSTANTS o1, o2, r1, r2, r3

Fee(o, amount, fee) == [op |-> "fee", w |-> o, amount |-> amount, fee |-> fee]
Moving(op, w, amount) == [op |-> op, w |-> w, amount |-> amount, fee |-> 0]
Opening(op, w) == [op |-> op, w |-> w, amount |-> 0, fee |-> 0]

MCJobs ==
    << Fee(o1, 1, 1), Fee(o1, 2, 1), Fee(o2, 1, 0),
       Moving("topup", o1, 2), Moving("topup", Platform0, 2),
       Moving("withdrawal", o1, 1), Moving("withdrawal", Platform0, 1),
       Opening("bureau", o1), Opening("platform", Platform0) >>

MCInit ==
    /\ \E i \in DOMAIN MCJobs : \E j \in i..Len(MCJobs) :
          \E k \in j..Len(MCJobs) :
             job = (r1 :> MCJobs[i]) @@ (r2 :> MCJobs[j]) @@ (r3 :> MCJobs[k])
    /\ Init
    /\ o2 \in open /\ balance[o2] = 1

MCSpec == MCInit /\ [][Next]_vars /\ \A r \in Requests : WF_vars(Step(r))
=============================================================================
