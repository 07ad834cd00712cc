--------------------------- MODULE MCUsageBilling ---------------------------
(***************************************************************************)
(* Two events, two administrators, two days and two batches.  One event is *)
(* an organization's, whose wallet can pay it; the other names no          *)
(* organization.  Any step of metering, and any failure, may fall between  *)
(* two steps of an administrator.                                          *)
(***************************************************************************)
EXTENDS UsageBilling, TLC

CONSTANTS e1, e2, o1

MCInit ==
    /\ Init
    /\ open = Wallet!Wallets /\ balance[o1] = 1
    /\ event[e1] = [org |-> o1, total |-> 1, fee |-> 1]
    /\ event[e2] = [org |-> NoOrg, total |-> 1, fee |-> 0]

MCSpec == MCInit /\ [][Next]_vars

Symmetry == Permutations(Admins)
=============================================================================
