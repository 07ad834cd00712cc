--------------------------- MODULE ExposureLedger ---------------------------
(***************************************************************************)
(* What the NPL case ledger promises, with no transaction or lock in       *)
(* sight: every observed event is applied, in one step, to the exposure of *)
(* that moment, and joins a chronology that only grows and never goes back *)
(* in time.  NplCase is shown to implement this module.                    *)
(***************************************************************************)
EXTENDS Integers, Sequences

CONSTANTS
    Accounts,         \* credit accounts, each with at most one case
    Amounts,          \* amounts an event can name
    Days              \* days an event can be dated

VARIABLES
    exposure,         \* current exposure of each account's case
    history           \* what was observed of it, oldest first

ledgerVars == <<exposure, history>>

Observed(moved, after, date) == [moved |-> moved, after |-> after, date |-> date]

Moves == {0} \cup Amounts \cup {-x : x \in Amounts}

Observations == [moved : Moves, after : Nat, date : Days]

LedgerInit ==
    /\ exposure = [a \in Accounts |-> 0]
    /\ history = [a \in Accounts |-> <<>>]

Observe(a, moved, date) ==
    /\ exposure[a] + moved >= 0
    /\ \A i \in DOMAIN history[a] : history[a][i].date <= date
    /\ exposure' = [exposure EXCEPT ![a] = @ + moved]
    /\ history' = [history EXCEPT
                     ![a] = Append(@, Observed(moved, exposure[a] + moved, date))]

LedgerNext == \E a \in Accounts, moved \in Moves, date \in Days :
                 Observe(a, moved, date)

LedgerSpec == LedgerInit /\ [][LedgerNext]_ledgerVars

-----------------------------------------------------------------------------
Left(rows, i) == IF i = 0 THEN 0 ELSE rows[i].after

(* Every observation starts from the exposure the one before it left, and  *)
(* the last one leaves the current exposure.                               *)
Explains(rows, current) ==
    /\ \A i \in 1..Len(rows) :
          rows[i].after = Left(rows, i - 1) + rows[i].moved
    /\ current = Left(rows, Len(rows))

InOrder(rows) ==
    \A i, j \in 1..Len(rows) : i <= j => rows[i].date <= rows[j].date

(* The chronology explains the exposure and is in the order of its dates,  *)
(* which is what a waterfall between two dates relies on.                  *)
ChronologySound ==
    /\ exposure \in [Accounts -> Nat]
    /\ history \in [Accounts -> Seq(Observations)]
    /\ \A a \in Accounts : Explains(history[a], exposure[a])
    /\ \A a \in Accounts : InOrder(history[a])
=============================================================================
