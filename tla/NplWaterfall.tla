---------------------------- MODULE NplWaterfall ----------------------------
(***************************************************************************)
(* GET /api/npl-cases/waterfall/summary: what was owed before a period, the *)
(* movements dated in it, and what was owed at its end, from the events of *)
(* all cases of a currency.  The four queries are taken of one state of    *)
(* the tables; the code gives each its own snapshot, so an event that      *)
(* commits between two of them shows as a difference until the next read.  *)
(***************************************************************************)
EXTENDS NplCase, Functions

ASSUME CountedAccounts == IsFiniteSet(Accounts)

(* The events of a case dated up to a day.                                 *)
Dated(a, day) == {i \in DOMAIN events[a] : events[a][i].date <= day}

(* DISTINCT ON (case_id) ... ORDER BY sequence DESC: what the latest of    *)
(* them left.                                                              *)
OwedAtEnd(a, day) ==
    IF Dated(a, day) = {} THEN 0
    ELSE LET latest == CHOOSE i \in Dated(a, day) : \A j \in Dated(a, day) : j <= i
         IN  events[a][latest].after

Closing(day) == SumFunction([a \in Accounts |-> OwedAtEnd(a, day)])
Opening(start) == Closing(start - 1)

(* The movements of the events of a case dated in the period.              *)
Observed(a, types, start, end) ==
    SumFunctionOnSet([i \in DOMAIN events[a] |-> events[a][i].amount],
        {i \in DOMAIN events[a] : /\ events[a][i].type \in types
                                  /\ events[a][i].date \in start..end})

Movements(types, start, end) ==
    SumFunction([a \in Accounts |-> Observed(a, types, start, end)])

(* calculateNplExposureWaterfall.                                          *)
calculatedClosing(start, end) ==
    Opening(start) + Movements(Inflows, start, end) - Movements(Recoveries, start, end)

(* Whatever period a report names, the movements dated in it lead from the *)
(* exposure before it to the exposure at its end: no case's dates and      *)
(* sequence disagree.                                                      *)
WaterfallReconciles ==
    \A start, end \in 1..MaxDay :
        start <= end => calculatedClosing(start, end) = Closing(end)
=============================================================================
