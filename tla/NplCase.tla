------------------------------ MODULE NplCase -------------------------------
(***************************************************************************)
(* server/npl-case-ledger.ts, server/npl-decision-governance.ts and the    *)
(* routes of the same names: cases of non-performing loans, the            *)
(* append-only events observed of them, and proposals to restructure, cure *)
(* or write off, which one user makes, another reviews and a third hand    *)
(* records as executed.                                                    *)
(*                                                                         *)
(* A request is a database transaction that locks the rows it changes.     *)
(* Its steps are the locks it waits for and its COMMIT; what it reads under *)
(* a lock is kept in txn until then.  It may fail at any point, which      *)
(* undoes it.  Dates are day numbers, amounts are minor units.             *)
(***************************************************************************)
EXTENDS Integers, Sequences, FiniteSets

CONSTANTS
    Accounts,      \* credit accounts
    Proposals,     \* ids of npl_decision_proposals rows
    Users,
    Workers,       \* requests that can be under way at once
    Amounts,       \* amounts a request can name
    NONE,          \* an absent reference
    PostedTypes,   \* event types staff post
    PostedStages,  \* stages staff name
    DecisionTypes, \* decision types staff propose
    MaxDay,        \* bound on the days that pass
    MaxEvents      \* bound on the events of a case

NPL_CASE_STAGES == {"watchlist", "npl", "workout", "legal", "resolved"}

NPL_EVENT_TYPES ==
    {"case_opened", "npl_inflow_observed", "cash_recovery_observed",
     "legal_recovery_observed", "workflow_stage_changed",
     "collection_activity_linked", "decision_submitted", "decision_approved",
     "decision_rejected", "decision_execution_recorded", "note"}

NPL_DECISION_STATUSES == {"pending", "approved", "rejected", "execution_recorded"}

ASSUME NplNames ==
    /\ NONE \notin Accounts \cup Proposals \cup Users
    /\ NONE \notin NPL_CASE_STAGES \cup NPL_DECISION_STATUSES
    /\ Accounts \cap Proposals = {}
    /\ PostedTypes \subseteq NPL_EVENT_TYPES \ {"case_opened"}
    /\ PostedStages \subseteq NPL_CASE_STAGES
    /\ DecisionTypes \subseteq {"restructure", "cure_reage", "write_off"}

ASSUME NplNumbers ==
    /\ Amounts \subseteq Nat \ {0}
    /\ MaxDay \in Nat \ {0}
    /\ MaxEvents \in Nat

VARIABLES
    today,         \* the UTC day
    cases,         \* npl_cases, by credit account
    events,        \* npl_case_events of each case, by sequence
    proposals,     \* npl_decision_proposals
    txn,           \* what each request is doing and has read
    held           \* rows each request has locked

tables == <<cases, events, proposals>>
vars == <<today, cases, events, proposals, txn, held>>

-----------------------------------------------------------------------------
(* applyObservedNplEvent                                                   *)

Inflows == {"case_opened", "npl_inflow_observed"}
Recoveries == {"cash_recovery_observed", "legal_recovery_observed"}

Moved(type, amount) ==
    CASE type \in Inflows -> amount
      [] type \in Recoveries -> -amount
      [] OTHER -> 0

(* A mistake: a recovery may exceed what is owed.                          *)
AllowsOverRecovery(exposure, type, amount) ==
    type \in Inflows \cup Recoveries <=> amount > 0

(* What it accepts: money where money moves, and never below zero.         *)
CanApply(exposure, type, amount) ==
    /\ type \in Inflows \cup Recoveries <=> amount > 0
    /\ exposure + Moved(type, amount) >= 0

(* A mistake: an amount beyond what is owed.                               *)
ForgetsExposure(type, amount, exposure) ==
    /\ type = "cure_reage" => amount = 0
    /\ type = "write_off" => amount > 0

(* normalizeNplDecisionAmount; no amount is 0.                             *)
ProposedAmountOK(type, amount, exposure) ==
    /\ type = "cure_reage" => amount = 0
    /\ type = "write_off" => amount > 0
    /\ amount <= exposure

-----------------------------------------------------------------------------
CaseRow(exposure, stage, status) ==
    [exposure |-> exposure, stage |-> stage, status |-> status]
NoCase == CaseRow(0, NONE, NONE)

Event(type, date, amount, before, after, by, proposal) ==
    [type |-> type, date |-> date, amount |-> amount, before |-> before,
     after |-> after, by |-> by, proposal |-> proposal]

NoProposal == [case |-> NONE, type |-> NONE, amount |-> 0, status |-> NONE,
               maker |-> NONE, checker |-> NONE, executor |-> NONE,
               reviewedOn |-> 0, executedOn |-> 0]

Txn(pc, kind, user, case, proposal) ==
    [pc |-> pc, kind |-> kind, user |-> user, case |-> case,
     proposal |-> proposal, row |-> NoCase, sequence |-> 0, date |-> 0,
     began |-> 0]
Idle == Txn("idle", NONE, NONE, NONE, NONE)

Exists(a) == events[a] # <<>>

(* Room for the events of the requests that are under way.                 *)
Room(a) ==
    Len(events[a]) + Cardinality({w \in Workers : txn[w] # Idle}) < MaxEvents

Init ==
    /\ today = 1
    /\ cases = [a \in Accounts |-> NoCase]
    /\ events = [a \in Accounts |-> <<>>]
    /\ proposals = [p \in Proposals |-> NoProposal]
    /\ txn = [w \in Workers |-> Idle]
    /\ held = [w \in Workers |-> {}]

(* A mistake: SELECT without FOR UPDATE.                                   *)
ReadsWithoutLock(r) == TRUE

Free(r) == \A w \in Workers : r \notin held[w]

End(w) ==
    /\ txn' = [txn EXCEPT ![w] = Idle]
    /\ held' = [held EXCEPT ![w] = {}]

-----------------------------------------------------------------------------
(* POST /api/npl-cases.  The account is read before BEGIN; the balance and *)
(* the classification it had then open the case.                           *)
ReadAccount(w) ==
    \E a \in Accounts, u \in Users, baseline \in Amounts,
       stage \in {"watchlist", "npl"} :
        /\ txn[w] = Idle
        /\ Room(a)
        /\ txn' = [txn EXCEPT ![w] =
                     [Txn("opening", "open", u, a, NONE) EXCEPT
                        !.row = CaseRow(baseline, stage, "open")]]
        /\ UNCHANGED <<today, tables, held>>

(* The unique index on credit_account_id refuses a second case.            *)
InsertCase(w) ==
    LET t == txn[w] IN
    \E d \in 1..today :
        /\ t.pc = "opening"
        /\ IF Exists(t.case)
           THEN UNCHANGED <<cases, events>>
           ELSE /\ cases' = [cases EXCEPT ![t.case] = t.row]
                /\ events' = [events EXCEPT ![t.case] =
                      <<Event("case_opened", d, t.row.exposure, 0,
                              t.row.exposure, t.user, NONE)>>]
        /\ End(w)
        /\ UNCHANGED <<today, proposals>>

-----------------------------------------------------------------------------
(* BEGIN of the three routes that change a case: an event is posted or a   *)
(* proposal submitted, which lock the case, or a proposal is reviewed or   *)
(* its execution recorded, which lock the proposal and then the case.      *)
BeginOnCase(w) ==
    \E kind \in {"append", "submit"}, u \in Users, a \in Accounts :
        /\ txn[w] = Idle
        /\ Exists(a) /\ Room(a)
        /\ txn' = [txn EXCEPT ![w] = Txn("wantCase", kind, u, a, NONE)]
        /\ UNCHANGED <<today, tables, held>>

BeginOnProposal(w) ==
    \E kind \in {"review", "execute"}, u \in Users, p \in Proposals :
        /\ txn[w] = Idle
        /\ proposals[p] # NoProposal
        /\ Room(proposals[p].case)
        /\ txn' = [txn EXCEPT ![w] =
                     [Txn("wantProposal", kind, u, NONE, p) EXCEPT !.began = today]]
        /\ UNCHANGED <<today, tables, held>>

(* A mistake: makers review their own proposals.                           *)
ForgetsTheMaker(kind, user, proposal) ==
    \/ kind = "review" /\ proposal.status = "pending"
    \/ /\ kind = "execute"
       /\ proposal.status = "approved"
       /\ proposal.checker # user

(* The checks between the two locks.                                       *)
MayProceed(kind, user, proposal) ==
    \/ /\ kind = "review"
       /\ proposal.maker # user
       /\ proposal.status = "pending"
    \/ /\ kind = "execute"
       /\ proposal.status = "approved"
       /\ proposal.checker # user

LockProposal(w) ==
    LET t == txn[w] IN
    /\ t.pc = "wantProposal"
    /\ Free(t.proposal)
    /\ IF MayProceed(t.kind, t.user, proposals[t.proposal])
       THEN /\ txn' = [txn EXCEPT
                         ![w].pc = "wantCase",
                         ![w].case = proposals[t.proposal].case]
            /\ held' = [held EXCEPT ![w] = @ \cup {t.proposal}]
       ELSE End(w)
    /\ UNCHANGED <<today, tables>>

(* SELECT ... FOR UPDATE of the case, and the read of its latest event.    *)
LockCase(w) ==
    LET t == txn[w]
        a == t.case
    IN
    /\ t.pc = "wantCase"
    /\ Free(a)
    /\ txn' = [txn EXCEPT ![w].pc = "holdsCase",
                          ![w].row = cases[a],
                          ![w].sequence = Len(events[a]),
                          ![w].date = events[a][Len(events[a])].date]
    /\ held' = [held EXCEPT ![w] = @ \cup {a}]
    /\ UNCHANGED <<today, tables>>

-----------------------------------------------------------------------------
(* POST /api/npl-cases/:id/events: what the event makes of the case.       *)
StageAfter(type, given, stage, after) ==
    CASE after = 0 -> "resolved"
      [] after # 0 /\ type = "npl_inflow_observed" -> "npl"
      [] after # 0 /\ type = "legal_recovery_observed" /\ given = NONE -> "legal"
      [] OTHER -> IF given = NONE THEN stage ELSE given

(* A mistake: an inflow does not reopen the case.                          *)
StaysResolved(type, status, after) ==
    IF after = 0 THEN "resolved" ELSE status

StatusAfter(type, status, after) ==
    CASE after = 0 -> "resolved"
      [] after # 0 /\ type = "npl_inflow_observed" -> "open"
      [] OTHER -> status

StageAllowed(type, given, after) ==
    type = "workflow_stage_changed" =>
        given # NONE /\ (given = "resolved" => after = 0)

(* A mistake: events are accepted in any order of their dates.             *)
TakesAnyDate(t, d) == TRUE

(* No event is dated before the latest one.                                *)
NotBackdated(t, d) == d >= t.date

(* A row joins the chronology under the sequence that was read; the unique *)
(* index refuses a sequence that is taken.                                 *)
Insert(t, e) ==
    /\ t.sequence = Len(events[t.case])
    /\ events' = [events EXCEPT ![t.case] = Append(@, e)]

CommitEvent(w) ==
    LET t == txn[w] IN
    \E type \in PostedTypes, d \in 1..today, amount \in Amounts \cup {0},
       given \in PostedStages \cup {NONE} :
        LET after == t.row.exposure + Moved(type, amount) IN
        /\ t.pc = "holdsCase" /\ t.kind = "append"
        /\ NotBackdated(t, d)
        /\ CanApply(t.row.exposure, type, amount)
        /\ StageAllowed(type, given, after)
        /\ Insert(t, Event(type, d, amount, t.row.exposure, after, t.user, NONE))
        /\ cases' = [cases EXCEPT ![t.case] =
              CaseRow(after, StageAfter(type, given, t.row.stage, after),
                      StatusAfter(type, t.row.status, after))]
        /\ End(w)
        /\ UNCHANGED <<today, proposals>>

(* appendDecisionEvent: dated today, the exposure as it was.               *)
InsertDecision(t, type, p) ==
    Insert(t, Event(type, today, 0, t.row.exposure, t.row.exposure, t.user, p))

(* One pending proposal of a type for each case: a partial unique index.   *)
PendingOf(a, type) ==
    {p \in Proposals : proposals[p].case = a /\ proposals[p].type = type
                       /\ proposals[p].status = "pending"}

CommitSubmit(w) ==
    LET t == txn[w] IN
    \E p \in Proposals, type \in DecisionTypes, amount \in Amounts \cup {0} :
        /\ t.pc = "holdsCase" /\ t.kind = "submit"
        /\ t.row.status = "open"
        /\ ProposedAmountOK(type, amount, t.row.exposure)
        /\ proposals[p] = NoProposal
        /\ PendingOf(t.case, type) = {}
        /\ proposals' = [proposals EXCEPT ![p] =
              [NoProposal EXCEPT !.case = t.case, !.type = type,
                 !.amount = amount, !.status = "pending", !.maker = t.user]]
        /\ InsertDecision(t, "decision_submitted", p)
        /\ End(w)
        /\ UNCHANGED <<today, cases>>

(* now() is the time of BEGIN; the event is dated when it is written.      *)
CommitReview(w) ==
    LET t == txn[w] IN
    \E decision \in {"approved", "rejected"} :
        /\ t.pc = "holdsCase" /\ t.kind = "review"
        /\ proposals' = [proposals EXCEPT ![t.proposal].status = decision,
                                          ![t.proposal].checker = t.user,
                                          ![t.proposal].reviewedOn = t.began]
        /\ InsertDecision(t, IF decision = "approved" THEN "decision_approved"
                                                      ELSE "decision_rejected",
                          t.proposal)
        /\ End(w)
        /\ UNCHANGED <<today, cases>>

CommitExecution(w) ==
    LET t == txn[w] IN
    \E d \in 1..today :
        /\ t.pc = "holdsCase" /\ t.kind = "execute"
        /\ d >= proposals[t.proposal].reviewedOn
        /\ proposals' = [proposals EXCEPT
                           ![t.proposal].status = "execution_recorded",
                           ![t.proposal].executor = t.user,
                           ![t.proposal].executedOn = d]
        /\ InsertDecision(t, "decision_execution_recorded", t.proposal)
        /\ End(w)
        /\ UNCHANGED <<today, cases>>

(* A mistake: the connection returns to the pool inside its transaction.   *)
ReleasesWithoutRollback(w) ==
    /\ txn[w] # Idle
    /\ txn' = [txn EXCEPT ![w] = Idle]
    /\ UNCHANGED <<today, tables, held>>

(* A refused input, a statement that fails, a lost connection, a crash:    *)
(* PostgreSQL undoes the transaction and drops its locks.                  *)
Rollback(w) ==
    /\ txn[w] # Idle
    /\ End(w)
    /\ UNCHANGED <<today, tables>>

NextDay ==
    /\ today < MaxDay
    /\ today' = today + 1
    /\ UNCHANGED <<tables, txn, held>>

Request(w) ==
    \/ ReadAccount(w) \/ InsertCase(w)
    \/ BeginOnCase(w) \/ BeginOnProposal(w) \/ LockProposal(w) \/ LockCase(w)
    \/ CommitEvent(w) \/ CommitSubmit(w) \/ CommitReview(w)
    \/ CommitExecution(w) \/ Rollback(w)

Next == NextDay \/ \E w \in Workers : Request(w)

Spec == Init /\ [][Next]_vars

-----------------------------------------------------------------------------
CaseRows == [exposure : Nat, stage : NPL_CASE_STAGES \cup {NONE},
             status : {"open", "resolved", NONE}]

EventRows == [type : NPL_EVENT_TYPES, date : 1..MaxDay, amount : Nat,
              before : Nat, after : Nat, by : Users,
              proposal : Proposals \cup {NONE}]

ProposalRows == [case : Accounts \cup {NONE}, type : DecisionTypes \cup {NONE},
                 amount : Nat,
                 status : NPL_DECISION_STATUSES \cup {NONE},
                 maker : Users \cup {NONE}, checker : Users \cup {NONE},
                 executor : Users \cup {NONE},
                 reviewedOn : 0..MaxDay, executedOn : 0..MaxDay]

Txns == [pc : {"idle", "opening", "wantProposal", "wantCase", "holdsCase"},
         kind : {"open", "append", "submit", "review", "execute", NONE},
         user : Users \cup {NONE}, case : Accounts \cup {NONE},
         proposal : Proposals \cup {NONE}, row : CaseRows,
         sequence : Nat, date : 0..MaxDay, began : 0..MaxDay]

(* Every row and every local variable has the shape the schema gives it.   *)
TypeOK ==
    /\ today \in 1..MaxDay
    /\ cases \in [Accounts -> CaseRows]
    /\ events \in [Accounts -> Seq(EventRows)]
    /\ proposals \in [Proposals -> ProposalRows]
    /\ txn \in [Workers -> Txns]
    /\ held \in [Workers -> SUBSET (Accounts \cup Proposals)]

-----------------------------------------------------------------------------
(* What the case shows is what its events add up to, however requests      *)
(* overlap: each transaction is one observation of the abstract ledger.    *)
Seen(e) == [moved |-> Moved(e.type, e.amount), after |-> e.after,
            date |-> e.date]

Ledger == INSTANCE ExposureLedger WITH
    Days <- 1..MaxDay,
    exposure <- [a \in Accounts |-> cases[a].exposure],
    history <- [a \in Accounts |-> [i \in 1..Len(events[a]) |->
                                       Seen(events[a][i])]]

ImplementsLedger == Ledger!LedgerSpec

(* The exposure of a case is explained by its events, each starting from   *)
(* the exposure the one before it left, in the order of their dates.       *)
EventsExplainCases == Ledger!ChronologySound

(* A case is resolved exactly while nothing is owed on it: recoveries,     *)
(* inflows that reopen it and notes may come from different requests.      *)
ResolvedWhenPaid ==
    \A a \in Accounts : Exists(a) =>
        /\ cases[a].status = "resolved" <=> cases[a].exposure = 0
        /\ cases[a].exposure = 0 => cases[a].stage = "resolved"

-----------------------------------------------------------------------------
(* What the chronology of a case says of a proposal: one event for each    *)
(* chapter, in that order, and no other event.                             *)
About(rows, p) == {k \in 1..Len(rows) : rows[k].proposal = p}

Tells(rows, p, story) ==
    \E at \in [1..Len(story) -> 1..Len(rows)] :
        /\ \A i, j \in 1..Len(story) : i < j => at[i] < at[j]
        /\ About(rows, p) = {at[i] : i \in 1..Len(story)}
        /\ \A i \in 1..Len(story) :
              <<rows[at[i]].type, rows[at[i]].by>> = story[i]

Chapters(r) ==
    LET submitted == <<"decision_submitted", r.maker>>
        reviewed(type) == <<type, r.checker>>
    IN CASE r.status = "pending" -> <<submitted>>
         [] r.status = "approved" -> <<submitted, reviewed("decision_approved")>>
         [] r.status = "rejected" -> <<submitted, reviewed("decision_rejected")>>
         [] r.status = "execution_recorded" ->
              <<submitted, reviewed("decision_approved"),
                <<"decision_execution_recorded", r.executor>>>>

(* A proposal and the chronology tell one story: submitted once, reviewed  *)
(* at most once and executed only after an approval, by the users the row  *)
(* names.                                                                  *)
DecisionsAreChronicled ==
    \A p \in Proposals : proposals[p] # NoProposal =>
        Tells(events[proposals[p].case], p, Chapters(proposals[p]))

(* Nobody reviews their own proposal or records the execution of their own *)
(* approval, and no execution is dated before the approval.                *)
HandsAreSeparate ==
    \A p \in Proposals :
        LET r == proposals[p] IN
        /\ r.checker # NONE => r.checker # r.maker
        /\ r.executor # NONE => /\ r.executor # r.checker
                                /\ r.executedOn >= r.reviewedOn

(* A proposed amount was owed when it was proposed: by its submission in   *)
(* the chronology, however the exposure moves later.                       *)
ProposalsWereCovered ==
    \A p \in Proposals : proposals[p] # NoProposal =>
        \E i \in 1..Len(events[proposals[p].case]) :
            LET e == events[proposals[p].case][i] IN
            /\ e.proposal = p /\ e.type = "decision_submitted"
            /\ e.after > 0 /\ proposals[p].amount <= e.after

(* A review is final: what a checker decided, and when, never changes, and *)
(* only an approved proposal moves on.                                     *)
ReviewsAreFinal ==
    [][\A p \in Proposals :
          proposals[p].status \notin {NONE, "pending"} =>
             /\ proposals'[p].checker = proposals[p].checker
             /\ proposals'[p].reviewedOn = proposals[p].reviewedOn
             /\ \/ proposals'[p] = proposals[p]
                \/ /\ proposals[p].status = "approved"
                   /\ proposals'[p].status = "execution_recorded"]_vars

-----------------------------------------------------------------------------
Blocked(w) ==
    \/ txn[w].pc = "wantProposal" /\ ~Free(txn[w].proposal)
    \/ txn[w].pc = "wantCase" /\ ~Free(txn[w].case)

(* Proposals are locked before cases: requests never wait for each other   *)
(* in a circle.                                                            *)
SomeoneProceeds ==
    \A w \in Workers : Blocked(w) =>
        \E v \in Workers : txn[v] # Idle /\ ~Blocked(v)
=============================================================================
