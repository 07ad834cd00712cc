----------------------------- MODULE Approvals -----------------------------
(***************************************************************************)
(* The maker-checker routes of server/routes.ts: a change to a borrower or *)
(* to credit accounts is staged as a row of pending_approvals, and the     *)
(* checker who approves it applies it, statement by statement and without  *)
(* a transaction.  One such change erases a borrower.                      *)
(*                                                                         *)
(* Uploads, the external API and payments write the same tables directly.  *)
(* The model follows one borrower's row and accounts, and the statements   *)
(* of the requests under way interleave.  Foreign keys let an account      *)
(* exist only with its borrower and a payment only with its account.       *)
(***************************************************************************)
EXTENDS Integers, FiniteSets

CONSTANTS
    Requests,      \* ids of pending_approvals rows
    Makers,        \* users whose role lets them submit changes and upload
    Checkers,      \* users whose role lets them review changes
    Accounts,      \* keys (borrower, account number, lender) of the borrower
    Workers,       \* HTTP requests that can be under way at once
    NONE,          \* an absent row or reference
    Submitted,     \* kinds of change makers submit by their routes
    Posted,        \* kinds of change they post as rows of their own making
    Statuses       \* account statuses that payloads name

Users == Makers \cup Checkers

(* accountStatusEnum.                                                      *)
AccountStatuses ==
    {"current", "delinquent", "default", "closed", "restructured", "written_off"}

Kinds == {"create_borrower", "update_borrower", "create_account",
          "update_account", "update_batch", "erase"}

ASSUME ApprovalsNames ==
    /\ Submitted \subseteq Kinds \ {"update_batch", "erase"}
    /\ Posted \subseteq Kinds
    /\ Statuses \subseteq AccountStatuses
    /\ NONE \notin AccountStatuses \cup Requests \cup Users \cup Kinds
    /\ NONE \notin {"pending", "approved", "rejected"}

ASSUME ApprovalsAreFinite == IsFiniteSet(Accounts) /\ IsFiniteSet(Workers)

VARIABLES
    borrower,      \* whether the borrower's row is there
    accounts,      \* status of each account, NONE when it has no row
    payments,      \* accounts with payment_history or guarantor rows
    approvals,     \* pending_approvals
    txn,           \* what each HTTP request is doing and has read
    erased,        \* requests with a DATA_ERASURE_COMPLETED audit row
    writes,        \* statements of each request's payload that took effect
    overlapped     \* requests that two checkers found pending at once

data == <<borrower, accounts, payments>>
vars == <<data, approvals, txn, erased, writes, overlapped>>

-----------------------------------------------------------------------------
Approval(kind, items, to, maker, status) ==
    [kind |-> kind, items |-> items, to |-> to, maker |-> maker,
     status |-> status, checker |-> NONE]
NoApproval == Approval(NONE, {}, NONE, NONE, NONE)

HasRow(a) == accounts[a] # NONE

(* An HTTP request: the change it works on and the accounts it has yet to  *)
(* write; who decides what, or what an upload found; accounts it has read. *)
Txn(pc, request, todo) ==
    [pc |-> pc, request |-> request, todo |-> todo, user |-> NONE,
     decision |-> NONE, seen |-> {}, to |-> NONE]
Idle == Txn("idle", NONE, {})

Reviewing(r, u, decision) ==
    [pc |-> "deciding", request |-> r, todo |-> {}, user |-> u,
     decision |-> decision, seen |-> {}, to |-> NONE]

Uploading(u, items, to) ==
    [pc |-> "uploading", request |-> NONE,
     todo |-> {a \in items : ~HasRow(a)}, user |-> u,
     decision |-> NONE, seen |-> {a \in items : HasRow(a)}, to |-> to]

Init ==
    /\ borrower = TRUE
    /\ accounts \in [Accounts -> {NONE} \cup Statuses]
    /\ payments = {}
    /\ approvals = [r \in Requests |-> NoApproval]
    /\ txn = [w \in Workers |-> Idle]
    /\ erased = {}
    /\ writes = [r \in Requests |-> 0]
    /\ overlapped = {}

Stage(r, kind, items, to, maker) ==
    /\ approvals[r] = NoApproval
    /\ approvals' = [approvals EXCEPT ![r] =
                       Approval(kind, items, to, maker, "pending")]

-----------------------------------------------------------------------------
(* Submissions.  What they look up beforehand is not locked, so that it    *)
(* binds nothing later.                                                    *)
SubmitBorrower(r, u) ==
    /\ \E kind \in Submitted \cap {"create_borrower", "update_borrower"} :
          /\ kind = "update_borrower" => borrower
          /\ Stage(r, kind, {}, NONE, u)
    /\ UNCHANGED <<data, txn, erased, writes, overlapped>>

SubmitAccount(r, u) ==
    /\ \E kind \in Submitted \cap {"create_account", "update_account"},
          a \in Accounts, to \in Statuses :
          /\ kind = "create_account" => borrower
          /\ kind = "update_account" => HasRow(a)
          /\ Stage(r, kind, {a}, to, u)
    /\ UNCHANGED <<data, txn, erased, writes, overlapped>>

(* The status that the route compares with is not one an account can have. *)
HasActiveLoans == \E a \in Accounts : accounts[a] = "active"

RequestErasure(r, u) ==
    /\ borrower
    /\ ~HasActiveLoans
    /\ Stage(r, "erase", {}, NONE, u)
    /\ UNCHANGED <<data, txn, erased, writes, overlapped>>

(* POST /api/pending-approvals stages the row that the client made up and  *)
(* looks nothing up.  What it creates has an id of the database's.         *)
SubmitPayload(r, u) ==
    /\ \/ \E kind \in Posted \cap {"create_borrower", "update_borrower", "erase"} :
             Stage(r, kind, {}, NONE, u)
       \/ \E kind \in Posted \cap {"create_account", "update_account"},
             a \in Accounts, to \in Statuses : Stage(r, kind, {a}, to, u)
       \/ /\ "update_batch" \in Posted
          /\ \E items \in SUBSET Accounts \ {{}}, to \in Statuses :
                Stage(r, "update_batch", items, to, u)
    /\ UNCHANGED <<data, txn, erased, writes, overlapped>>

-----------------------------------------------------------------------------
(* Statements on the data, each atomic under the foreign keys.             *)
UpsertsActive(a, to) ==
    /\ borrower
    /\ accounts' = [accounts EXCEPT ![a] = "active"]
    /\ UNCHANGED <<borrower, payments>>

Upsert(a, to) ==
    /\ borrower
    /\ accounts' = [accounts EXCEPT ![a] = to]
    /\ UNCHANGED <<borrower, payments>>

Update(a, to) ==
    /\ accounts' = [accounts EXCEPT ![a] = IF HasRow(a) THEN to ELSE NONE]
    /\ UNCHANGED <<borrower, payments>>

(* POST /api/external/v1/credit-accounts writes at once.                   *)
ExternalAccount ==
    /\ \E a \in Accounts, to \in Statuses : Upsert(a, to)
    /\ UNCHANGED <<approvals, txn, erased, writes, overlapped>>

RecordPayment(a) ==
    /\ HasRow(a)
    /\ payments' = payments \cup {a}
    /\ UNCHANGED <<borrower, accounts, approvals, txn, erased, writes,
                   overlapped>>

-----------------------------------------------------------------------------
(* batchInsertCreditAccounts: rows it found are staged, the others are     *)
(* upserted at once.                                                       *)
ReadUpload(w) ==
    \E items \in SUBSET Accounts \ {{}}, to \in Statuses, u \in Makers :
        /\ txn[w] = Idle
        /\ borrower
        /\ txn' = [txn EXCEPT ![w] = Uploading(u, items, to)]
        /\ UNCHANGED <<data, approvals, erased, writes, overlapped>>

(* A row that fails is reported and the next one tried.                    *)
UploadRow(w) ==
    LET t == txn[w] IN
    \E a \in t.todo :
        /\ t.pc = "uploading"
        /\ txn' = [txn EXCEPT ![w].todo = @ \ {a}]
        /\ Upsert(a, t.to) \/ UNCHANGED data
        /\ UNCHANGED <<approvals, erased, writes, overlapped>>

StageUpload(w) ==
    LET t == txn[w] IN
    /\ t.pc = "uploading"
    /\ t.todo = {}
    /\ \/ \E r \in Requests : Stage(r, "update_batch", t.seen, t.to, t.user)
       \/ UNCHANGED approvals
    /\ t.seen = {} => approvals' = approvals
    /\ txn' = [txn EXCEPT ![w] = Idle]
    /\ UNCHANGED <<data, erased, writes, overlapped>>

-----------------------------------------------------------------------------
(* PATCH /api/pending-approvals/:id.                                       *)
ReviewsAgain(r, u) ==
    /\ approvals[r].status # NONE
    /\ approvals[r].maker # u

CanReview(r, u) ==
    /\ approvals[r].status = "pending"
    /\ approvals[r].maker # u

Deciding(r) == {v \in Workers : txn[v].pc = "deciding" /\ txn[v].request = r}

ReadApproval(w) ==
    \E r \in Requests, u \in Checkers, decision \in {"approved", "rejected"} :
        /\ txn[w] = Idle
        /\ CanReview(r, u)
        /\ txn' = [txn EXCEPT ![w] = Reviewing(r, u, decision)]
        /\ overlapped' = IF Deciding(r) = {} THEN overlapped
                                             ELSE overlapped \cup {r}
        /\ UNCHANGED <<data, approvals, erased, writes>>

(* updateApprovalStatus: an UPDATE by id that returns the row.             *)
Decide(w) ==
    LET t == txn[w]
        r == t.request IN
    /\ t.pc = "deciding"
    /\ approvals' = [approvals EXCEPT ![r].status = t.decision,
                                      ![r].checker = t.user]
    /\ txn' = [txn EXCEPT ![w] =
                 IF t.decision = "rejected" THEN Idle
                 ELSE Txn(IF approvals[r].kind = "erase" THEN "erasing"
                          ELSE "applying", r, approvals[r].items)]
    /\ UNCHANGED <<data, erased, writes, overlapped>>

(* Payloads about the borrower: a new row with a new id, or an UPDATE that *)
(* this model does not see.                                                *)
ApplyBorrower(w) ==
    LET r == txn[w].request IN
    /\ txn[w].pc = "applying"
    /\ approvals[r].kind \in {"create_borrower", "update_borrower"}
    /\ writes' = [writes EXCEPT ![r] = @ + 1]
    /\ txn' = [txn EXCEPT ![w] = Idle]
    /\ UNCHANGED <<data, approvals, erased, overlapped>>

(* One account of the payload.  A batch goes on when one of them fails.    *)
ApplyAccount(w) ==
    LET t == txn[w]
        r == t.request IN
    \E a \in t.todo :
        /\ t.pc = "applying"
        /\ txn' = [txn EXCEPT ![w].todo = @ \ {a}]
        /\ \/ /\ IF approvals[r].kind = "create_account"
                   THEN Upsert(a, approvals[r].to)
                   ELSE Update(a, approvals[r].to)
              /\ writes' = [writes EXCEPT ![r] = @ + 1]
           \/ UNCHANGED <<data, writes>>
        /\ UNCHANGED <<approvals, erased, overlapped>>

Applied(w) ==
    /\ txn[w].pc = "applying"
    /\ approvals[txn[w].request].items # {}
    /\ txn[w].todo = {}
    /\ txn' = [txn EXCEPT ![w] = Idle]
    /\ UNCHANGED <<data, approvals, erased, writes, overlapped>>

-----------------------------------------------------------------------------
(* cascadeDeleteBorrower, then the DATA_ERASURE_COMPLETED audit row.       *)
ReadAccounts(w) ==
    /\ txn[w].pc = "erasing"
    /\ txn' = [txn EXCEPT ![w].pc = "deletingHistory",
                          ![w].seen = {a \in Accounts : HasRow(a)}]
    /\ UNCHANGED <<data, approvals, erased, writes, overlapped>>

DeleteHistory(w) ==
    /\ txn[w].pc = "deletingHistory"
    /\ payments' = payments \ txn[w].seen
    /\ txn' = [txn EXCEPT ![w].pc = "deletingAccounts", ![w].seen = {}]
    /\ UNCHANGED <<borrower, accounts, approvals, erased, writes, overlapped>>

(* Refused while a payment refers to one of them.                          *)
DeleteAccounts(w) ==
    /\ txn[w].pc = "deletingAccounts"
    /\ payments = {}
    /\ accounts' = [a \in Accounts |-> NONE]
    /\ txn' = [txn EXCEPT ![w].pc = "deletingBorrower"]
    /\ UNCHANGED <<borrower, payments, approvals, erased, writes, overlapped>>

(* Refused while an account refers to it.                                  *)
DeleteBorrower(w) ==
    /\ txn[w].pc = "deletingBorrower"
    /\ \A a \in Accounts : ~HasRow(a)
    /\ borrower' = FALSE
    /\ writes' = [writes EXCEPT ![txn[w].request] = @ + 1]
    /\ txn' = [txn EXCEPT ![w].pc = "chronicling"]
    /\ UNCHANGED <<accounts, payments, approvals, erased, overlapped>>

ChronicleErasure(w) ==
    /\ txn[w].pc = "chronicling"
    /\ erased' = erased \cup {txn[w].request}
    /\ txn' = [txn EXCEPT ![w] = Idle]
    /\ UNCHANGED <<data, approvals, writes, overlapped>>

ErasureSteps == {"erasing", "deletingHistory", "deletingAccounts",
                 "deletingBorrower", "chronicling"}

GoesOnErasing(w) ==
    /\ txn[w].pc \in ErasureSteps \cup {"applying"}
    /\ txn' = [txn EXCEPT ![w] =
                 IF @.pc = "applying" THEN Idle
                                      ELSE [@ EXCEPT !.pc = "chronicling"]]
    /\ UNCHANGED <<data, approvals, erased, writes, overlapped>>

(* Whatever fails while a payload is applied is logged and forgotten: the  *)
(* route goes on to its audit row, notification and answer, which change   *)
(* nothing here, as if all had been applied.                               *)
ApplyFails(w) ==
    /\ txn[w].pc \in ErasureSteps \cup {"applying"}
    /\ txn' = [txn EXCEPT ![w] = Idle]
    /\ UNCHANGED <<data, approvals, erased, writes, overlapped>>

(* Any other statement that fails ends its request.                        *)
Fail(w) ==
    /\ txn[w].pc \in {"deciding", "uploading"}
    /\ txn' = [txn EXCEPT ![w] = Idle]
    /\ UNCHANGED <<data, approvals, erased, writes, overlapped>>

(* The process dies; what was committed stays.                             *)
Crash ==
    /\ \E w \in Workers : txn[w] # Idle
    /\ txn' = [w \in Workers |-> Idle]
    /\ UNCHANGED <<data, approvals, erased, writes, overlapped>>

-----------------------------------------------------------------------------
Step(w) ==
    \/ ReadUpload(w) \/ UploadRow(w) \/ StageUpload(w)
    \/ ReadApproval(w) \/ Decide(w)
    \/ ApplyBorrower(w) \/ ApplyAccount(w) \/ Applied(w)
    \/ ReadAccounts(w) \/ DeleteHistory(w) \/ DeleteAccounts(w)
    \/ DeleteBorrower(w) \/ ChronicleErasure(w)
    \/ ApplyFails(w) \/ Fail(w)

Next ==
    \/ \E r \in Requests, u \in Makers :
          \/ SubmitBorrower(r, u) \/ SubmitAccount(r, u)
          \/ RequestErasure(r, u) \/ SubmitPayload(r, u)
    \/ ExternalAccount
    \/ \E a \in Accounts : RecordPayment(a)
    \/ \E w \in Workers : Step(w)
    \/ Crash

Spec == Init /\ [][Next]_vars

-----------------------------------------------------------------------------
ApprovalRows ==
    [kind : {NONE} \cup Kinds, items : SUBSET Accounts,
     to : {NONE} \cup Statuses, maker : {NONE} \cup Users,
     status : {NONE, "pending", "approved", "rejected"},
     checker : {NONE} \cup Users]

TxnRows ==
    [pc : ErasureSteps \cup {"idle", "uploading", "deciding", "applying"},
     request : {NONE} \cup Requests, todo : SUBSET Accounts,
     user : {NONE} \cup Users, decision : {NONE, "approved", "rejected"},
     seen : SUBSET Accounts, to : {NONE} \cup Statuses]

(* The variables hold rows and requests of their shapes.                   *)
TypeOK ==
    /\ borrower \in BOOLEAN
    /\ accounts \in [Accounts -> {NONE} \cup Statuses]
    /\ payments \subseteq Accounts
    /\ approvals \in [Requests -> ApprovalRows]
    /\ txn \in [Workers -> TxnRows]
    /\ erased \subseteq Requests
    /\ writes \in [Requests -> Nat]
    /\ overlapped \subseteq Requests

(* Once the trail says an erasure is complete, the borrower is gone with   *)
(* every account and payment, and no change, upload or payment brings one  *)
(* back: what others write between the statements of cascadeDeleteBorrower,*)
(* which run in no transaction, makes it fail before it says so.           *)
ErasureIsComplete ==
    erased # {} => /\ ~borrower
                   /\ \A a \in Accounts : ~HasRow(a)
                   /\ payments = {}

(* No more statements of a payload take effect than it has items, and none *)
(* unless its row says approved, except where two checkers found it        *)
(* pending at once: a review that failed or died halfway is not done again *)
(* by the next.                                                            *)
ReviewedOnce ==
    \A r \in Requests \ overlapped :
        LET row == approvals[r] IN
        /\ writes[r] > 0 => row.status = "approved"
        /\ writes[r] <= IF row.items = {} THEN 1 ELSE Cardinality(row.items)

(* What the erasure route answers to a request it refuses, "Close all      *)
(* accounts first.", promises: an account that is deleted was closed.      *)
LiveAccountsAreNotErased ==
    [][\A a \in Accounts :
          HasRow(a) /\ accounts'[a] = NONE
              => accounts[a] \in {"closed", "written_off"}]_vars
=============================================================================
