-------------------------- MODULE ApprovalsProofs --------------------------
(***************************************************************************)
(* For any number of requests, accounts, users and HTTP requests: an       *)
(* erasure is complete when the trail says so, and a payload that only one *)
(* checker took up is written once.                                        *)
(***************************************************************************)
EXTENDS Approvals, TLAPS, FiniteSetTheorems

Borrowers == {"create_borrower", "update_borrower"}

RowOK(r) ==
    LET row == approvals[r] IN
    /\ row.status = NONE => row = NoApproval
    /\ row.items # {} => row.to \in Statuses
    /\ row.kind \in Borrowers \cup {"erase"} => row.items = {}

(* What a request under way may count on.                                  *)
TxnFits(w) ==
    LET t == txn[w] IN
    /\ t.pc = "idle" => t = Idle
    /\ t.pc = "uploading" =>
          t.request = NONE /\ t.to \in Statuses /\ t.user \in Users
    /\ t.pc \notin {"idle", "uploading"} =>
          t.request \in Requests /\ approvals[t.request].status # NONE
    /\ t.pc = "deciding" => t.decision \in {"approved", "rejected"}
    /\ t.pc = "applying" => t.todo \subseteq approvals[t.request].items
    /\ t.pc \in ErasureSteps => approvals[t.request].kind = "erase"
    /\ t.pc = "chronicling" => ~borrower

(* The foreign keys.                                                       *)
KeysHold ==
    /\ ~borrower => \A a \in Accounts : ~HasRow(a)
    /\ \A a \in payments : HasRow(a)
    /\ erased # {} => ~borrower

IInv ==
    /\ TypeOK
    /\ \A r \in Requests : RowOK(r)
    /\ \A w \in Workers : TxnFits(w)
    /\ KeysHold

LEMMA InitIInv == ApprovalsNames /\ Init => IInv
BY DEF ApprovalsNames, Init, IInv, TypeOK, TxnRows, ApprovalRows, RowOK,
       TxnFits, KeysHold, NoApproval, Approval, Idle, Txn, HasRow, Users, Kinds, ErasureSteps, Borrowers

-----------------------------------------------------------------------------
(* Staging a change disturbs nobody.                                       *)
LEMMA StagingKeeps ==
    ASSUME ApprovalsNames, IInv, NEW r \in Requests, NEW u \in Users,
           NEW kind \in Kinds, NEW items \in SUBSET Accounts,
           NEW to \in {NONE} \cup Statuses,
           items # {} => to \in Statuses,
           kind \in Borrowers \cup {"erase"} => items = {},
           Stage(r, kind, items, to, u)
    PROVE  /\ approvals' \in [Requests -> ApprovalRows]
           /\ \A q \in Requests : RowOK(q)'
           /\ \A q \in Requests : approvals[q].status # NONE =>
                 approvals'[q] = approvals[q]
<1>1. approvals \in [Requests -> ApprovalRows]
  BY DEF IInv, TypeOK, TxnRows, ApprovalRows
<1>2. /\ approvals[r] = NoApproval
      /\ approvals' = [approvals EXCEPT ![r] = Approval(kind, items, to, u, "pending")]
  BY DEF Stage
<1>3. approvals[r].status = NONE
  BY <1>2 DEF NoApproval, Approval
<1>4. Approval(kind, items, to, u, "pending") \in ApprovalRows
  BY DEF Approval, ApprovalRows
<1>5. ASSUME NEW q \in Requests
      PROVE  RowOK(q)' /\ (approvals[q].status # NONE =>
                             approvals'[q] = approvals[q])
  <2>1. CASE q = r
    <3>1. approvals'[q] = Approval(kind, items, to, u, "pending")
      BY <1>1, <1>2, <2>1
    <3> QED BY <1>3, <2>1, <3>1, SMT DEF RowOK, Approval, ApprovalsNames
  <2>2. CASE q # r
    <3>1. approvals'[q] = approvals[q]
      BY <1>1, <1>2, <2>2
    <3> QED BY <3>1 DEF RowOK, IInv
  <2> QED BY <2>1, <2>2
<1> QED BY <1>1, <1>2, <1>4, <1>5

-----------------------------------------------------------------------------
(* What a step leaves of the rows that requests rely on.                   *)
RowsKept ==
    /\ \A r \in Requests : approvals[r].status # NONE =>
          /\ approvals'[r].status # NONE
          /\ approvals'[r].items = approvals[r].items
          /\ approvals'[r].kind = approvals[r].kind
    /\ ~borrower => ~borrower'

LEMMA OthersFit ==
    ASSUME IInv, NEW v \in Workers, RowsKept, txn'[v] = txn[v]
    PROVE  TxnFits(v)'
BY DEF IInv, TypeOK, TxnRows, ApprovalRows, TxnFits, RowsKept, Idle, Txn, ErasureSteps

(* A step of one request that leaves the staged rows alone.                *)
LEMMA StepKeeps ==
    ASSUME IInv, NEW w \in Workers, NEW t,
           txn' = [txn EXCEPT ![w] = t], UNCHANGED approvals,
           ~borrower => ~borrower', TxnFits(w)'
    PROVE  /\ \A r \in Requests : RowOK(r)'
           /\ \A v \in Workers : TxnFits(v)'
<1>1. \A r \in Requests : RowOK(r)'
  BY DEF IInv, RowOK
<1>2. RowsKept
  BY DEF RowsKept
<1>3. \A v \in Workers : v # w => txn'[v] = txn[v]
  BY DEF IInv, TypeOK, TxnRows, ApprovalRows
<1> QED BY <1>1, <1>2, <1>3, OthersFit

(* The statements on accounts respect the keys.                            *)
LEMMA UpsertKeeps ==
    ASSUME ApprovalsNames, IInv, NEW a \in Accounts, NEW to \in Statuses,
           Upsert(a, to) \/ Update(a, to), UNCHANGED erased
    PROVE  /\ KeysHold'
           /\ accounts' \in [Accounts -> {NONE} \cup Statuses]
           /\ UNCHANGED <<borrower, payments>>
<1>1. NONE \notin Statuses
  BY DEF ApprovalsNames
<1>2. /\ accounts \in [Accounts -> {NONE} \cup Statuses]
      /\ payments \subseteq Accounts
  BY DEF IInv, TypeOK, TxnRows, ApprovalRows
<1>3. CASE Upsert(a, to)
  BY <1>1, <1>2, <1>3 DEF Upsert, KeysHold, HasRow, IInv
<1>4. CASE Update(a, to)
  BY <1>1, <1>2, <1>4 DEF Update, KeysHold, HasRow, IInv
<1> QED BY <1>3, <1>4

-----------------------------------------------------------------------------
LEMMA SubmissionsKeep ==
    ASSUME ApprovalsNames, IInv, NEW r \in Requests, NEW u \in Makers,
           \/ SubmitBorrower(r, u) \/ SubmitAccount(r, u)
           \/ RequestErasure(r, u) \/ SubmitPayload(r, u)
    PROVE  IInv'
<1>1. PICK kind \in Kinds, items \in SUBSET Accounts, to \in {NONE} \cup Statuses :
         /\ items # {} => to \in Statuses
         /\ kind \in Borrowers \cup {"erase"} => items = {}
         /\ Stage(r, kind, items, to, u)
  <2>1. CASE SubmitBorrower(r, u)
    BY <2>1 DEF SubmitBorrower, Kinds
  <2>2. CASE SubmitAccount(r, u)
    BY <2>2 DEF SubmitAccount, Kinds, Borrowers
  <2>3. CASE RequestErasure(r, u)
    BY <2>3 DEF RequestErasure, Kinds
  <2>4. CASE SubmitPayload(r, u)
    BY <2>4 DEF SubmitPayload, Kinds, Borrowers
  <2> QED BY <2>1, <2>2, <2>3, <2>4
<1>2. UNCHANGED <<data, txn, erased, writes, overlapped>>
  BY DEF SubmitBorrower, SubmitAccount, RequestErasure, SubmitPayload
<1>3. u \in Users
  BY DEF Users
<1>4. /\ TypeOK'
      /\ \A q \in Requests : RowOK(q)'
      /\ RowsKept
  BY <1>1, <1>2, <1>3, StagingKeeps DEF IInv, TypeOK, TxnRows, ApprovalRows, data, RowsKept
<1>5. \A w \in Workers : TxnFits(w)'
  BY <1>2, <1>4, OthersFit
<1>6. KeysHold'
  BY <1>2 DEF IInv, KeysHold, HasRow, data
<1> QED BY <1>4, <1>5, <1>6 DEF IInv

LEMMA DirectWritesKeep ==
    ASSUME ApprovalsNames, IInv,
           ExternalAccount \/ \E a \in Accounts : RecordPayment(a)
    PROVE  IInv'
<1>1. CASE ExternalAccount
  <2>1. PICK a \in Accounts, to \in Statuses : Upsert(a, to)
    BY <1>1 DEF ExternalAccount
  <2>2. UNCHANGED <<approvals, txn, erased, writes, overlapped>>
    BY <1>1 DEF ExternalAccount
  <2>3. /\ KeysHold'
        /\ accounts' \in [Accounts -> {NONE} \cup Statuses]
        /\ UNCHANGED <<borrower, payments>>
    BY <2>1, <2>2, UpsertKeeps
  <2> QED BY <2>2, <2>3 DEF IInv, TypeOK, TxnRows, ApprovalRows, RowOK, TxnFits
<1>2. ASSUME NEW a \in Accounts, RecordPayment(a)
      PROVE  IInv'
  BY <1>2 DEF RecordPayment, IInv, TypeOK, RowOK, TxnFits, KeysHold, HasRow
<1> QED BY <1>1, <1>2

LEMMA UploadsKeep ==
    ASSUME ApprovalsNames, IInv, NEW w \in Workers,
           ReadUpload(w) \/ UploadRow(w) \/ StageUpload(w)
    PROVE  IInv'
<1> USE DEF IInv
<1>1. CASE ReadUpload(w)
  <2>1. PICK items \in SUBSET Accounts, to \in Statuses, u \in Makers :
          txn' = [txn EXCEPT ![w] = Uploading(u, items, to)]
    BY <1>1 DEF ReadUpload
  <2>2. UNCHANGED <<data, approvals, erased, writes, overlapped>>
    BY <1>1 DEF ReadUpload
  <2>3. TypeOK' /\ KeysHold'
    BY <2>1, <2>2 DEF TypeOK, TxnRows, KeysHold, HasRow, data, Uploading, Users
  <2>4. txn'[w] = Uploading(u, items, to)
    BY <2>1 DEF TypeOK, TxnRows, ApprovalRows
  <2>5. TxnFits(w)'
    BY <2>4 DEF TxnFits, Uploading, ErasureSteps, Users
  <2> QED BY <2>1, <2>2, <2>3, <2>5, StepKeeps DEF data
<1>2. CASE UploadRow(w)
  <2>1. PICK a \in txn[w].todo :
          /\ txn[w].pc = "uploading"
          /\ txn' = [txn EXCEPT ![w].todo = @ \ {a}]
          /\ Upsert(a, txn[w].to) \/ UNCHANGED data
          /\ UNCHANGED <<approvals, erased, writes, overlapped>>
    BY <1>2 DEF UploadRow
  <2>2. /\ a \in Accounts /\ txn[w].to \in Statuses
        /\ txn[w].request = NONE
    BY <2>1 DEF TypeOK, TxnRows, ApprovalRows, TxnFits
  <2>3. /\ KeysHold'
        /\ accounts' \in [Accounts -> {NONE} \cup Statuses]
        /\ UNCHANGED <<borrower, payments>>
    BY <2>1, <2>2, UpsertKeeps DEF TypeOK, TxnRows, ApprovalRows, KeysHold, HasRow, data
  <2> DEFINE t == [txn[w] EXCEPT !.todo = @ \ {a}]
  <2>4. /\ txn' = [txn EXCEPT ![w] = t]
        /\ txn'[w] = t
    BY <2>1 DEF TypeOK, TxnRows, ApprovalRows
  <2>5. TxnFits(w)'
    BY <2>1, <2>2, <2>4 DEF TxnFits, TypeOK, TxnRows, ApprovalRows, ErasureSteps
  <2>6. t \in TxnRows
    <3>1. txn[w] \in TxnRows
      BY DEF TypeOK
    <3>2. txn[w].todo \ {a} \in SUBSET Accounts
      BY <3>1 DEF TxnRows
    <3> QED BY <3>1, <3>2 DEF TxnRows
  <2> HIDE DEF t
  <2>7. TypeOK'
    BY <2>1, <2>3, <2>4, <2>6 DEF TypeOK
  <2> QED BY <2>1, <2>3, <2>4, <2>5, <2>7, StepKeeps
<1>3. CASE StageUpload(w)
  <2>1. /\ txn[w].pc = "uploading"
        /\ txn' = [txn EXCEPT ![w] = Idle]
        /\ UNCHANGED <<data, erased, writes, overlapped>>
    BY <1>3 DEF StageUpload
  <2>2. txn[w].to \in Statuses /\ txn[w].seen \in SUBSET Accounts
    BY <2>1 DEF TxnFits, TypeOK, TxnRows, ApprovalRows
  <2>3. CASE UNCHANGED approvals
    <3>1. TxnFits(w)'
      BY <2>1 DEF TypeOK, TxnRows, ApprovalRows, TxnFits, Idle, Txn, ErasureSteps
    <3>2. TypeOK' /\ KeysHold'
      BY <2>1, <2>3 DEF TypeOK, TxnRows, ApprovalRows, KeysHold, HasRow, data, Idle, Txn
    <3> QED BY <2>1, <2>3, <3>1, <3>2, StepKeeps DEF data
  <2>4. ASSUME NEW r \in Requests,
               Stage(r, "update_batch", txn[w].seen, txn[w].to, txn[w].user)
        PROVE  IInv'
    <3>1. txn[w].user \in Users
      BY <2>1 DEF TxnFits
    <3>2. /\ \A q \in Requests : RowOK(q)'
          /\ RowsKept
          /\ TypeOK'
      BY <2>1, <2>2, <2>4, <3>1, StagingKeeps
         DEF TypeOK, TxnRows, ApprovalRows, RowsKept, Kinds, Borrowers, data, Idle, Txn
    <3>3. \A v \in Workers : TxnFits(v)'
      <4>1. TxnFits(w)'
        BY <2>1 DEF TypeOK, TxnRows, ApprovalRows, TxnFits, Idle, Txn, ErasureSteps
      <4>2. \A v \in Workers : v # w => txn'[v] = txn[v]
        BY <2>1 DEF TypeOK, TxnRows, ApprovalRows
      <4> QED BY <3>2, <4>1, <4>2, OthersFit
    <3>4. KeysHold'
      BY <2>1 DEF KeysHold, HasRow, data
    <3> QED BY <3>2, <3>3, <3>4
  <2> QED BY <1>3, <2>3, <2>4 DEF StageUpload
<1> QED BY <1>1, <1>2, <1>3

-----------------------------------------------------------------------------
LEMMA EndKeeps ==
    ASSUME IInv, NEW w \in Workers, txn' = [txn EXCEPT ![w] = Idle],
           UNCHANGED approvals, ~borrower => ~borrower'
    PROVE  /\ txn' \in [Workers -> TxnRows]
           /\ \A r \in Requests : RowOK(r)'
           /\ \A v \in Workers : TxnFits(v)'
<1>1. txn'[w] = Idle
  BY DEF IInv, TypeOK
<1>2. TxnFits(w)'
  BY <1>1 DEF TxnFits, Idle, Txn, ErasureSteps
<1>3. txn' \in [Workers -> TxnRows]
  BY DEF IInv, TypeOK, Idle, Txn, TxnRows
<1> QED BY <1>2, <1>3, StepKeeps

LEMMA ReviewsKeep ==
    ASSUME ApprovalsNames, IInv, NEW w \in Workers,
           \/ ReadApproval(w) \/ Decide(w)
           \/ ApplyBorrower(w) \/ ApplyAccount(w) \/ Applied(w)
    PROVE  IInv'
<1>0. /\ txn[w] \in TxnRows
      /\ TxnFits(w)
  BY DEF IInv, TypeOK
<1>1. CASE ReadApproval(w)
  <2>1. PICK r \in Requests, u \in Checkers, decision \in {"approved", "rejected"} :
          /\ CanReview(r, u)
          /\ txn' = [txn EXCEPT ![w] = Reviewing(r, u, decision)]
          /\ overlapped' = IF Deciding(r) = {} THEN overlapped
                                               ELSE overlapped \cup {r}
          /\ UNCHANGED <<data, approvals, erased, writes>>
    BY <1>1 DEF ReadApproval
  <2>2. txn'[w] = Reviewing(r, u, decision)
    BY <2>1 DEF IInv, TypeOK
  <2>3. TxnFits(w)'
    BY <2>1, <2>2 DEF TxnFits, Reviewing, CanReview, ErasureSteps, ApprovalsNames
  <2>4. Reviewing(r, u, decision) \in TxnRows
    BY DEF Reviewing, TxnRows, Users
  <2>5. TypeOK' /\ KeysHold'
    BY <2>1, <2>4 DEF IInv, TypeOK, KeysHold, HasRow, data
  <2> QED BY <2>1, <2>3, <2>5, StepKeeps DEF IInv, data
<1>2. CASE Decide(w)
  <2> DEFINE r == txn[w].request
             row == [approvals[r] EXCEPT !.status = txn[w].decision,
                                         !.checker = txn[w].user]
             t == IF txn[w].decision = "rejected" THEN Idle
                  ELSE Txn(IF approvals[r].kind = "erase" THEN "erasing"
                           ELSE "applying", r, approvals[r].items)
  <2>1. /\ txn[w].pc = "deciding"
        /\ txn' = [txn EXCEPT ![w] = t]
        /\ UNCHANGED <<data, erased, writes, overlapped>>
    BY <1>2 DEF Decide
  <2>2. /\ r \in Requests
        /\ approvals[r].status # NONE
        /\ txn[w].decision \in {"approved", "rejected"}
    BY <1>0, <2>1 DEF TxnFits
  <2>3. approvals[r] \in ApprovalRows
    BY <2>2 DEF IInv, TypeOK
  <2>4. approvals' = [approvals EXCEPT ![r] = row]
    BY <1>2, <2>2, <2>3 DEF Decide, IInv, TypeOK
  <2>5. /\ row \in ApprovalRows
        /\ row.status = txn[w].decision
        /\ row.items = approvals[r].items
        /\ row.kind = approvals[r].kind
        /\ row.to = approvals[r].to
    BY <1>0, <2>2, <2>3 DEF ApprovalRows, TxnRows
  <2>6. /\ t \in TxnRows
        /\ t = Idle \/ t.pc \in {"erasing", "applying"}
    BY <2>2, <2>3 DEF Txn, Idle, TxnRows, ApprovalRows, ErasureSteps
  <2>7. approvals'[r] = row /\ txn'[w] = t
    BY <2>1, <2>2, <2>4 DEF IInv, TypeOK
  <2>8. txn[w].decision # NONE
    BY <2>2 DEF ApprovalsNames
  <2>9. TxnFits(w)'
    <3>1. CASE txn[w].decision = "rejected"
      BY <2>7, <3>1 DEF TxnFits, Idle, Txn, ErasureSteps
    <3>2. CASE txn[w].decision # "rejected"
      <4>1. PICK pc \in {"erasing", "applying"} :
              /\ txn'[w] = Txn(pc, r, approvals[r].items)
              /\ pc = "erasing" => approvals[r].kind = "erase"
        BY <2>7, <3>2
      <4>2. /\ approvals'[r].items = approvals[r].items
            /\ approvals'[r].kind = approvals[r].kind
            /\ approvals'[r].status # NONE
        BY <2>5, <2>7, <2>8
      <4>3. /\ txn'[w].pc = pc /\ txn'[w].request = r
            /\ txn'[w].todo = approvals[r].items
        BY <4>1 DEF Txn
      <4> HIDE DEF row, r
      <4> QED BY <2>2, <4>1, <4>2, <4>3 DEF TxnFits, ErasureSteps
    <3> QED BY <3>1, <3>2
  <2> HIDE DEF row, t
  <2>10. \A q \in Requests : q # r => approvals'[q] = approvals[q]
    BY <2>4 DEF IInv, TypeOK
  <2>11. RowsKept
    BY <2>1, <2>5, <2>7, <2>8, <2>10 DEF RowsKept, data
  <2>12. \A v \in Workers : TxnFits(v)'
    <3>1. \A v \in Workers : v # w => txn'[v] = txn[v]
      BY <2>1 DEF IInv, TypeOK
    <3> QED BY <2>9, <2>11, <3>1, OthersFit
  <2>13. \A q \in Requests : RowOK(q)'
    BY <2>2, <2>5, <2>7, <2>8, <2>10 DEF RowOK, IInv
  <2>14. /\ approvals' \in [Requests -> ApprovalRows]
         /\ txn' \in [Workers -> TxnRows]
    BY <2>1, <2>4, <2>5, <2>6 DEF IInv, TypeOK
  <2>15. TypeOK' /\ KeysHold'
    BY <2>1, <2>14 DEF IInv, TypeOK, KeysHold, HasRow, data
  <2> QED BY <2>12, <2>13, <2>15 DEF IInv
<1>3. CASE ApplyBorrower(w)
  <2>1. /\ txn[w].pc = "applying"
        /\ writes' = [writes EXCEPT ![txn[w].request] = @ + 1]
        /\ txn' = [txn EXCEPT ![w] = Idle]
        /\ UNCHANGED <<data, approvals, erased, overlapped>>
    BY <1>3 DEF ApplyBorrower
  <2>2. txn[w].request \in Requests
    BY <1>0, <2>1 DEF TxnFits
  <2>3. writes' \in [Requests -> Nat]
    BY <2>1, <2>2 DEF IInv, TypeOK
  <2> QED BY <2>1, <2>3, EndKeeps DEF IInv, TypeOK, KeysHold, HasRow, data
<1>4. CASE ApplyAccount(w)
  <2> DEFINE r == txn[w].request
  <2>1. PICK a \in txn[w].todo :
          /\ txn[w].pc = "applying"
          /\ txn' = [txn EXCEPT ![w].todo = @ \ {a}]
          /\ \/ /\ Upsert(a, approvals[r].to) \/ Update(a, approvals[r].to)
                /\ writes' = [writes EXCEPT ![r] = @ + 1]
             \/ UNCHANGED <<data, writes>>
          /\ UNCHANGED <<approvals, erased, overlapped>>
    BY <1>4 DEF ApplyAccount
  <2>2. /\ r \in Requests
        /\ a \in Accounts
        /\ approvals[r].to \in Statuses
    BY <1>0, <2>1 DEF TxnFits, RowOK, IInv, TxnRows, ErasureSteps
  <2>3. /\ KeysHold'
        /\ accounts' \in [Accounts -> {NONE} \cup Statuses]
        /\ UNCHANGED <<borrower, payments>>
    BY <2>1, <2>2, UpsertKeeps DEF IInv, TypeOK, KeysHold, HasRow, data
  <2>4. writes' \in [Requests -> Nat]
    BY <2>1, <2>2 DEF IInv, TypeOK
  <2> DEFINE t == [txn[w] EXCEPT !.todo = @ \ {a}]
  <2>5. t \in TxnRows
    BY <1>0 DEF TxnRows
  <2>6. txn' = [txn EXCEPT ![w] = t] /\ txn'[w] = t
    BY <2>1 DEF IInv, TypeOK
  <2>7. TxnFits(w)'
    BY <1>0, <2>1, <2>6 DEF TxnFits, ErasureSteps, TxnRows
  <2> HIDE DEF t
  <2>8. TypeOK'
    BY <2>1, <2>3, <2>4, <2>5, <2>6 DEF IInv, TypeOK
  <2> QED BY <2>1, <2>3, <2>6, <2>7, <2>8, StepKeeps DEF IInv
<1>5. CASE Applied(w)
  BY <1>5, EndKeeps DEF Applied, IInv, TypeOK, KeysHold, HasRow, data
<1> QED BY <1>1, <1>2, <1>3, <1>4, <1>5

LEMMA ErasuresKeep ==
    ASSUME ApprovalsNames, IInv, NEW w \in Workers,
           \/ ReadAccounts(w) \/ DeleteHistory(w) \/ DeleteAccounts(w)
           \/ DeleteBorrower(w) \/ ChronicleErasure(w)
    PROVE  IInv'
<1>0. /\ txn[w] \in TxnRows
      /\ TxnFits(w)
      /\ txn[w].pc \in ErasureSteps
  BY DEF IInv, TypeOK, ReadAccounts, DeleteHistory, DeleteAccounts,
         DeleteBorrower, ChronicleErasure, ErasureSteps
<1>1. /\ txn[w].request \in Requests
      /\ approvals[txn[w].request].status # NONE
      /\ approvals[txn[w].request].kind = "erase"
  BY <1>0 DEF TxnFits, ErasureSteps
<1>2. ASSUME NEW pc \in ErasureSteps, NEW seen \in SUBSET Accounts,
             txn' = [txn EXCEPT ![w].pc = pc, ![w].seen = seen],
             UNCHANGED approvals, ~borrower => ~borrower',
             pc = "chronicling" => ~borrower'
      PROVE  /\ txn' \in [Workers -> TxnRows]
             /\ \A r \in Requests : RowOK(r)'
             /\ \A v \in Workers : TxnFits(v)'
  <2> DEFINE t == [txn[w] EXCEPT !.pc = pc, !.seen = seen]
  <2>1. txn' = [txn EXCEPT ![w] = t] /\ txn'[w] = t
    BY <1>2 DEF IInv, TypeOK
  <2>2. t \in TxnRows
    BY <1>0 DEF TxnRows
  <2>3. t.pc = pc /\ t.request = txn[w].request
    BY <1>0 DEF TxnRows
  <2> HIDE DEF t
  <2>4. TxnFits(w)'
    BY <1>1, <1>2, <2>1, <2>3 DEF TxnFits, ErasureSteps
  <2>5. txn' \in [Workers -> TxnRows]
    BY <2>1, <2>2 DEF IInv, TypeOK
  <2> QED BY <1>2, <2>1, <2>4, <2>5, StepKeeps
<1>3. ASSUME NEW pc \in ErasureSteps, txn' = [txn EXCEPT ![w].pc = pc]
      PROVE  /\ txn[w].seen \in SUBSET Accounts
             /\ txn' = [txn EXCEPT ![w].pc = pc, ![w].seen = txn[w].seen]
  <2>1. [txn[w] EXCEPT !.pc = pc]
           = [txn[w] EXCEPT !.pc = pc, !.seen = txn[w].seen]
    BY <1>0 DEF TxnRows
  <2> QED BY <1>0, <1>3, <2>1 DEF TxnRows, IInv, TypeOK
<1>4. CASE ReadAccounts(w)
  <2>1. /\ txn' \in [Workers -> TxnRows]
        /\ \A r \in Requests : RowOK(r)'
        /\ \A v \in Workers : TxnFits(v)'
    BY <1>2, <1>4 DEF ReadAccounts, ErasureSteps, data
  <2> QED BY <1>4, <2>1 DEF ReadAccounts, IInv, TypeOK, KeysHold, HasRow, data
<1>5. CASE DeleteHistory(w)
  <2>1. /\ txn' \in [Workers -> TxnRows]
        /\ \A r \in Requests : RowOK(r)'
        /\ \A v \in Workers : TxnFits(v)'
    <3>1. /\ txn' = [txn EXCEPT ![w].pc = "deletingAccounts", ![w].seen = {}]
          /\ UNCHANGED <<borrower, approvals>>
          /\ "deletingAccounts" \in ErasureSteps
          /\ {} \in SUBSET Accounts
      BY <1>5 DEF DeleteHistory, ErasureSteps
    <3> QED BY <1>2, <3>1
  <2> QED BY <1>5, <2>1 DEF DeleteHistory, IInv, TypeOK, KeysHold, HasRow, data
<1>6. CASE DeleteAccounts(w)
  <2>1. /\ txn' \in [Workers -> TxnRows]
        /\ \A r \in Requests : RowOK(r)'
        /\ \A v \in Workers : TxnFits(v)'
    BY <1>2, <1>3, <1>6 DEF DeleteAccounts, ErasureSteps, data
  <2> QED BY <1>6, <2>1 DEF DeleteAccounts, IInv, TypeOK, KeysHold, HasRow
<1>7. CASE DeleteBorrower(w)
  <2>1. /\ txn' \in [Workers -> TxnRows]
        /\ \A r \in Requests : RowOK(r)'
        /\ \A v \in Workers : TxnFits(v)'
    BY <1>2, <1>3, <1>7 DEF DeleteBorrower, ErasureSteps, data
  <2>2. writes' \in [Requests -> Nat]
    BY <1>1, <1>7 DEF DeleteBorrower, IInv, TypeOK
  <2> QED BY <1>7, <2>1, <2>2 DEF DeleteBorrower, IInv, TypeOK, KeysHold, HasRow
<1>8. CASE ChronicleErasure(w)
  <2>1. /\ txn' \in [Workers -> TxnRows]
        /\ \A r \in Requests : RowOK(r)'
        /\ \A v \in Workers : TxnFits(v)'
    BY <1>8, EndKeeps DEF ChronicleErasure, data
  <2>2. ~borrower
    BY <1>0, <1>8 DEF ChronicleErasure, TxnFits
  <2> QED BY <1>1, <1>8, <2>1, <2>2
          DEF ChronicleErasure, IInv, TypeOK, KeysHold, HasRow, data
<1> QED BY <1>4, <1>5, <1>6, <1>7, <1>8

LEMMA FailuresKeep ==
    ASSUME IInv, NEW w \in Workers, ApplyFails(w) \/ Fail(w)
    PROVE  IInv'
BY EndKeeps DEF ApplyFails, Fail, IInv, TypeOK, KeysHold, HasRow, data

LEMMA CrashKeeps == IInv /\ Crash => IInv'
BY DEF Crash, IInv, TypeOK, RowOK, TxnFits, KeysHold, HasRow, data, Idle, Txn,
       TxnRows, ErasureSteps

LEMMA NextKeepsIInv == ApprovalsNames /\ IInv /\ [Next]_vars => IInv'
<1> SUFFICES ASSUME ApprovalsNames, IInv, [Next]_vars PROVE IInv'
  OBVIOUS
<1>1. ASSUME NEW r \in Requests, NEW u \in Makers,
             \/ SubmitBorrower(r, u) \/ SubmitAccount(r, u)
           \/ RequestErasure(r, u) \/ SubmitPayload(r, u)
      PROVE  IInv'
  BY <1>1, SubmissionsKeep
<1>2. ASSUME NEW w \in Workers, Step(w) PROVE IInv'
  BY <1>2, UploadsKeep, ReviewsKeep, ErasuresKeep, FailuresKeep DEF Step
<1>3. CASE UNCHANGED vars
  BY <1>3 DEF vars, data, IInv, TypeOK, RowOK, TxnFits, KeysHold, HasRow
<1> QED BY <1>1, <1>2, <1>3, DirectWritesKeep, CrashKeeps DEF Next

(* Every behaviour keeps the shapes, whatever requests overlap.            *)
THEOREM ApprovalsTyped == Spec => []TypeOK
<1>1. IInv => TypeOK
  BY DEF IInv
<1> QED BY <1>1, InitIInv, NextKeepsIInv, ApprovalsNames, PTL DEF Spec

(* cascadeDeleteBorrower runs in no transaction, yet when it is chronicled *)
(* the borrower and all that refers to it are gone for good.               *)
THEOREM ErasuresAreComplete == Spec => []ErasureIsComplete
<1>1. IInv => ErasureIsComplete
  BY DEF IInv, KeysHold, ErasureIsComplete, TypeOK
<1> QED BY <1>1, InitIInv, NextKeepsIInv, ApprovalsNames, PTL DEF Spec

-----------------------------------------------------------------------------
(* How many statements a payload has, and how many a review has left.      *)
Bound(items) == IF items = {} THEN 1 ELSE Cardinality(items)
Left(t, items) ==
    IF items # {} THEN Cardinality(t.todo)
    ELSE IF t.pc = "chronicling" THEN 0 ELSE 1

OnceOK(r) ==
    LET row == approvals[r] IN
    r \notin overlapped =>
      /\ \A v, w \in Workers :
            txn[v].request = r /\ txn[w].request = r => v = w
      /\ row.status \in {NONE, "pending"} => writes[r] = 0
      /\ \A w \in Workers : txn[w].request = r =>
            IF txn[w].pc = "deciding" THEN row.status = "pending"
            ELSE /\ row.status = "approved"
                 /\ writes[r] + Left(txn[w], row.items) <= Bound(row.items)
      /\ writes[r] > 0 => row.status = "approved"
      /\ writes[r] <= Bound(row.items)

OInv == IInv /\ \A r \in Requests : OnceOK(r)

LEMMA Counts ==
    ASSUME ApprovalsAreFinite, NEW items \in SUBSET Accounts
    PROVE  /\ Bound(items) \in Nat
           /\ Bound(items) >= 1
           /\ \A t : t.todo \in SUBSET Accounts => Left(t, items) \in Nat
           /\ \A a \in items : /\ Cardinality(items \ {a}) = Cardinality(items) - 1
                               /\ Cardinality(items) \in Nat
<1>1. \A s \in SUBSET Accounts : IsFiniteSet(s) /\ Cardinality(s) \in Nat
  BY FS_Subset, FS_CardinalityType DEF ApprovalsAreFinite
<1>2. items # {} => Cardinality(items) >= 1
  BY <1>1, FS_EmptySet
<1>3. ASSUME NEW t, t.todo \in SUBSET Accounts
      PROVE  Left(t, items) \in Nat
  BY <1>1, <1>3 DEF Left
<1>4. \A a \in items : Cardinality(items \ {a}) = Cardinality(items) - 1
  BY <1>1, FS_RemoveElement
<1> QED BY <1>1, <1>2, <1>3, <1>4 DEF Bound

(* Whoever works on other requests, or goes on without writing, disturbs   *)
(* no count.                                                               *)
LEMMA OthersKeepOnce ==
    ASSUME ApprovalsAreFinite, OInv, IInv', NEW r \in Requests,
           overlapped \subseteq overlapped',
           approvals'[r] = approvals[r], writes'[r] = writes[r],
           \A w \in Workers : txn'[w].request = r =>
              /\ txn[w].request = r
              /\ txn'[w].pc = "deciding" <=> txn[w].pc = "deciding"
              /\ Left(txn'[w], approvals[r].items)
                    <= Left(txn[w], approvals[r].items)
    PROVE  OnceOK(r)'
<1> SUFFICES ASSUME r \notin overlapped' PROVE OnceOK(r)'
  BY DEF OnceOK
<1>1. OnceOK(r) /\ r \notin overlapped
  BY DEF OInv
<1>2. /\ approvals[r].items \in SUBSET Accounts
      /\ writes[r] \in Nat
      /\ \A w \in Workers : /\ txn[w].todo \in SUBSET Accounts
                            /\ txn'[w].todo \in SUBSET Accounts
  BY DEF OInv, IInv, TypeOK, TxnRows, ApprovalRows
<1>3. /\ Bound(approvals[r].items) \in Nat
      /\ \A w \in Workers : /\ Left(txn[w], approvals[r].items) \in Nat
                            /\ Left(txn'[w], approvals[r].items) \in Nat
  BY <1>2, Counts
<1>4. ASSUME NEW w \in Workers, txn'[w].request = r, txn'[w].pc # "deciding"
      PROVE  /\ approvals[r].status = "approved"
             /\ writes[r] + Left(txn'[w], approvals[r].items)
                   <= Bound(approvals[r].items)
  <2>1. /\ approvals[r].status = "approved"
        /\ writes[r] + Left(txn[w], approvals[r].items)
              <= Bound(approvals[r].items)
        /\ Left(txn'[w], approvals[r].items) <= Left(txn[w], approvals[r].items)
    BY <1>1, <1>4 DEF OnceOK
  <2> QED BY <1>2, <1>3, <2>1
<1>5. ASSUME NEW w \in Workers, txn'[w].request = r, txn'[w].pc = "deciding"
      PROVE  approvals[r].status = "pending"
  BY <1>1, <1>5 DEF OnceOK
<1> QED BY <1>1, <1>4, <1>5 DEF OnceOK

LEMMA InitOnce == ApprovalsNames /\ ApprovalsAreFinite /\ Init => OInv
<1> SUFFICES ASSUME ApprovalsNames, ApprovalsAreFinite, Init PROVE OInv
  OBVIOUS
<1>1. IInv
  BY InitIInv
<1>2. Bound({}) >= 1 /\ Bound({}) \in Nat
  BY Counts
<1>3. ASSUME NEW r \in Requests PROVE OnceOK(r)
  <2>1. r # NONE
    BY DEF ApprovalsNames
  <2>2. /\ \A w \in Workers : txn[w].request = NONE
        /\ approvals[r].items = {}
        /\ writes[r] = 0
    BY DEF Init, Idle, Txn, NoApproval, Approval
  <2> QED BY <1>2, <2>1, <2>2 DEF OnceOK
<1> QED BY <1>1, <1>3 DEF OInv

LEMMA StepKeepsOnce ==
    ASSUME ApprovalsAreFinite, OInv, IInv', NEW r \in Requests,
           NEW w \in Workers, NEW t, txn' = [txn EXCEPT ![w] = t],
           overlapped \subseteq overlapped',
           approvals'[r] = approvals[r], writes'[r] = writes[r],
           t.request = r =>
              /\ txn[w].request = r
              /\ t.pc = "deciding" <=> txn[w].pc = "deciding"
              /\ Left(t, approvals[r].items) <= Left(txn[w], approvals[r].items)
    PROVE  OnceOK(r)'
<1>1. txn'[w] = t /\ \A v \in Workers \ {w} : txn'[v] = txn[v]
  BY DEF OInv, IInv, TypeOK
<1>2. ASSUME NEW v \in Workers \ {w}
      PROVE  Left(txn'[v], approvals[r].items) <= Left(txn[v], approvals[r].items)
  <2>1. /\ approvals[r].items \in SUBSET Accounts
        /\ txn[v].todo \in SUBSET Accounts
    BY DEF OInv, IInv, TypeOK, TxnRows, ApprovalRows
  <2>2. Left(txn[v], approvals[r].items) \in Nat
    BY <2>1, Counts
  <2> QED BY <1>1, <2>2
<1> QED BY <1>1, <1>2, OthersKeepOnce

LEMMA StagingKeepsOnce ==
    ASSUME ApprovalsNames, ApprovalsAreFinite, OInv, IInv', NEW q \in Requests,
           NEW kind \in Kinds, NEW items \in SUBSET Accounts, NEW to, NEW u,
           Stage(q, kind, items, to, u), UNCHANGED <<writes, overlapped>>,
           \A w \in Workers : txn'[w] = txn[w] \/ txn'[w].request = NONE
    PROVE  \A r \in Requests : OnceOK(r)'
<1>1. /\ approvals[q].status = NONE
      /\ approvals' = [approvals EXCEPT ![q] =
                         Approval(kind, items, to, u, "pending")]
  BY DEF Stage, NoApproval, Approval
<1>2. \A r \in Requests : r # NONE
  BY DEF ApprovalsNames
<1>3. \A w \in Workers : txn[w].request # q
  BY <1>1, <1>2 DEF OInv, IInv, TxnFits, Idle, Txn
<1>4. ASSUME NEW r \in Requests, r # q PROVE OnceOK(r)'
  <2>1. approvals'[r] = approvals[r]
    BY <1>1, <1>4 DEF OInv, IInv, TypeOK
  <2>2. ASSUME NEW w \in Workers, txn'[w].request = r
        PROVE  /\ txn'[w] = txn[w]
               /\ Left(txn[w], approvals[r].items) \in Nat
    <3>1. txn'[w] = txn[w]
      BY <1>2, <2>2
    <3>2. /\ approvals[r].items \in SUBSET Accounts
          /\ txn[w].todo \in SUBSET Accounts
      BY DEF OInv, IInv, TypeOK, TxnRows, ApprovalRows
    <3> QED BY <3>1, <3>2, Counts
  <2> QED BY <2>1, <2>2, OthersKeepOnce
<1>5. OnceOK(q)'
  <2>1. /\ approvals'[q].status = "pending"
        /\ approvals'[q].items = items
    BY <1>1 DEF OInv, IInv, TypeOK, Approval
  <2>2. \A w \in Workers : txn'[w].request # q
    BY <1>2, <1>3
  <2>3. q \notin overlapped => writes[q] = 0
    BY <1>1 DEF OInv, OnceOK
  <2>4. Bound(items) \in Nat /\ Bound(items) >= 1
    BY Counts
  <2> QED BY <2>1, <2>2, <2>3, <2>4 DEF OnceOK
<1> QED BY <1>4, <1>5

LEMMA ReadingKeepsOnce ==
    ASSUME ApprovalsNames, ApprovalsAreFinite, OInv, IInv', NEW w \in Workers,
           ReadApproval(w), NEW r \in Requests
    PROVE  OnceOK(r)'
<1>1. PICK q \in Requests, u \in Checkers, decision \in {"approved", "rejected"} :
        /\ txn[w] = Idle
        /\ CanReview(q, u)
        /\ txn' = [txn EXCEPT ![w] = Reviewing(q, u, decision)]
        /\ overlapped' = IF Deciding(q) = {} THEN overlapped
                                             ELSE overlapped \cup {q}
        /\ UNCHANGED <<data, approvals, erased, writes>>
  BY DEF ReadApproval
<1>2. Reviewing(q, u, decision).request = q
  BY DEF Reviewing
<1>3. CASE q # r
  BY <1>1, <1>2, <1>3, StepKeepsOnce
<1>4. CASE q = r
  <2> SUFFICES ASSUME r \notin overlapped' PROVE OnceOK(r)'
    BY DEF OnceOK
  <2>1. r \notin overlapped /\ Deciding(r) = {}
    BY <1>1, <1>4
  <2>2. approvals[r].status = "pending" /\ OnceOK(r)
    BY <1>1, <1>4 DEF CanReview, OInv
  <2>3. \A v \in Workers : txn[v].request # r
    BY <2>1, <2>2 DEF OnceOK, Deciding
  <2>4. /\ txn'[w] = Reviewing(q, u, decision)
        /\ \A v \in Workers \ {w} : txn'[v] = txn[v]
    BY <1>1 DEF OInv, IInv, TypeOK
  <2>5. \A v \in Workers : txn'[v].request = r => v = w
    BY <2>3, <2>4
  <2>6. txn'[w].pc = "deciding"
    BY <2>4 DEF Reviewing
  <2> QED BY <1>1, <2>1, <2>2, <2>5, <2>6 DEF OnceOK
<1> QED BY <1>3, <1>4

LEMMA DecidingKeepsOnce ==
    ASSUME ApprovalsNames, ApprovalsAreFinite, OInv, IInv', NEW w \in Workers,
           Decide(w), NEW r \in Requests
    PROVE  OnceOK(r)'
<1> DEFINE q == txn[w].request
           items == approvals[q].items
<1>1. /\ txn[w].pc = "deciding"
      /\ q \in Requests
      /\ approvals[q] \in ApprovalRows
      /\ txn[w].decision \in {"approved", "rejected"}
  BY DEF Decide, OInv, IInv, TxnFits, TypeOK
<1>2. /\ UNCHANGED <<data, erased, writes, overlapped>>
      /\ \A s \in Requests \ {q} : approvals'[s] = approvals[s]
      /\ approvals'[q].status = txn[w].decision
      /\ approvals'[q].items = items
  BY <1>1 DEF Decide, OInv, IInv, TypeOK, ApprovalRows
<1> DEFINE pc == IF approvals[q].kind = "erase" THEN "erasing" ELSE "applying"
           t == IF txn[w].decision = "rejected" THEN Idle ELSE Txn(pc, q, items)
<1>3. /\ pc \in {"erasing", "applying"}
      /\ txn' = [txn EXCEPT ![w] = t]
      /\ t = Idle \/ (txn[w].decision = "approved" /\ t = Txn(pc, q, items))
  <2>1. txn' = [txn EXCEPT ![w] = t]
    BY DEF Decide
  <2>2. t = Idle \/ (txn[w].decision = "approved" /\ t = Txn(pc, q, items))
    BY <1>1, Zenon
  <2> QED BY <2>1, <2>2
<1> HIDE DEF pc, t
<1>4. t.request = NONE \/ t.request = q
  BY <1>3 DEF Idle, Txn
<1>5. CASE q # r
  <2>1. r # NONE
    BY DEF ApprovalsNames
  <2> QED BY <1>2, <1>3, <1>4, <1>5, <2>1, StepKeepsOnce
<1>6. CASE q = r
  <2> SUFFICES ASSUME r \notin overlapped PROVE OnceOK(r)'
    BY <1>2 DEF OnceOK
  <2>1. OnceOK(r)
    BY DEF OInv
  <2>2. writes[r] = 0
    BY <1>1, <1>6, <2>1 DEF OnceOK
  <2>3. /\ txn'[w] = t
        /\ \A v \in Workers \ {w} : txn'[v] = txn[v]
    BY <1>3 DEF OInv, IInv, TypeOK
  <2>4. \A v \in Workers \ {w} : txn'[v].request # r
    BY <1>6, <2>1, <2>3 DEF OnceOK
  <2>5. Bound(items) \in Nat /\ Bound(items) >= 1 /\ items \in SUBSET Accounts
    BY <1>1, Counts DEF ApprovalRows
  <2>6. t.request = r => /\ txn[w].decision = "approved"
                         /\ t.pc # "deciding"
                         /\ Left(t, items) = Bound(items)
    <3> SUFFICES ASSUME t.request = r
                 PROVE  /\ txn[w].decision = "approved"
                        /\ t.pc # "deciding"
                        /\ Left(t, items) = Bound(items)
      OBVIOUS
    <3>1. txn[w].decision = "approved" /\ t = Txn(pc, q, items)
      BY <1>3 DEF Idle, Txn, ApprovalsNames
    <3>2. t.todo = items /\ t.pc = pc
      BY <3>1 DEF Txn
    <3> HIDE DEF items
    <3> QED BY <1>3, <3>1, <3>2 DEF Left, Bound
  <2>7. \A v \in Workers : txn'[v].request = r => v = w
    BY <2>4
  <2> HIDE DEF items, q
  <2> QED BY <1>1, <1>2, <1>6, <2>2, <2>3, <2>5, <2>6, <2>7 DEF OnceOK
<1> QED BY <1>5, <1>6

(* A statement of the payload takes effect.                                *)
LEMMA WritingKeepsOnce ==
    ASSUME ApprovalsNames, ApprovalsAreFinite, OInv, IInv', NEW w \in Workers,
           NEW t, txn' = [txn EXCEPT ![w] = t],
           txn[w].pc \in {"applying", "deletingBorrower"},
           writes' = [writes EXCEPT ![txn[w].request] = @ + 1],
           UNCHANGED <<approvals, overlapped>>,
           \/ t = Idle /\ Left(txn[w], approvals[txn[w].request].items) >= 1
           \/ /\ t.request = txn[w].request /\ t.pc # "deciding"
              /\ Left(t, approvals[txn[w].request].items)
                    = Left(txn[w], approvals[txn[w].request].items) - 1,
           NEW r \in Requests
    PROVE  OnceOK(r)'
<1> DEFINE q == txn[w].request
           items == approvals[q].items
<1>1. /\ q \in Requests
      /\ items \in SUBSET Accounts
      /\ txn[w].todo \in SUBSET Accounts
      /\ writes[q] \in Nat
  BY DEF OInv, IInv, TxnFits, TypeOK, TxnRows, ApprovalRows, ErasureSteps
<1>2. /\ Left(txn[w], items) \in Nat
      /\ Bound(items) \in Nat
  BY <1>1, Counts
<1>3. t = Idle => t.request = NONE /\ t.request \notin Requests
  BY DEF Idle, Txn, ApprovalsNames
<1>4. CASE q # r
  <2>1. writes'[r] = writes[r]
    BY <1>4 DEF OInv, IInv, TypeOK
  <2> QED BY <1>3, <1>4, <2>1, StepKeepsOnce
<1>5. CASE q = r
  <2> SUFFICES ASSUME r \notin overlapped PROVE OnceOK(r)'
    BY DEF OnceOK
  <2>1. OnceOK(r)
    BY DEF OInv
  <2>2. /\ txn'[w] = t
        /\ \A v \in Workers \ {w} : txn'[v] = txn[v]
        /\ writes'[r] = writes[r] + 1
    BY <1>1, <1>5 DEF OInv, IInv, TypeOK
  <2>3. \A v \in Workers : txn'[v].request = r => v = w
    BY <1>5, <2>1, <2>2 DEF OnceOK
  <2>4. /\ approvals[r].status = "approved"
        /\ writes[r] + Left(txn[w], items) <= Bound(items)
    BY <1>5, <2>1 DEF OnceOK
  <2>5. approvals[r].status \notin {NONE, "pending"}
    BY <2>4 DEF ApprovalsNames
  <2>6. writes'[r] <= Bound(items)
    <3>1. Left(txn[w], items) >= 1
      <4>1. CASE t = Idle
        BY <1>1, <1>3, <4>1
      <4>2. CASE t # Idle
        <5>1. t.todo \in SUBSET Accounts
          BY <2>2 DEF IInv, TypeOK, TxnRows
        <5> QED BY <1>1, <1>2, <4>2, <5>1, Counts
      <4> QED BY <4>1, <4>2
    <3> QED BY <1>1, <1>2, <1>5, <2>2, <2>4, <3>1
  <2>7. t.request = r => /\ t.pc # "deciding"
                         /\ writes'[r] + Left(t, items) <= Bound(items)
    <3> SUFFICES ASSUME t.request = r
                 PROVE  /\ t.pc # "deciding"
                        /\ writes'[r] + Left(t, items) <= Bound(items)
      OBVIOUS
    <3>1. /\ t.pc # "deciding"
          /\ Left(t, items) = Left(txn[w], items) - 1
      BY <1>3
    <3> QED BY <1>1, <1>2, <1>5, <2>2, <2>4, <3>1
  <2> HIDE DEF items, q
  <2>8. items = approvals[r].items
    BY <1>5 DEF items
  <2> QED BY <1>1, <1>5, <2>2, <2>3, <2>4, <2>5, <2>6, <2>7, <2>8 DEF OnceOK
<1> QED BY <1>4, <1>5

LEMMA ApplyingKeepsOnce ==
    ASSUME ApprovalsNames, ApprovalsAreFinite, OInv, IInv', NEW w \in Workers,
           ApplyBorrower(w) \/ ApplyAccount(w) \/ DeleteBorrower(w),
           NEW r \in Requests
    PROVE  OnceOK(r)'
<1> DEFINE q == txn[w].request
<1>1. /\ txn[w].pc \in {"applying", "deletingBorrower"}
      /\ txn[w] \in TxnRows /\ q \in Requests
      /\ approvals[q].items \in SUBSET Accounts
  BY DEF ApplyBorrower, ApplyAccount, DeleteBorrower, OInv, IInv, TxnFits, TypeOK,
         TxnRows, ApprovalRows, ErasureSteps
<1>2. CASE ApplyBorrower(w)
  <2>1. approvals[q].items = {}
    BY <1>1, <1>2 DEF ApplyBorrower, OInv, IInv, RowOK, Borrowers
  <2>2. Left(txn[w], approvals[q].items) >= 1
    BY <1>1, <2>1 DEF Left
  <2> QED BY <1>1, <1>2, <2>2, WritingKeepsOnce DEF ApplyBorrower
<1>3. CASE DeleteBorrower(w)
  <2>1. approvals[q].items = {}
    BY <1>1, <1>3 DEF DeleteBorrower, OInv, IInv, TxnFits, RowOK, ErasureSteps
  <2> DEFINE t == [txn[w] EXCEPT !.pc = "chronicling"]
  <2>2. /\ t.request = q /\ t.pc = "chronicling"
        /\ txn' = [txn EXCEPT ![w] = t]
        /\ UNCHANGED <<approvals, overlapped>>
        /\ writes' = [writes EXCEPT ![q] = @ + 1]
        /\ txn[w].pc = "deletingBorrower"
    BY <1>1, <1>3 DEF DeleteBorrower, TxnRows
  <2> HIDE DEF t
  <2>3. Left(t, approvals[q].items) = Left(txn[w], approvals[q].items) - 1
    BY <2>1, <2>2 DEF Left
  <2> QED BY <2>2, <2>3, WritingKeepsOnce
<1>4. CASE ApplyAccount(w)
  <2>1. PICK a \in txn[w].todo :
          /\ txn[w].pc = "applying"
          /\ txn' = [txn EXCEPT ![w].todo = @ \ {a}]
          /\ \/ writes' = [writes EXCEPT ![q] = @ + 1]
             \/ writes' = writes
          /\ UNCHANGED <<approvals, overlapped>>
    BY <1>4 DEF ApplyAccount
  <2> DEFINE t == [txn[w] EXCEPT !.todo = @ \ {a}]
  <2>2. /\ txn' = [txn EXCEPT ![w] = t]
        /\ t.request = q /\ t.pc = "applying" /\ t.todo = txn[w].todo \ {a}
    BY <1>1, <2>1 DEF TxnRows
  <2>3. /\ a \in approvals[q].items
        /\ txn[w].todo \in SUBSET Accounts
    BY <1>1, <2>1 DEF OInv, IInv, TxnFits, TxnRows
  <2> HIDE DEF t
  <2>4. /\ Cardinality(t.todo) = Cardinality(txn[w].todo) - 1
        /\ Cardinality(txn[w].todo) \in Nat
    BY <2>1, <2>2, <2>3, Counts
  <2>5. Left(t, approvals[q].items) = Left(txn[w], approvals[q].items) - 1
    BY <2>3, <2>4 DEF Left
  <2>6. CASE writes' = [writes EXCEPT ![q] = @ + 1]
    BY <2>1, <2>2, <2>5, <2>6, WritingKeepsOnce
  <2>7. CASE writes' = writes
    <3>1. Left(txn[w], approvals[q].items) \in Nat
      BY <1>1, <2>3, Counts
    <3>2. t.request = r => /\ txn[w].request = r
                           /\ t.pc = "deciding" <=> txn[w].pc = "deciding"
                           /\ Left(t, approvals[r].items)
                                 <= Left(txn[w], approvals[r].items)
      BY <2>1, <2>2, <2>5, <3>1
    <3> QED BY <2>1, <2>2, <2>7, <3>2, StepKeepsOnce
  <2> QED BY <2>1, <2>6, <2>7
<1> QED BY <1>2, <1>3, <1>4

(* A step after which its request rests or works on nothing staged.        *)
LEMMA LeavingKeepsOnce ==
    ASSUME ApprovalsNames, ApprovalsAreFinite, OInv, IInv', NEW w \in Workers,
           NEW t, t.request = NONE, txn' = [txn EXCEPT ![w] = t],
           UNCHANGED <<approvals, writes, overlapped>>, NEW r \in Requests
    PROVE  OnceOK(r)'
<1>1. r # NONE
  BY DEF ApprovalsNames
<1> QED BY <1>1, StepKeepsOnce

LEMMA UploadsKeepOnce ==
    ASSUME ApprovalsNames, ApprovalsAreFinite, OInv, IInv', NEW w \in Workers,
           ReadUpload(w) \/ UploadRow(w) \/ StageUpload(w), NEW r \in Requests
    PROVE  OnceOK(r)'
<1>1. CASE ReadUpload(w)
  <2>1. PICK items \in SUBSET Accounts, to \in Statuses, u \in Makers :
          txn' = [txn EXCEPT ![w] = Uploading(u, items, to)]
    BY <1>1 DEF ReadUpload
  <2>2. Uploading(u, items, to).request = NONE
    BY DEF Uploading
  <2>3. UNCHANGED <<approvals, writes, overlapped>>
    BY <1>1 DEF ReadUpload
  <2> QED BY <2>1, <2>2, <2>3, LeavingKeepsOnce
<1>2. CASE UploadRow(w)
  <2>1. PICK a \in txn[w].todo :
          /\ txn[w].pc = "uploading"
          /\ txn' = [txn EXCEPT ![w].todo = @ \ {a}]
          /\ UNCHANGED <<approvals, writes, overlapped>>
    BY <1>2 DEF UploadRow
  <2> DEFINE t == [txn[w] EXCEPT !.todo = @ \ {a}]
  <2>2. txn[w].request = NONE /\ txn[w] \in TxnRows
    BY <2>1 DEF OInv, IInv, TxnFits, TypeOK
  <2>3. t.request = NONE /\ txn' = [txn EXCEPT ![w] = t]
    BY <2>1, <2>2 DEF TxnRows
  <2> HIDE DEF t
  <2> QED BY <2>1, <2>3, LeavingKeepsOnce
<1>3. CASE StageUpload(w)
  <2>1. /\ txn' = [txn EXCEPT ![w] = Idle]
        /\ UNCHANGED <<writes, overlapped>>
        /\ Idle.request = NONE
        /\ txn[w].seen \in SUBSET Accounts
    BY <1>3 DEF StageUpload, Idle, Txn, OInv, IInv, TypeOK, TxnRows
  <2>2. CASE UNCHANGED approvals
    BY <2>1, <2>2, LeavingKeepsOnce
  <2>3. ASSUME NEW q \in Requests,
               Stage(q, "update_batch", txn[w].seen, txn[w].to, txn[w].user)
        PROVE  OnceOK(r)'
    <3>1. \A v \in Workers : txn'[v] = txn[v] \/ txn'[v].request = NONE
      BY <2>1 DEF OInv, IInv, TypeOK
    <3>2. "update_batch" \in Kinds
      BY DEF Kinds
    <3> QED BY <2>1, <2>3, <3>1, <3>2, StagingKeepsOnce
  <2> QED BY <1>3, <2>2, <2>3 DEF StageUpload
<1> QED BY <1>1, <1>2, <1>3

(* The steps of cascadeDeleteBorrower before the borrower's row goes.      *)
LEMMA ErasingKeepsOnce ==
    ASSUME ApprovalsNames, ApprovalsAreFinite, OInv, IInv', NEW w \in Workers,
           ReadAccounts(w) \/ DeleteHistory(w) \/ DeleteAccounts(w),
           NEW r \in Requests
    PROVE  OnceOK(r)'
<1>1. PICK pc \in ErasureSteps \ {"chronicling"}, seen \in SUBSET Accounts :
        txn' = [txn EXCEPT ![w] = [txn[w] EXCEPT !.pc = pc, !.seen = seen]]
  <2>1. txn[w] \in TxnRows /\ txn[w].seen \in SUBSET Accounts
    BY DEF OInv, IInv, TypeOK, TxnRows
  <2>2. CASE ReadAccounts(w)
    BY <2>2 DEF ReadAccounts, ErasureSteps
  <2>3. CASE DeleteHistory(w)
    BY <2>3 DEF DeleteHistory, ErasureSteps
  <2>4. CASE DeleteAccounts(w)
    <3>1. [txn[w] EXCEPT !.pc = "deletingBorrower"]
            = [txn[w] EXCEPT !.pc = "deletingBorrower", !.seen = txn[w].seen]
      BY <2>1 DEF TxnRows
    <3> QED BY <2>1, <2>4, <3>1 DEF DeleteAccounts, ErasureSteps
  <2> QED BY <2>2, <2>3, <2>4
<1>2. /\ txn[w] \in TxnRows
      /\ txn[w].pc \in ErasureSteps \ {"chronicling"}
      /\ UNCHANGED <<approvals, writes, overlapped>>
  BY DEF OInv, IInv, TypeOK, ReadAccounts, DeleteHistory, DeleteAccounts,
         ErasureSteps
<1> DEFINE t == [txn[w] EXCEPT !.pc = pc, !.seen = seen]
<1>3. /\ t.pc = pc /\ t.request = txn[w].request /\ t.todo = txn[w].todo
      /\ txn' = [txn EXCEPT ![w] = t]
  BY <1>1, <1>2 DEF TxnRows
<1> HIDE DEF t
<1>4. Left(t, approvals[r].items) = Left(txn[w], approvals[r].items)
  BY <1>2, <1>3 DEF Left, ErasureSteps
<1>5. Left(txn[w], approvals[r].items) \in Nat
  <2>1. /\ approvals[r].items \in SUBSET Accounts
        /\ txn[w].todo \in SUBSET Accounts
    BY DEF OInv, IInv, TypeOK, TxnRows, ApprovalRows
  <2> QED BY <2>1, Counts
<1>6. t.request = r => /\ txn[w].request = r
                       /\ t.pc = "deciding" <=> txn[w].pc = "deciding"
                       /\ Left(t, approvals[r].items)
                             <= Left(txn[w], approvals[r].items)
  BY <1>2, <1>3, <1>4, <1>5 DEF ErasureSteps
<1> QED BY <1>2, <1>3, <1>6, StepKeepsOnce

(* Steps that leave every request where it is, or stop all of them.        *)
LEMMA RestKeepsOnce ==
    ASSUME ApprovalsNames, ApprovalsAreFinite, OInv, IInv',
           UNCHANGED <<approvals, writes, overlapped>>,
           UNCHANGED txn \/ txn' = [w \in Workers |-> Idle], NEW r \in Requests
    PROVE  OnceOK(r)'
<1>1. ASSUME NEW w \in Workers, txn'[w].request = r
      PROVE  /\ txn'[w] = txn[w]
             /\ Left(txn[w], approvals[r].items) \in Nat
  <2>1. txn'[w] = txn[w]
    BY <1>1 DEF Idle, Txn, ApprovalsNames
  <2>2. /\ approvals[r].items \in SUBSET Accounts
        /\ txn[w].todo \in SUBSET Accounts
    BY DEF OInv, IInv, TypeOK, TxnRows, ApprovalRows
  <2> QED BY <2>1, <2>2, Counts
<1> QED BY <1>1, OthersKeepOnce

LEMMA NextKeepsOnce ==
    ApprovalsNames /\ ApprovalsAreFinite /\ OInv /\ [Next]_vars => OInv'
<1> SUFFICES ASSUME ApprovalsNames, ApprovalsAreFinite, OInv, [Next]_vars
             PROVE  OInv'
  OBVIOUS
<1>1. IInv'
  BY NextKeepsIInv DEF OInv
<1> SUFFICES ASSUME NEW r \in Requests PROVE OnceOK(r)'
  BY <1>1 DEF OInv
<1>2. ASSUME NEW q \in Requests, NEW u \in Makers,
             \/ SubmitBorrower(q, u) \/ SubmitAccount(q, u)
           \/ RequestErasure(q, u) \/ SubmitPayload(q, u)
      PROVE  OnceOK(r)'
  <2>1. PICK kind \in Kinds, items \in SUBSET Accounts, to \in {NONE} \cup Statuses :
          Stage(q, kind, items, to, u)
    BY <1>2 DEF SubmitBorrower, SubmitAccount, RequestErasure, SubmitPayload, Kinds
  <2>2. UNCHANGED <<txn, writes, overlapped>>
    BY <1>2 DEF SubmitBorrower, SubmitAccount, RequestErasure, SubmitPayload
  <2> QED BY <1>1, <2>1, <2>2, StagingKeepsOnce
<1>3. CASE ExternalAccount \/ (\E a \in Accounts : RecordPayment(a)) \/ Crash
  BY <1>1, <1>3, RestKeepsOnce DEF ExternalAccount, RecordPayment, Crash
<1>4. CASE UNCHANGED vars
  BY <1>1, <1>4, RestKeepsOnce DEF vars
<1>5. ASSUME NEW w \in Workers, Step(w) PROVE OnceOK(r)'
  <2>1. CASE ReadUpload(w) \/ UploadRow(w) \/ StageUpload(w)
    BY <1>1, <2>1, UploadsKeepOnce
  <2>2. CASE ReadApproval(w)
    BY <1>1, <2>2, ReadingKeepsOnce
  <2>3. CASE Decide(w)
    BY <1>1, <2>3, DecidingKeepsOnce
  <2>4. CASE ApplyBorrower(w) \/ ApplyAccount(w) \/ DeleteBorrower(w)
    BY <1>1, <2>4, ApplyingKeepsOnce
  <2>5. CASE ReadAccounts(w) \/ DeleteHistory(w) \/ DeleteAccounts(w)
    BY <1>1, <2>5, ErasingKeepsOnce
  <2>6. CASE Applied(w) \/ ChronicleErasure(w) \/ ApplyFails(w) \/ Fail(w)
    <3>1. /\ txn' = [txn EXCEPT ![w] = Idle]
          /\ UNCHANGED <<approvals, writes, overlapped>>
          /\ Idle.request = NONE
      BY <2>6 DEF Applied, ChronicleErasure, ApplyFails, Fail, Idle, Txn
    <3> QED BY <1>1, <3>1, LeavingKeepsOnce
  <2> QED BY <1>5, <2>1, <2>2, <2>3, <2>4, <2>5, <2>6 DEF Step
<1> QED BY <1>2, <1>3, <1>4, <1>5 DEF Next

(* The checks of PATCH /api/pending-approvals/:id apply a payload once,    *)
(* unless two checkers read the row as pending at the same time.           *)
THEOREM ReviewsApplyOnce == Spec => []ReviewedOnce
<1>1. OInv => ReviewedOnce
  BY DEF OInv, OnceOK, ReviewedOnce, Bound
<1> QED BY <1>1, InitOnce, NextKeepsOnce, ApprovalsNames, ApprovalsAreFinite, PTL
        DEF Spec
=============================================================================
