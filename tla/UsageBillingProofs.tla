------------------------- MODULE UsageBillingProofs -------------------------
(***************************************************************************)
(* Why payout batches generated one after another never tally the same     *)
(* period twice, for any number of events, administrators and days: a      *)
(* batch starts after the end of every batch its request saw, and tallies  *)
(* only rows at least as old as its start.  Approval plays no part in it.  *)
(* And why none of them tallies what a wallet was charged for, and why a   *)
(* row says billed only when it was paid, or was tallied by a batch that   *)
(* was approved, or came too late for the tally of one.                    *)
(***************************************************************************)
EXTENDS UsageBilling, TLAPS

WorkTypes == [batch : Nat, start : Nat, end : Nat, saw : Nat,
              tallied : SUBSET Events, known : SUBSET Events]

(* The days and the rows; a row still to be inserted is not there yet.     *)
MeterTypes ==
    /\ day \in Nat
    /\ created \in [Events -> Nat]
    /\ stage \in [Events -> {"before", "charge", "insert", "done", "lost"}]
    /\ \A e \in Events : stage[e] \in {"before", "charge", "insert"} => created[e] = 0

BatchRow == [start : Nat, end : Nat, saw : Nat, tallied : SUBSET Events,
             known : SUBSET Events, status : Statuses,
             items : {"none", "pending", "completed"}]

BatchTypes ==
    /\ batches \in Seq(BatchRow)
    /\ apc \in [Admins -> AdminPlaces]
    /\ work \in [Admins -> WorkTypes]

(* A period that begins after all that was seen of the batches.            *)
BeginsAfter(start, saw) ==
    /\ saw <= Len(batches)
    /\ \A i \in 1..saw : batches[i].end < start

Since(start, tallied) == \A e \in tallied : created[e] > 0 /\ created[e] >= start

(* The same of each request that is about to insert a batch, and of each   *)
(* batch that is there.                                                    *)
WorkKept ==
    \A a \in Admins :
        /\ apc[a] \in {"tally", "insertBatch"} => BeginsAfter(work[a].start, work[a].saw)
        /\ apc[a] = "insertBatch" => Since(work[a].start, work[a].tallied)

BatchKept(j) ==
    /\ batches[j].saw < j
    /\ BeginsAfter(batches[j].start, batches[j].saw)
    /\ Since(batches[j].start, batches[j].tallied)

BatchesKept == \A j \in 1..Len(batches) : BatchKept(j)

IInv == MeterTypes /\ BatchTypes /\ WorkKept /\ BatchesKept

-----------------------------------------------------------------------------
LEMMA BatchFacts ==
    ASSUME BatchTypes
    PROVE  /\ Len(batches) \in Nat
           /\ \A i \in 1..Len(batches) :
                 /\ batches[i].start \in Nat
                 /\ batches[i].end \in Nat
                 /\ batches[i].saw \in Nat
                 /\ batches[i].tallied \subseteq Events
                 /\ batches[i].known \subseteq Events
<1>1. Len(batches) \in Nat /\ \A i \in 1..Len(batches) : batches[i] \in BatchRow
  BY DEF BatchTypes
<1> QED BY <1>1 DEF BatchRow

LEMMA BillingInit == Init => IInv
<1> SUFFICES ASSUME Init PROVE IInv
  OBVIOUS
<1>1. MeterTypes
  BY DEF Init, MeterTypes
<1>2. Idle \in WorkTypes
  BY DEF Idle, Work, WorkTypes
<1>3. BatchTypes
  BY <1>2 DEF Init, BatchTypes, AdminPlaces
<1>4. WorkKept /\ BatchesKept
  BY DEF Init, WorkKept, BatchesKept, BatchKept
<1> QED BY <1>1, <1>3, <1>4 DEF IInv

(* Metering inserts rows and touches nothing else the invariant speaks of. *)
LEMMA MeterStep ==
    ASSUME IInv, NEW e \in Events, Meter(e) \/ MeterFails(e)
    PROVE  IInv'
<1>1. UNCHANGED settleVars /\ day' = day
  BY DEF Meter, MeterFails, Price, ChargePaid, ChargeRefused, InsertUsage, settleVars
<1>2. created' = created \/ (created[e] = 0 /\ created' = [created EXCEPT ![e] = day])
  BY DEF Meter, MeterFails, Price, ChargePaid, ChargeRefused, InsertUsage, IInv, MeterTypes
<1>3. MeterTypes'
  <2>1. CASE Price(e) \/ ChargePaid(e) \/ ChargeRefused(e) \/ MeterFails(e)
    <3>1. /\ stage[e] \in {"before", "charge", "insert"}
          /\ \E s \in {"charge", "insert", "lost"} : stage' = [stage EXCEPT ![e] = s]
          /\ UNCHANGED <<day, created>>
      BY <2>1 DEF Price, ChargePaid, ChargeRefused, MeterFails
    <3> QED BY <3>1 DEF IInv, MeterTypes
  <2>2. CASE InsertUsage(e)
    BY <2>2 DEF InsertUsage, IInv, MeterTypes
  <2> QED BY <2>1, <2>2 DEF Meter
<1>4. \A f \in Events : created[f] > 0 => created'[f] = created[f]
  BY <1>2 DEF IInv, MeterTypes
<1>5. \A a \in Admins : work[a].tallied \subseteq Events
  BY DEF IInv, BatchTypes, WorkTypes
<1>6. \A i \in 1..Len(batches) : batches[i].tallied \subseteq Events
  BY BatchFacts DEF IInv
<1>7. WorkKept'
  BY <1>1, <1>4, <1>5 DEF IInv, WorkKept, BeginsAfter, Since, settleVars
<1>8. BatchesKept'
  BY <1>1, <1>4, <1>6 DEF IInv, BatchesKept, BatchKept, BeginsAfter, Since, settleVars
<1>9. BatchTypes'
  BY <1>1 DEF IInv, BatchTypes, settleVars
<1> QED BY <1>3, <1>7, <1>8, <1>9 DEF IInv

(* A step that rewrites only the status or the items of a batch, or the    *)
(* work of one administrator on its way elsewhere.                         *)
SamePeriods ==
    /\ Len(batches') = Len(batches)
    /\ \A i \in 1..Len(batches) :
          /\ batches'[i].start = batches[i].start
          /\ batches'[i].end = batches[i].end
          /\ batches'[i].saw = batches[i].saw
          /\ batches'[i].tallied = batches[i].tallied
          /\ batches'[i].known = batches[i].known

LEMMA PeriodsStay ==
    ASSUME IInv, BatchTypes', SamePeriods, UNCHANGED <<day, stage, created>>,
           \A a \in Admins :
              \/ apc'[a] \notin {"tally", "insertBatch"}
              \/ apc'[a] = apc[a] /\ work'[a] = work[a]
    PROVE  IInv'
<1>1. MeterTypes'
  BY DEF IInv, MeterTypes
<1>2. Len(batches) \in Nat
  BY BatchFacts DEF IInv
<1>3. \A start, saw \in Nat : BeginsAfter(start, saw) => BeginsAfter(start, saw)'
  BY <1>2 DEF SamePeriods, BeginsAfter
<1>4. \A start, tallied : Since(start, tallied) => Since(start, tallied)'
  BY DEF Since
<1>5. \A a \in Admins : work[a].start \in Nat /\ work[a].saw \in Nat
  BY DEF IInv, BatchTypes, WorkTypes
<1>6. WorkKept'
  BY <1>3, <1>4, <1>5 DEF IInv, WorkKept
<1>7. \A i \in 1..Len(batches) : batches[i].start \in Nat /\ batches[i].saw \in Nat
  BY BatchFacts DEF IInv
<1>8. ASSUME NEW j \in 1..Len(batches') PROVE BatchKept(j)'
  <2>1. /\ j \in 1..Len(batches) /\ BatchKept(j)
        /\ batches[j].start \in Nat /\ batches[j].saw \in Nat
    BY <1>7 DEF SamePeriods, IInv, BatchesKept
  <2>2. BeginsAfter(batches[j].start, batches[j].saw)'
    BY <1>3, <2>1 DEF SamePeriods, BatchKept, BeginsAfter
  <2> QED BY <1>4, <2>1, <2>2 DEF SamePeriods, BatchKept, Since
<1>9. BatchesKept'
  BY <1>8 DEF BatchesKept
<1> QED BY <1>1, <1>6, <1>9 DEF IInv

(* The request reads the batches that are there and begins after them.     *)
LEMMA GenerateStep ==
    ASSUME IInv, NEW a \in Admins, Generate(a)
    PROVE  IInv'
<1>1. PICK start \in PeriodStart :
         work' = [work EXCEPT ![a] = Work(0, start, day, Len(batches), {}, {})]
  BY DEF Generate
<1>2. /\ apc' = [apc EXCEPT ![a] = "tally"]
      /\ UNCHANGED <<day, stage, created, batches>>
  BY DEF Generate, At, Unsettled, meterVars
<1>3. BatchTypes /\ Len(batches) \in Nat /\ day \in Nat
  BY BatchFacts DEF IInv, MeterTypes
<1>4. start \in Nat /\ BeginsAfter(start, Len(batches))
  <2>1. CASE batches = <<>>
    <3>1. start \in MonthStarts /\ Len(batches) = 0
      BY <2>1 DEF PeriodStart, ThisMonth
    <3> QED BY <3>1, BillingNumbers DEF BeginsAfter
  <2>2. CASE batches # <<>>
    <3>1. PICK i \in Latest : start = batches[i].end + 1
      BY <2>2 DEF PeriodStart
    <3>2. /\ i \in 1..Len(batches)
          /\ \A k \in 1..Len(batches) : batches[k].end <= batches[i].end
      BY <1>3 DEF Latest, BatchTypes
    <3>3. \A k \in 1..Len(batches) : batches[k].end \in Nat
      BY <1>3, BatchFacts
    <3> QED BY <1>3, <3>1, <3>2, <3>3 DEF BeginsAfter
  <2> QED BY <2>1, <2>2
<1> DEFINE now == Work(0, start, day, Len(batches), {}, {})
<1>5. /\ now \in WorkTypes /\ now.start = start /\ now.saw = Len(batches)
  BY <1>3, <1>4 DEF Work, WorkTypes
<1>6. work' = [work EXCEPT ![a] = now]
  BY <1>1
<1> HIDE DEF now
<1>7. MeterTypes' /\ BatchesKept'
  BY <1>2 DEF IInv, MeterTypes, BatchesKept, BatchKept, BeginsAfter, Since
<1>8. BatchTypes'
  BY <1>2, <1>5, <1>6 DEF IInv, BatchTypes, AdminPlaces
<1>9. WorkKept'
  <2>1. ASSUME NEW b \in Admins, b # a
        PROVE  apc'[b] = apc[b] /\ work'[b] = work[b]
    BY <1>2, <1>6, <2>1 DEF IInv, BatchTypes
  <2>2. apc'[a] = "tally" /\ work'[a].start = start /\ work'[a].saw = Len(batches)
    BY <1>2, <1>5, <1>6 DEF IInv, BatchTypes
  <2> QED BY <1>2, <1>4, <2>1, <2>2 DEF IInv, WorkKept, BeginsAfter, Since
<1> QED BY <1>7, <1>8, <1>9 DEF IInv

(* What it tallies is at least as old as the period.                       *)
LEMMA TallyStep ==
    ASSUME IInv, NEW a \in Admins, Tally(a), ~Return(a)
    PROVE  IInv'
<1> DEFINE now == Work(0, work[a].start, work[a].end, work[a].saw,
                       TallyFrom(work[a].start), Recorded)
<1>1. /\ apc[a] = "tally"
      /\ apc' = [apc EXCEPT ![a] = "insertBatch"]
      /\ work' = [work EXCEPT ![a] = now]
      /\ UNCHANGED <<day, stage, created, batches>>
  BY DEF Tally, At, Unsettled, meterVars
<1>2. Since(work[a].start, TallyFrom(work[a].start))
  BY DEF Since, TallyFrom, Unbilled, Recorded
<1>3. /\ now \in WorkTypes /\ now.start = work[a].start /\ now.saw = work[a].saw
      /\ now.tallied = TallyFrom(work[a].start)
  <2>1. /\ TallyFrom(work[a].start) \subseteq Events /\ Recorded \subseteq Events
        /\ work[a] \in WorkTypes
    BY DEF TallyFrom, Unbilled, Recorded, IInv, BatchTypes
  <2> QED BY <2>1 DEF Work, WorkTypes
<1> HIDE DEF now
<1>4. MeterTypes' /\ BatchesKept'
  BY <1>1 DEF IInv, MeterTypes, BatchesKept, BatchKept, BeginsAfter, Since
<1>5. BatchTypes'
  BY <1>1, <1>3 DEF IInv, BatchTypes, AdminPlaces
<1>6. WorkKept'
  <2>1. ASSUME NEW b \in Admins, b # a
        PROVE  apc'[b] = apc[b] /\ work'[b] = work[b]
    BY <1>1, <2>1 DEF IInv, BatchTypes
  <2>2. /\ apc'[a] = "insertBatch" /\ work'[a].start = work[a].start
        /\ work'[a].saw = work[a].saw
        /\ work'[a].tallied = TallyFrom(work[a].start)
    BY <1>1, <1>3 DEF IInv, BatchTypes
  <2> QED BY <1>1, <1>2, <2>1, <2>2 DEF IInv, WorkKept, BeginsAfter, Since
<1> QED BY <1>4, <1>5, <1>6 DEF IInv

(* The batch that is inserted keeps what its request knew.                 *)
LEMMA InsertBatchStep ==
    ASSUME IInv, NEW a \in Admins, InsertBatch(a)
    PROVE  IInv'
<1> DEFINE row == [start |-> work[a].start, end |-> work[a].end,
                   saw |-> work[a].saw, tallied |-> work[a].tallied,
                   known |-> work[a].known, status |-> "pending", items |-> "none"]
           now == Work(Len(batches) + 1, 0, 0, 0, {}, {})
           n == Len(batches)
<1>1. /\ apc[a] = "insertBatch"
      /\ batches' = Append(batches, row)
      /\ apc' = [apc EXCEPT ![a] = "insertItems"]
      /\ work' = [work EXCEPT ![a] = now]
      /\ UNCHANGED <<day, stage, created>>
  BY DEF InsertBatch, At, Unsettled, meterVars
<1>2. BatchTypes /\ n \in Nat
  BY BatchFacts DEF IInv
<1>4. now \in WorkTypes
  BY <1>2 DEF Work, WorkTypes
<1>5. work[a] \in WorkTypes
  BY <1>2 DEF BatchTypes
<1>14. PICK start \in Nat, saw \in Nat, tallied \in SUBSET Events :
         start = work[a].start /\ saw = work[a].saw /\ tallied = work[a].tallied
  BY <1>5 DEF WorkTypes
<1>3. /\ row \in BatchRow /\ row.start = start
      /\ row.saw = saw /\ row.tallied = tallied
  <2>1. row.start = start /\ row.saw = saw /\ row.tallied = tallied
    BY <1>14
  <2>2. work[a].end \in Nat /\ work[a].known \in SUBSET Events
    BY <1>5 DEF WorkTypes
  <2>3. row = [start |-> start, end |-> work[a].end, saw |-> saw,
               tallied |-> tallied, known |-> work[a].known,
               status |-> "pending", items |-> "none"]
    BY <1>14
  <2> HIDE DEF row
  <2> QED BY <2>1, <2>2, <2>3 DEF BatchRow, Statuses
<1> HIDE DEF row, now, n
<1>6. /\ batches' \in Seq(BatchRow) /\ Len(batches') = n + 1
      /\ batches'[n + 1] = row
      /\ \A i \in 1..n : batches'[i] = batches[i]
  BY <1>1, <1>2, <1>3 DEF BatchTypes, n
<1>7. BatchTypes'
  BY <1>1, <1>2, <1>4, <1>6 DEF BatchTypes, AdminPlaces
<1>8. MeterTypes'
  BY <1>1 DEF IInv, MeterTypes
<1>9. \A st, sw \in Nat : BeginsAfter(st, sw) => BeginsAfter(st, sw)'
  BY <1>2, <1>6 DEF BeginsAfter, n
<1>10. \A st, es : Since(st, es) => Since(st, es)'
  BY <1>1 DEF Since
<1>11. WorkKept'
  <2>1. ASSUME NEW b \in Admins, b # a
        PROVE  apc'[b] = apc[b] /\ work'[b] = work[b]
    BY <1>1, <2>1 DEF IInv, BatchTypes
  <2>2. apc'[a] = "insertItems"
    BY <1>1 DEF IInv, BatchTypes
  <2>3. \A b \in Admins : work[b].start \in Nat /\ work[b].saw \in Nat
    BY <1>2 DEF BatchTypes, WorkTypes
  <2> QED BY <1>9, <1>10, <2>1, <2>2, <2>3 DEF IInv, WorkKept
<1>12. ASSUME NEW j \in 1..Len(batches') PROVE BatchKept(j)'
  <2>1. CASE j \in 1..n
    <3>1. BatchKept(j) /\ batches[j].start \in Nat /\ batches[j].saw \in Nat
      BY <2>1, BatchFacts DEF IInv, BatchesKept, n
    <3> QED BY <1>6, <1>9, <1>10, <2>1, <3>1 DEF BatchKept
  <2>2. CASE j = n + 1
    <3>1. BeginsAfter(start, saw) /\ Since(start, tallied)
      BY <1>1, <1>14 DEF IInv, WorkKept
    <3>2. saw < n + 1
      BY <1>2, <3>1 DEF BeginsAfter, n
    <3>3. BeginsAfter(start, saw)' /\ Since(start, tallied)'
      BY <1>9, <1>10, <3>1
    <3> QED BY <1>3, <1>6, <2>2, <3>2, <3>3 DEF BatchKept
  <2> QED BY <1>2, <1>6, <2>1, <2>2
<1>13. BatchesKept'
  BY <1>12 DEF BatchesKept
<1> QED BY <1>7, <1>8, <1>11, <1>13 DEF IInv

(* Giving up, reviewing and approving change no period.                    *)
LEMMA OtherAdminStep ==
    ASSUME IInv, NEW a \in Admins, NEW place \in AdminPlaces,
           place \notin {"tally", "insertBatch"},
           NEW w \in WorkTypes,
           apc' = [apc EXCEPT ![a] = place], work' = [work EXCEPT ![a] = w],
           UNCHANGED <<day, stage, created>>,
           batches' \in Seq(BatchRow), SamePeriods
    PROVE  IInv'
<1>1. BatchTypes'
  BY DEF IInv, BatchTypes
<1>2. ASSUME NEW b \in Admins
      PROVE  apc'[b] \notin {"tally", "insertBatch"}
             \/ (apc'[b] = apc[b] /\ work'[b] = work[b])
  BY DEF IInv, BatchTypes
<1> QED BY <1>1, <1>2, PeriodsStay

(* Rewriting the status or the items of one batch.                         *)
LEMMA RewriteKeeps ==
    ASSUME BatchTypes, NEW i \in Nat, NEW status \in Statuses,
           NEW items \in {"none", "pending", "completed"},
           \/ batches' = [batches EXCEPT ![i].status = status]
           \/ batches' = [batches EXCEPT ![i].items = items]
    PROVE  batches' \in Seq(BatchRow) /\ SamePeriods
<1> USE DEF BatchTypes
<1>1. \A k \in 1..Len(batches) : batches[k] \in BatchRow
  OBVIOUS
<1>2. \A row \in BatchRow :
         /\ [row EXCEPT !.status = status] \in BatchRow
         /\ [row EXCEPT !.items = items] \in BatchRow
  BY DEF BatchRow
<1>3. CASE i \in 1..Len(batches)
  <2>1. CASE batches' = [batches EXCEPT ![i].status = status]
    <3> DEFINE row == [batches[i] EXCEPT !.status = status]
    <3>1. /\ row \in BatchRow
          /\ row.start = batches[i].start /\ row.end = batches[i].end
          /\ row.saw = batches[i].saw /\ row.tallied = batches[i].tallied
          /\ row.known = batches[i].known
      BY <1>1, <1>2, <1>3 DEF BatchRow
    <3>2. batches' = [batches EXCEPT ![i] = row]
      BY <2>1
    <3> HIDE DEF row
    <3> QED BY <1>3, <3>1, <3>2 DEF SamePeriods
  <2>2. CASE batches' = [batches EXCEPT ![i].items = items]
    <3> DEFINE row == [batches[i] EXCEPT !.items = items]
    <3>1. /\ row \in BatchRow
          /\ row.start = batches[i].start /\ row.end = batches[i].end
          /\ row.saw = batches[i].saw /\ row.tallied = batches[i].tallied
          /\ row.known = batches[i].known
      BY <1>1, <1>2, <1>3 DEF BatchRow
    <3>2. batches' = [batches EXCEPT ![i] = row]
      BY <2>2
    <3> HIDE DEF row
    <3> QED BY <1>3, <3>1, <3>2 DEF SamePeriods
  <2> QED BY <2>1, <2>2
<1>4. CASE i \notin 1..Len(batches)
  BY <1>4 DEF SamePeriods
<1> QED BY <1>3, <1>4

LEMMA SettleStep ==
    ASSUME IInv, NEW a \in Admins, Settle(a) \/ AdminFails(a)
    PROVE  IInv'
<1> USE DEF Unsettled, meterVars, At
<1>1. /\ Idle \in WorkTypes /\ work \in [Admins -> WorkTypes] /\ work[a] \in WorkTypes
      /\ BatchTypes /\ batches \in Seq(BatchRow)
  BY DEF IInv, BatchTypes, Idle, Work, WorkTypes
<1>2. batches' = batches => batches' \in Seq(BatchRow) /\ SamePeriods
  BY <1>1 DEF SamePeriods
<1>3. ASSUME Return(a), UNCHANGED <<day, stage, created>>,
             batches' \in Seq(BatchRow), SamePeriods
      PROVE  IInv'
  <2>1. "idle" \in AdminPlaces \ {"tally", "insertBatch"}
    BY DEF AdminPlaces
  <2> QED BY <1>1, <1>3, <2>1, OtherAdminStep DEF Return
<1>4. work[a].batch \in Nat
  BY <1>1 DEF WorkTypes
<1>5. CASE Tally(a)
  <2>1. CASE Return(a)
    BY <1>2, <1>3, <1>5, <2>1 DEF Tally
  <2> QED BY <1>5, <2>1, TallyStep
<1>6. CASE InsertItems(a) \/ CompleteItems(a)
  <2>1. batches' = batches \/ \E items \in {"none", "pending", "completed"} :
           batches' = [batches EXCEPT ![work[a].batch].items = items]
    BY <1>1, <1>6 DEF InsertItems, CompleteItems
  <2>2. batches' \in Seq(BatchRow) /\ SamePeriods
    BY <1>1, <1>2, <1>4, <2>1, RewriteKeeps DEF Statuses
  <2> QED BY <1>3, <1>6, <2>2 DEF InsertItems, CompleteItems
<1>7. CASE Approve(a) \/ Complete(a)
  <2>1. PICK i \in DOMAIN batches :
           work' = [work EXCEPT ![a] = Work(i, batches[i].start, 0, 0, {}, {})]
    BY <1>7 DEF Approve, Complete, Review
  <2>2. Work(i, batches[i].start, 0, 0, {}, {}) \in WorkTypes
    <3>1. i \in 1..Len(batches) /\ batches[i].start \in Nat
      BY <1>1, BatchFacts
    <3> QED BY <1>1, <3>1 DEF Work, WorkTypes
  <2>3. PICK place \in AdminPlaces \ {"tally", "insertBatch"} :
           apc' = [apc EXCEPT ![a] = place]
    BY <1>7 DEF Approve, Complete, Review, AdminPlaces
  <2>4. batches' = batches /\ UNCHANGED <<day, stage, created>>
    BY <1>7 DEF Approve, Complete, Review
  <2> QED BY <1>2, <2>1, <2>2, <2>3, <2>4, OtherAdminStep
<1>8. CASE ApproveBatch(a) \/ CompleteBatch(a)
  <2>1. \E status \in Statuses :
           batches' = [batches EXCEPT ![work[a].batch].status = status]
    BY <1>8 DEF ApproveBatch, CompleteBatch, SetStatus, Statuses
  <2>2. batches' \in Seq(BatchRow) /\ SamePeriods
    BY <1>1, <1>4, <2>1, RewriteKeeps
  <2>3. PICK place \in AdminPlaces \ {"tally", "insertBatch"} :
           apc' = [apc EXCEPT ![a] = place]
    BY <1>8 DEF ApproveBatch, CompleteBatch, AdminPlaces
  <2>4. work' = [work EXCEPT ![a] = work[a]] /\ UNCHANGED <<day, stage, created>>
    BY <1>1, <1>8 DEF ApproveBatch, CompleteBatch
  <2> QED BY <1>1, <2>2, <2>3, <2>4, OtherAdminStep
<1>9. CASE MarkBilled(a) \/ AdminFails(a)
  BY <1>2, <1>3, <1>9 DEF MarkBilled, AdminFails
<1> QED BY <1>5, <1>6, <1>7, <1>8, <1>9, GenerateStep, InsertBatchStep DEF Settle

LEMMA RestStep ==
    ASSUME IInv, Crash \/ Midnight \/ UNCHANGED vars
    PROVE  IInv'
<1>1. CASE Crash
  <2>1. MeterTypes'
    BY <1>1 DEF Crash, InFlight, IInv, MeterTypes
  <2>2. Idle \in WorkTypes
    BY DEF Idle, Work, WorkTypes
  <2>3. BatchTypes' /\ WorkKept'
    BY <1>1, <2>2 DEF Crash, IInv, BatchTypes, WorkKept, AdminPlaces
  <2>4. BatchesKept'
    BY <1>1 DEF Crash, IInv, BatchesKept, BatchKept, BeginsAfter, Since
  <2> QED BY <2>1, <2>3, <2>4 DEF IInv
<1>2. CASE Midnight \/ UNCHANGED vars
  <2>1. day' \in Nat /\ UNCHANGED <<stage, created, batches, apc, work>>
    BY <1>2 DEF Midnight, vars, meterVars, settleVars, IInv, MeterTypes
  <2> QED BY <2>1 DEF IInv, MeterTypes, BatchTypes, WorkKept, BatchesKept,
                      BatchKept, BeginsAfter, Since
<1> QED BY <1>1, <1>2

LEMMA BillingStep == IInv /\ [Next]_vars => IInv'
  BY MeterStep, SettleStep, RestStep DEF Next

(* Generating payout batches one after another never tallies a period      *)
(* twice, whatever happens to approvals, crashes and failed statements.    *)
THEOREM PeriodsAreTalliedOnce == Spec => []LaterBatchesTallyLaterUsage
<1>1. IInv => LaterBatchesTallyLaterUsage
  <2> SUFFICES ASSUME IInv, NEW i \in DOMAIN batches, NEW j \in DOMAIN batches,
                      i <= batches[j].saw,
                      NEW e \in batches[i].tallied \cap batches[j].tallied
               PROVE  created[e] > batches[i].end
    BY DEF LaterBatchesTallyLaterUsage
  <2>1. BatchTypes /\ i \in 1..Len(batches) /\ j \in 1..Len(batches)
    BY DEF IInv, BatchTypes
  <2>2. /\ batches[j].start \in Nat /\ batches[i].end \in Nat
        /\ batches[j].saw \in Nat /\ e \in Events
    BY <2>1, BatchFacts
  <2>3. BatchKept(j) /\ created[e] \in Nat
    BY <2>1, <2>2 DEF IInv, BatchesKept, MeterTypes
  <2>4. batches[i].end < batches[j].start
    BY <2>1, <2>2, <2>3 DEF BatchKept, BeginsAfter
  <2>5. created[e] >= batches[j].start
    BY <2>3 DEF BatchKept, Since
  <2> QED BY <2>2, <2>3, <2>4, <2>5
<1> QED BY <1>1, BillingInit, BillingStep, PTL DEF Spec
-----------------------------------------------------------------------------
(* An event whose deduction was confirmed has a row that says billed, once *)
(* it has a row, and what is tallied has a row and was not deducted: only  *)
(* rows that are not billed are tallied.                                   *)
NotPaid(es) == \A e \in es : created[e] > 0 /\ e \notin deducted

PaidIsBilled == \A e \in deducted \cap Events : created[e] > 0 => e \in billed

DInv ==
    /\ PaidIsBilled
    /\ \A a \in Admins : NotPaid(work[a].tallied)
    /\ \A i \in 1..Len(batches) : NotPaid(batches[i].tallied)

LEMMA PaysInit == Init => DInv
  BY DEF Init, DInv, PaidIsBilled, NotPaid, Idle, Work

(* An event is deducted before it has a row, so none that was tallied is.  *)
LEMMA MeterPays ==
    ASSUME IInv, DInv, NEW e \in Events, Meter(e) \/ MeterFails(e)
    PROVE  DInv'
<1>1. UNCHANGED settleVars
  BY DEF Meter, MeterFails, Price, ChargePaid, ChargeRefused, InsertUsage, settleVars
<1>2. CASE Price(e) \/ ChargeRefused(e) \/ MeterFails(e)
  <2>1. UNCHANGED <<deducted, created, billed>>
    BY <1>2 DEF Price, ChargeRefused, MeterFails
  <2> QED BY <1>1, <2>1 DEF DInv, PaidIsBilled, NotPaid, settleVars
<1>3. CASE ChargePaid(e)
  <2>1. /\ deducted' \subseteq deducted \cup {e}
        /\ created' = created /\ billed' = billed
        /\ created[e] = 0
    BY <1>3 DEF ChargePaid, IInv, MeterTypes
  <2>2. PaidIsBilled'
    BY <2>1 DEF DInv, PaidIsBilled
  <2>3. \A es : NotPaid(es) => NotPaid(es)'
    BY <2>1 DEF NotPaid
  <2> QED BY <1>1, <2>2, <2>3 DEF DInv, NotPaid, settleVars
<1>4. CASE InsertUsage(e)
  <2>1. /\ deducted' = deducted /\ created' = [created EXCEPT ![e] = day]
        /\ billed \subseteq billed' /\ (e \in deducted => e \in billed')
        /\ created \in [Events -> Nat] /\ created[e] = 0
    BY <1>4 DEF InsertUsage, BilledIfDeducted, IInv, MeterTypes
  <2>2. PaidIsBilled'
    BY <2>1 DEF DInv, PaidIsBilled
  <2>3. \A es \in SUBSET Events : NotPaid(es) => NotPaid(es)'
    BY <2>1 DEF NotPaid
  <2>4. \A a \in Admins : work[a].tallied \in SUBSET Events
    BY DEF IInv, BatchTypes, WorkTypes
  <2>5. \A i \in 1..Len(batches) : batches[i].tallied \in SUBSET Events
    BY BatchFacts DEF IInv
  <2> QED BY <1>1, <2>2, <2>3, <2>4, <2>5 DEF DInv, NotPaid, settleVars
<1> QED BY <1>2, <1>3, <1>4 DEF Meter

(* Administrators tally what is not billed, and only ever add to billed.   *)
LEMMA SettlePays ==
    ASSUME IInv, DInv, NEW a \in Admins, Settle(a) \/ AdminFails(a)
    PROVE  DInv'
<1> USE DEF Unsettled, meterVars
<1>1. /\ work \in [Admins -> WorkTypes] /\ work[a] \in WorkTypes
      /\ BatchTypes /\ Len(batches) \in Nat
      /\ UNCHANGED <<deducted, created>>
  <2>1. UNCHANGED <<deducted, created>>
    BY DEF Settle, AdminFails, Generate, Tally, InsertBatch, InsertItems, Approve,
           Complete, Review, ApproveBatch, MarkBilled, CompleteBatch, CompleteItems
  <2> QED BY <2>1, BatchFacts DEF IInv, BatchTypes
<1>2. \A es : NotPaid(es) => NotPaid(es)'
  BY <1>1 DEF NotPaid
<1>3. PaidIsBilled'
  <2>1. billed \subseteq billed'
    BY DEF Settle, AdminFails, Generate, Tally, InsertBatch, InsertItems, Approve,
           Complete, Review, ApproveBatch, MarkBilled, CompleteBatch, CompleteItems
  <2> QED BY <1>1, <2>1 DEF DInv, PaidIsBilled
<1>4. \A b \in Admins : NotPaid(work'[b].tallied)
  <2>1. ASSUME NEW n, NEW start, NEW end, NEW saw, NEW es, NEW rows, NotPaid(es),
               work' = [work EXCEPT ![a] = Work(n, start, end, saw, es, rows)]
        PROVE  \A b \in Admins : NotPaid(work'[b].tallied)
    <3> DEFINE w == Work(n, start, end, saw, es, rows)
    <3>1. w.tallied = es
      BY DEF Work
    <3>2. work' = [work EXCEPT ![a] = w]
      BY <2>1
    <3> HIDE DEF w
    <3>3. work'[a] = w /\ \A b \in Admins : b # a => work'[b] = work[b]
      BY <1>1, <3>2
    <3>4. NotPaid(work'[a].tallied)
      BY <2>1, <3>1, <3>3
    <3> QED BY <3>3, <3>4 DEF DInv
  <2>2. NotPaid({})
    BY DEF NotPaid
  <2>3. CASE Return(a)
    BY <2>1, <2>2, <2>3 DEF Return, Idle
  <2>4. CASE UNCHANGED work
    BY <2>4 DEF DInv
  <2>5. CASE Generate(a)
    <3>1. PICK start \in PeriodStart :
             work' = [work EXCEPT ![a] = Work(0, start, day, Len(batches), {}, {})]
      BY <2>5 DEF Generate
    <3> QED BY <2>1, <2>2, <3>1
  <2>6. CASE Tally(a) /\ ~Return(a)
    <3>1. NotPaid(TallyFrom(work[a].start))
      BY DEF NotPaid, TallyFrom, Unbilled, Recorded, DInv, PaidIsBilled
    <3>2. work' = [work EXCEPT ![a] = Work(0, work[a].start, work[a].end, work[a].saw,
                                           TallyFrom(work[a].start), Recorded)]
      BY <2>6 DEF Tally
    <3> QED BY <2>1, <3>1, <3>2
  <2>7. CASE InsertBatch(a)
    <3>1. work' = [work EXCEPT ![a] = Work(Len(batches) + 1, 0, 0, 0, {}, {})]
      BY <2>7 DEF InsertBatch
    <3> QED BY <2>1, <2>2, <3>1
  <2>8. CASE Approve(a) \/ Complete(a)
    <3>1. PICK i \in DOMAIN batches :
             work' = [work EXCEPT ![a] = Work(i, batches[i].start, 0, 0, {}, {})]
      BY <2>8 DEF Approve, Complete, Review
    <3> QED BY <2>1, <2>2, <3>1
  <2> QED BY <2>3, <2>4, <2>5, <2>6, <2>7, <2>8
        DEF Settle, AdminFails, InsertItems, ApproveBatch, MarkBilled,
            CompleteBatch, CompleteItems
<1>5. \A i \in 1..Len(batches') : NotPaid(batches'[i].tallied)
  <2>1. CASE batches' = batches
    BY <2>1 DEF DInv
  <2>2. CASE InsertBatch(a)
    <3> DEFINE row == [start |-> work[a].start, end |-> work[a].end,
                       saw |-> work[a].saw, tallied |-> work[a].tallied,
                       known |-> work[a].known, status |-> "pending", items |-> "none"]
    <3>1. batches' = Append(batches, row) /\ row.tallied = work[a].tallied
      BY <2>2 DEF InsertBatch
    <3> HIDE DEF row
    <3>2. \A i \in 1..Len(batches') :
             batches'[i] = IF i = Len(batches) + 1 THEN row ELSE batches[i]
      BY <1>1, <3>1 DEF BatchTypes
    <3>3. \A i \in 1..Len(batches') : i # Len(batches) + 1 => i \in 1..Len(batches)
      BY <1>1, <3>1 DEF BatchTypes
    <3> QED BY <3>1, <3>2, <3>3 DEF DInv
  <2>3. CASE InsertItems(a) \/ CompleteItems(a) \/ ApproveBatch(a) \/ CompleteBatch(a)
    <3>1. \/ batches' = batches
          \/ \E status \in Statuses :
                batches' = [batches EXCEPT ![work[a].batch].status = status]
          \/ \E items \in {"none", "pending", "completed"} :
                batches' = [batches EXCEPT ![work[a].batch].items = items]
      BY <1>1, <2>3 DEF InsertItems, CompleteItems, ApproveBatch, CompleteBatch,
                        SetStatus, Statuses
    <3>2. work[a].batch \in Nat
      BY <1>1 DEF WorkTypes
    <3>3. batches' = batches \/ SamePeriods
      BY <1>1, <3>1, <3>2, RewriteKeeps DEF Statuses
    <3> QED BY <3>3 DEF SamePeriods, DInv
  <2> QED BY <2>1, <2>2, <2>3
        DEF Settle, AdminFails, Generate, Tally, Approve, Complete, Review, MarkBilled
<1> QED BY <1>2, <1>3, <1>4, <1>5 DEF DInv, NotPaid

LEMMA RestPays ==
    ASSUME IInv, DInv, Crash \/ Midnight \/ UNCHANGED vars
    PROVE  DInv'
<1>1. UNCHANGED <<deducted, created, billed, batches>>
  BY DEF Crash, Midnight, vars, meterVars, settleVars
<1>2. work' = work \/ work' = [a \in Admins |-> Idle]
  BY DEF Crash, Midnight, vars, settleVars
<1> QED BY <1>1, <1>2 DEF DInv, PaidIsBilled, NotPaid, Idle, Work

(* A bureau is not paid out for an event that was deducted from its wallet *)
(* (usage-metering.ts:144, routes.ts:13319-13323), however the metering    *)
(* and the administrators' requests interleave and fail.                   *)
THEOREM DeductedIsNeverTallied == Spec => []DeductedIsNotTallied
<1>1. DInv /\ IInv => DeductedIsNotTallied
  <2>1. IInv => DOMAIN batches = 1..Len(batches)
    BY DEF IInv, BatchTypes
  <2> QED BY <2>1 DEF DInv, NotPaid, DeductedIsNotTallied
<1>2. IInv /\ DInv /\ [Next]_vars => DInv'
  BY MeterPays, SettlePays, RestPays DEF Next
<1> QED BY <1>1, <1>2, BillingInit, BillingStep, PaysInit, PTL DEF Spec
-----------------------------------------------------------------------------
(* The bounds of what is stored and of what a request carries.             *)
BatchBounded(row) ==
    /\ row.start \in 1..LastDay + 1
    /\ row.end \in 1..LastDay
    /\ row.saw <= MaxBatches

WorkBounded(place, w) ==
    /\ w.batch <= Len(batches)
    /\ w.start <= LastDay + 1 /\ w.end <= LastDay /\ w.saw <= MaxBatches
    /\ place \in {"tally", "insertBatch"} => w.start >= 1 /\ w.end >= 1

TInv ==
    /\ day \in 1..LastDay
    /\ event \in [Events -> Prices]
    /\ deducted \subseteq Events
    /\ \A e \in Events : created[e] <= LastDay
    /\ billed \subseteq Recorded
    /\ Len(batches) <= MaxBatches
    /\ \A i \in 1..Len(batches) : BatchBounded(batches[i])
    /\ \A a \in Admins : WorkBounded(apc[a], work[a])

(* Who is charged, what a charge leaves behind, and why a row says billed. *)
WalletRows == [kind : Wallet!Kinds, amount : Int, after : Int,
               ref : Events \cup Wallet!Wallets]

WalletTypes ==
    /\ balance \in [Wallet!Wallets -> Int]
    /\ ledger \in [Wallet!Wallets -> Seq(WalletRows)]

ChargesOwed ==
    \A e \in Events :
        stage[e] = "charge" => event[e].org \in Orgs /\ event[e].total \in Amounts

ByApproval(e) ==
    \E i \in 1..Len(batches) :
        Approved(i) /\ (e \in batches[i].tallied \/ Late(e, i))

Earned(e) == Paid(e) \/ ByApproval(e)

(* The request that marks rows approved its batch before, and the period   *)
(* it marks from is that batch's.                                          *)
Reviews(place, w) ==
    place \in {"approve", "markBilled"} =>
        /\ w.batch \in 1..Len(batches)
        /\ batches[w.batch].start = w.start
        /\ place = "markBilled" => Approved(w.batch)

PInv ==
    /\ WalletTypes
    /\ ChargesOwed
    /\ \A e \in deducted : Paid(e)
    /\ \A a \in Admins : Reviews(apc[a], work[a])
    /\ \A e \in billed : Earned(e)
(* A request of one administrator moves on, with other work in hand.       *)
LEMMA OneMoves ==
    ASSUME IInv, NEW a \in Admins, NEW place, NEW w,
           At(a, place), work' = [work EXCEPT ![a] = w]
    PROVE  /\ apc'[a] = place /\ work'[a] = w
           /\ \A b \in Admins : b # a => apc'[b] = apc[b] /\ work'[b] = work[b]
<1>1. apc \in [Admins -> AdminPlaces] /\ work \in [Admins -> WorkTypes]
  BY DEF IInv, BatchTypes
<1>2. apc' = [apc EXCEPT ![a] = place]
  BY DEF At
<1> QED BY <1>1, <1>2

LEMMA RowInserted ==
    ASSUME IInv, NEW a \in Admins, InsertBatch(a)
    PROVE  /\ Len(batches') = Len(batches) + 1
           /\ \A i \in 1..Len(batches) : batches'[i] = batches[i]
           /\ batches'[Len(batches) + 1].start = work[a].start
           /\ batches'[Len(batches) + 1].end = work[a].end
           /\ batches'[Len(batches) + 1].saw = work[a].saw
           /\ batches'[Len(batches) + 1].tallied = work[a].tallied
           /\ batches'[Len(batches) + 1].known = work[a].known
<1> DEFINE row == [start |-> work[a].start, end |-> work[a].end,
                   saw |-> work[a].saw, tallied |-> work[a].tallied,
                   known |-> work[a].known, status |-> "pending", items |-> "none"]
<1>1. batches' = Append(batches, row) /\ batches \in Seq(BatchRow)
  BY DEF InsertBatch, IInv, BatchTypes
<1>2. /\ row.start = work[a].start /\ row.end = work[a].end /\ row.saw = work[a].saw
      /\ row.tallied = work[a].tallied /\ row.known = work[a].known
  OBVIOUS
<1> HIDE DEF row
<1>3. /\ Len(batches') = Len(batches) + 1
      /\ \A i \in 1..Len(batches) : batches'[i] = batches[i]
      /\ batches'[Len(batches) + 1] = row
  BY <1>1
<1> QED BY <1>2, <1>3

(* Batches are never lost, their periods never change and none of them     *)
(* becomes pending again.                                                  *)
BatchesLast ==
    /\ Len(batches) <= Len(batches')
    /\ \A i \in 1..Len(batches) :
          /\ batches'[i].start = batches[i].start
          /\ batches'[i].end = batches[i].end
          /\ batches'[i].saw = batches[i].saw
          /\ batches'[i].tallied = batches[i].tallied
          /\ batches'[i].known = batches[i].known
          /\ Approved(i) => Approved(i)'

LEMMA Rewrites ==
    ASSUME IInv, NEW i \in Nat,
           \/ \E s \in Statuses \ {"pending"} :
                 batches' = [batches EXCEPT ![i].status = s]
           \/ \E s \in {"none", "pending", "completed"} :
                 batches' = [batches EXCEPT ![i].items = s]
    PROVE  SamePeriods /\ BatchesLast
<1>1. BatchTypes /\ batches \in Seq(BatchRow) /\ Len(batches) \in Nat
  BY BatchFacts DEF IInv, BatchTypes
<1>2. SamePeriods
  <2>1. "pending" \in Statuses
    BY DEF Statuses
  <2> QED BY <1>1, <2>1, RewriteKeeps
<1>3. ASSUME NEW k \in 1..Len(batches), Approved(k)
      PROVE  Approved(k)'
  <2>1. batches[k] \in BatchRow /\ batches[k].status # "pending"
    BY <1>1, <1>3 DEF Approved
  <2>2. CASE \E s \in Statuses \ {"pending"} : batches' = [batches EXCEPT ![i].status = s]
    <3>1. PICK s \in Statuses \ {"pending"} : batches' = [batches EXCEPT ![i].status = s]
      BY <2>2
    <3> DEFINE row == [batches[i] EXCEPT !.status = s]
    <3>2. batches' = [batches EXCEPT ![i] = row]
      BY <3>1
    <3>3. i = k => row.status = s
      BY <2>1 DEF BatchRow
    <3> HIDE DEF row
    <3>4. batches'[k] = IF k = i THEN row ELSE batches[k]
      BY <1>1, <3>2
    <3> QED BY <2>1, <3>3, <3>4 DEF Approved
  <2>3. CASE \E s \in {"none", "pending", "completed"} :
               batches' = [batches EXCEPT ![i].items = s]
    <3>1. PICK s : batches' = [batches EXCEPT ![i].items = s]
      BY <2>3
    <3> DEFINE row == [batches[i] EXCEPT !.items = s]
    <3>2. batches' = [batches EXCEPT ![i] = row]
      BY <3>1
    <3>3. i = k => row.status = batches[k].status
      BY <2>1 DEF BatchRow
    <3> HIDE DEF row
    <3>4. batches'[k] = IF k = i THEN row ELSE batches[k]
      BY <1>1, <3>2
    <3> QED BY <2>1, <3>3, <3>4 DEF Approved
  <2> QED BY <2>2, <2>3
<1> QED BY <1>1, <1>2, <1>3 DEF SamePeriods, BatchesLast

LEMMA SettleRewrites ==
    ASSUME IInv, NEW a \in Admins,
           InsertItems(a) \/ CompleteItems(a) \/ ApproveBatch(a) \/ CompleteBatch(a)
    PROVE  SamePeriods /\ BatchesLast
<1>1. work[a].batch \in Nat /\ batches \in Seq(BatchRow)
  BY DEF IInv, BatchTypes, WorkTypes
<1>2. CASE InsertItems(a) \/ CompleteItems(a)
  <2>1. CASE batches' = batches
    BY <1>1, <2>1 DEF SamePeriods, BatchesLast, Approved
  <2>2. CASE batches' # batches
    <3>1. \E s \in {"none", "pending", "completed"} :
             batches' = [batches EXCEPT ![work[a].batch].items = s]
      BY <1>1, <1>2, <2>2 DEF InsertItems, CompleteItems
    <3> QED BY <1>1, <3>1, Rewrites
  <2> QED BY <2>1, <2>2
<1>3. CASE ApproveBatch(a) \/ CompleteBatch(a)
  <2>1. \E s \in Statuses \ {"pending"} :
           batches' = [batches EXCEPT ![work[a].batch].status = s]
    BY <1>3 DEF ApproveBatch, CompleteBatch, SetStatus, Statuses
  <2> QED BY <1>1, <2>1, Rewrites
<1> QED BY <1>2, <1>3

LEMMA SettleKeeps ==
    ASSUME IInv, NEW a \in Admins, Settle(a) \/ AdminFails(a)
    PROVE  /\ UNCHANGED <<walletVars, day, meterVars>>
           /\ BatchesLast
           /\ Len(batches) \in Nat /\ Len(batches') \in Nat
           /\ ~InsertBatch(a) => SamePeriods
<1>1. UNCHANGED <<walletVars, day, meterVars>>
  BY DEF Settle, AdminFails, Generate, Tally, InsertBatch, InsertItems, Approve,
         Complete, Review, ApproveBatch, MarkBilled, CompleteBatch, CompleteItems,
         Unsettled
<1>2. Len(batches) \in Nat /\ Len(batches') \in Nat
  BY BatchFacts, SettleStep DEF IInv, BatchTypes
<1>3. CASE InsertBatch(a)
  <2>1. /\ Len(batches') = Len(batches) + 1
        /\ \A i \in 1..Len(batches) : batches'[i] = batches[i]
    BY <1>3, RowInserted
  <2> QED BY <1>1, <1>2, <1>3, <2>1 DEF BatchesLast, Approved
<1>4. CASE batches' = batches
  BY <1>1, <1>2, <1>4 DEF BatchesLast, SamePeriods, Approved
<1>5. CASE InsertItems(a) \/ CompleteItems(a) \/ ApproveBatch(a) \/ CompleteBatch(a)
  BY <1>1, <1>2, <1>5, SettleRewrites
<1> QED BY <1>3, <1>4, <1>5
        DEF Settle, AdminFails, Generate, Tally, Approve, Complete, Review, MarkBilled
-----------------------------------------------------------------------------
(* The bounds hold.                                                        *)
LEMMA BoundsInit == Init => TInv
<1> SUFFICES ASSUME Init PROVE TInv
  OBVIOUS
<1>1. LastDay >= 1 /\ LastDay \in Nat /\ MaxBatches \in Nat
  BY BillingNumbers
<1>2. Len(batches) = 0 /\ billed = {} /\ deducted = {} /\ day = 1
  BY DEF Init
<1>3. \A e \in Events : created[e] <= LastDay
  BY <1>1 DEF Init
<1>4. \A a \in Admins : WorkBounded(apc[a], work[a])
  BY <1>1, <1>2 DEF Init, WorkBounded, Idle, Work
<1> QED BY <1>1, <1>2, <1>3, <1>4 DEF Init, TInv

LEMMA MeterBounds ==
    ASSUME IInv, TInv, NEW e \in Events, Meter(e) \/ MeterFails(e)
    PROVE  TInv'
<1>1. UNCHANGED settleVars /\ day' = day /\ event' = event
  BY DEF Meter, MeterFails, Price, ChargePaid, ChargeRefused, InsertUsage, settleVars
<1>2. deducted' \subseteq Events
  BY DEF Meter, MeterFails, Price, ChargePaid, ChargeRefused, InsertUsage, TInv
<1>3. (\A f \in Events : created'[f] <= LastDay) /\ billed' \subseteq Recorded'
  <2>1. CASE created' = created /\ billed' = billed
    BY <2>1 DEF TInv, Recorded
  <2>2. CASE InsertUsage(e)
    <3>1. /\ created' = [created EXCEPT ![e] = day] /\ created \in [Events -> Nat]
          /\ billed' \subseteq billed \cup {e} /\ day \in 1..LastDay
      BY <2>2 DEF InsertUsage, BilledIfDeducted, IInv, MeterTypes, TInv
    <3>2. created'[e] = day /\ \A f \in Events : f # e => created'[f] = created[f]
      BY <3>1
    <3>3. \A f \in Events : created'[f] <= LastDay
      BY <3>1, <3>2 DEF TInv
    <3>4. billed' \subseteq Recorded'
      BY <3>1, <3>2, BillingNumbers DEF TInv, Recorded
    <3> QED BY <3>3, <3>4
  <2> QED BY <2>1, <2>2 DEF Meter, MeterFails, Price, ChargePaid, ChargeRefused
<1>4. \A a \in Admins : WorkBounded(apc[a], work[a])'
  BY <1>1 DEF TInv, WorkBounded, settleVars
<1> QED BY <1>1, <1>2, <1>3, <1>4 DEF TInv, settleVars

(* The request that moves on stays in bounds if its new work is; the       *)
(* others stay where they are.                                             *)
LEMMA WorkStaysBounded ==
    ASSUME IInv, TInv, NEW a \in Admins, NEW place, NEW w,
           At(a, place), work' = [work EXCEPT ![a] = w],
           BatchesLast, Len(batches) \in Nat, Len(batches') \in Nat,
           WorkBounded(place, w)'
    PROVE  \A b \in Admins : WorkBounded(apc[b], work[b])'
<1>1. /\ apc'[a] = place /\ work'[a] = w
      /\ \A b \in Admins : b # a => apc'[b] = apc[b] /\ work'[b] = work[b]
  BY OneMoves
<1>2. ASSUME NEW b \in Admins, b # a PROVE WorkBounded(apc[b], work[b])'
  <2>1. work[b].batch \in Nat /\ WorkBounded(apc[b], work[b])
    BY DEF IInv, BatchTypes, WorkTypes, TInv
  <2>2. work[b].batch <= Len(batches')
    BY <2>1 DEF BatchesLast, WorkBounded
  <2>3. apc'[b] = apc[b] /\ work'[b] = work[b]
    BY <1>1, <1>2
  <2> QED BY <2>1, <2>2, <2>3 DEF WorkBounded
<1>3. WorkBounded(apc[a], work[a])'
  BY <1>1
<1> QED BY <1>2, <1>3

LEMMA SettleBoundsWork ==
    ASSUME IInv, TInv, NEW a \in Admins, Settle(a) \/ AdminFails(a)
    PROVE  \A b \in Admins : WorkBounded(apc[b], work[b])'
<1>1. /\ BatchesLast /\ Len(batches) \in Nat /\ Len(batches') \in Nat
      /\ day \in 1..LastDay /\ LastDay \in Nat /\ LastDay >= 1 /\ MaxBatches \in Nat
      /\ Len(batches) <= MaxBatches
  BY SettleKeeps, BillingNumbers DEF TInv
<1>2. /\ work[a] \in WorkTypes /\ WorkBounded(apc[a], work[a])
      /\ BatchTypes /\ batches \in Seq(BatchRow)
      /\ work \in [Admins -> WorkTypes]
  BY DEF IInv, BatchTypes, TInv
<1>3. CASE Return(a)
  <2>1. WorkBounded("idle", Idle)'
    BY <1>1 DEF WorkBounded, Idle, Work
  <2>2. PICK w : w = Idle
    OBVIOUS
  <2>3. WorkBounded("idle", w)'
    BY <2>1, <2>2 DEF Idle, Work
  <2> QED BY <1>1, <1>3, <2>2, <2>3, WorkStaysBounded DEF Return
<1>4. CASE Generate(a)
  <2>1. PICK start \in PeriodStart :
           work' = [work EXCEPT ![a] = Work(0, start, day, Len(batches), {}, {})]
    BY <1>4 DEF Generate
  <2>2. start \in 1..LastDay + 1
    <3>1. CASE batches = <<>>
      BY <1>1, <2>1, <3>1, BillingNumbers DEF PeriodStart, ThisMonth
    <3>2. CASE batches # <<>>
      <4>1. PICK i \in Latest : start = batches[i].end + 1
        BY <2>1, <3>2 DEF PeriodStart
      <4>2. i \in 1..Len(batches)
        BY <1>2 DEF Latest
      <4>3. batches[i].end \in 1..LastDay
        BY <4>2 DEF TInv, BatchBounded
      <4> QED BY <1>1, <4>1, <4>3
    <3> QED BY <3>1, <3>2
  <2>3. PICK w : w = Work(0, start, day, Len(batches), {}, {})
    OBVIOUS
  <2>4. WorkBounded("tally", w)'
    BY <1>1, <2>2, <2>3 DEF WorkBounded, Work
  <2> QED BY <1>1, <1>4, <2>1, <2>3, <2>4, WorkStaysBounded DEF Generate
<1>5. CASE Tally(a) /\ ~Return(a)
  <2>1. PICK w : w = Work(0, work[a].start, work[a].end, work[a].saw,
                          TallyFrom(work[a].start), Recorded)
    OBVIOUS
  <2>2. work' = [work EXCEPT ![a] = w] /\ At(a, "insertBatch") /\ apc[a] = "tally"
    BY <1>2, <1>5, <2>1 DEF Tally
  <2>3. WorkBounded("insertBatch", w)'
    BY <1>1, <1>2, <2>1, <2>2 DEF WorkBounded, Work
  <2> QED BY <1>1, <2>2, <2>3, WorkStaysBounded
<1>6. CASE InsertBatch(a)
  <2>1. PICK w : w = Work(Len(batches) + 1, 0, 0, 0, {}, {})
    OBVIOUS
  <2>2. work' = [work EXCEPT ![a] = w] /\ At(a, "insertItems")
    BY <1>6, <2>1 DEF InsertBatch
  <2>3. Len(batches') = Len(batches) + 1
    BY <1>6, RowInserted
  <2>4. WorkBounded("insertItems", w)'
    BY <1>1, <2>1, <2>3 DEF WorkBounded, Work
  <2> QED BY <1>1, <2>2, <2>4, WorkStaysBounded
<1>7. CASE Approve(a) \/ Complete(a)
  <2>1. PICK i \in DOMAIN batches :
           work' = [work EXCEPT ![a] = Work(i, batches[i].start, 0, 0, {}, {})]
    BY <1>7 DEF Approve, Complete, Review
  <2>2. PICK w : w = Work(i, batches[i].start, 0, 0, {}, {})
    OBVIOUS
  <2>3. PICK place \in {"approve", "complete"} : At(a, place)
    BY <1>7 DEF Approve, Complete, Review
  <2>4. i \in 1..Len(batches) /\ batches[i].start \in 1..LastDay + 1
    BY <1>2 DEF TInv, BatchBounded
  <2>5. WorkBounded(place, w)'
    BY <1>1, <2>2, <2>3, <2>4 DEF WorkBounded, Work, BatchesLast
  <2> QED BY <1>1, <2>1, <2>2, <2>3, <2>5, WorkStaysBounded
<1>8. CASE ApproveBatch(a) \/ CompleteBatch(a)
  <2>1. PICK w : w = work[a]
    OBVIOUS
  <2>2. work' = [work EXCEPT ![a] = w]
    BY <1>2, <1>8, <2>1 DEF ApproveBatch, CompleteBatch
  <2>3. PICK place \in {"markBilled", "completeItems"} : At(a, place)
    BY <1>8 DEF ApproveBatch, CompleteBatch
  <2>4. w.batch \in Nat
    BY <1>2, <2>1 DEF WorkTypes
  <2>5. w.batch <= Len(batches')
    BY <1>1, <1>2, <2>1, <2>4 DEF WorkBounded, BatchesLast
  <2>6. WorkBounded(place, w)'
    BY <1>2, <2>1, <2>3, <2>5 DEF WorkBounded
  <2> QED BY <1>1, <2>2, <2>3, <2>6, WorkStaysBounded
<1> QED BY <1>3, <1>4, <1>5, <1>6, <1>7, <1>8
        DEF Settle, AdminFails, Tally, InsertItems, MarkBilled, CompleteItems

LEMMA SettleBounds ==
    ASSUME IInv, TInv, NEW a \in Admins, Settle(a) \/ AdminFails(a)
    PROVE  TInv'
<1>1. /\ UNCHANGED <<walletVars, day, meterVars>>
      /\ BatchesLast /\ Len(batches) \in Nat /\ Len(batches') \in Nat
      /\ ~InsertBatch(a) => SamePeriods
  BY SettleKeeps
<1>2. billed' \subseteq Recorded'
  <2>1. billed' \subseteq billed \cup Recorded
    BY DEF Settle, AdminFails, Generate, Tally, InsertBatch, InsertItems, Approve,
           Complete, Review, ApproveBatch, MarkBilled, CompleteBatch, CompleteItems,
           MarkedFrom
  <2> QED BY <1>1, <2>1 DEF TInv, Recorded, meterVars
<1>3. Len(batches') <= MaxBatches /\ \A i \in 1..Len(batches') : BatchBounded(batches'[i])
  <2>1. CASE InsertBatch(a)
    <3>1. /\ Len(batches') = Len(batches) + 1
          /\ \A i \in 1..Len(batches) : batches'[i] = batches[i]
          /\ batches'[Len(batches) + 1].start = work[a].start
          /\ batches'[Len(batches) + 1].end = work[a].end
          /\ batches'[Len(batches) + 1].saw = work[a].saw
      BY <2>1, RowInserted
    <3>2. /\ Len(batches) < MaxBatches /\ WorkBounded("insertBatch", work[a])
          /\ work[a] \in WorkTypes
      BY <2>1 DEF InsertBatch, TInv, IInv, BatchTypes
    <3>3. LastDay \in Nat /\ work[a].start \in Nat /\ work[a].end \in Nat
      BY <3>2, BillingNumbers DEF WorkTypes
    <3>4. BatchBounded(batches'[Len(batches) + 1])
      BY <3>1, <3>2, <3>3 DEF BatchBounded, WorkBounded
    <3>5. Len(batches') <= MaxBatches
      BY <1>1, <3>1, <3>2, BillingNumbers
    <3>6. \A i \in 1..Len(batches') : i \in 1..Len(batches) \/ i = Len(batches) + 1
      BY <1>1, <3>1
    <3> QED BY <3>1, <3>4, <3>5, <3>6 DEF TInv
  <2>2. CASE ~InsertBatch(a)
    BY <1>1, <2>2 DEF SamePeriods, TInv, BatchBounded
  <2> QED BY <2>1, <2>2
<1>4. \A b \in Admins : WorkBounded(apc[b], work[b])'
  BY SettleBoundsWork
<1>5. day' = day /\ event' = event /\ deducted' = deducted /\ created' = created
  BY <1>1 DEF meterVars
<1> QED BY <1>2, <1>3, <1>4, <1>5 DEF TInv

LEMMA RestBounds ==
    ASSUME IInv, TInv, Crash \/ Midnight \/ UNCHANGED vars
    PROVE  TInv'
<1>1. /\ UNCHANGED <<event, deducted, created, billed, batches>>
      /\ day' \in 1..LastDay
  BY BillingNumbers DEF Crash, Midnight, vars, meterVars, settleVars, TInv
<1>2. \A a \in Admins : WorkBounded(apc[a], work[a])'
  <2>1. CASE Crash
    <3>1. Len(batches) \in Nat /\ LastDay \in Nat /\ MaxBatches \in Nat
      BY BatchFacts, BillingNumbers DEF IInv
    <3>2. \A a \in Admins : apc'[a] = "idle" /\ work'[a] = Idle
      BY <2>1 DEF Crash
    <3> QED BY <1>1, <3>1, <3>2 DEF WorkBounded, Idle, Work
  <2>2. CASE Midnight \/ UNCHANGED vars
    BY <2>2 DEF Midnight, vars, settleVars, TInv, WorkBounded
  <2> QED BY <2>1, <2>2
<1> QED BY <1>1, <1>2 DEF TInv, Recorded

(* The usage rows, the payout batches and what the requests hold are of    *)
(* their types, whoever fails in between.                                  *)
THEOREM BillingTyped == Spec => []TypeOK
<1>1. IInv /\ TInv => TypeOK
  <2> SUFFICES ASSUME IInv, TInv PROVE TypeOK
    OBVIOUS
  <2>1. created \in [Events -> 0..LastDay]
    BY BillingNumbers DEF IInv, MeterTypes, TInv
  <2>2. batches \in Seq(Batches)
    <3>1. batches \in Seq(BatchRow) /\ Len(batches) \in Nat
      BY BatchFacts DEF IInv, BatchTypes
    <3>2. ASSUME NEW i \in 1..Len(batches) PROVE batches[i] \in Batches
      <4>1. batches[i] \in BatchRow /\ BatchBounded(batches[i])
        BY <3>1 DEF TInv
      <4>2. batches[i].saw \in 0..MaxBatches
        BY <4>1, BillingNumbers DEF BatchRow, BatchBounded
      <4> QED BY <4>1, <4>2 DEF BatchRow, BatchBounded, Batches
    <3> QED BY <3>1, <3>2
  <2>3. work \in [Admins -> [batch : 0..MaxBatches, start : 0..LastDay + 1,
                             end : 0..LastDay, saw : 0..MaxBatches,
                             tallied : SUBSET Events, known : SUBSET Events]]
    <3>1. work \in [Admins -> WorkTypes] /\ Len(batches) \in Nat
      BY BatchFacts DEF IInv, BatchTypes
    <3>2. ASSUME NEW a \in Admins
          PROVE  work[a] \in [batch : 0..MaxBatches, start : 0..LastDay + 1,
                              end : 0..LastDay, saw : 0..MaxBatches,
                              tallied : SUBSET Events, known : SUBSET Events]
      <4>1. work[a] \in WorkTypes /\ WorkBounded(apc[a], work[a])
        BY <3>1 DEF TInv
      <4>2. work[a].batch \in 0..MaxBatches
        BY <3>1, <4>1, BillingNumbers DEF TInv, WorkTypes, WorkBounded
      <4>3. /\ work[a].start \in 0..LastDay + 1 /\ work[a].end \in 0..LastDay
            /\ work[a].saw \in 0..MaxBatches
        BY <4>1, BillingNumbers DEF WorkTypes, WorkBounded
      <4> QED BY <4>1, <4>2, <4>3 DEF WorkTypes
    <3> QED BY <3>1, <3>2
  <2> QED BY <2>1, <2>2, <2>3 DEF IInv, MeterTypes, BatchTypes, TInv, TypeOK
<1>2. IInv /\ TInv /\ [Next]_vars => TInv'
  BY MeterBounds, SettleBounds, RestBounds DEF Next
<1> QED BY <1>1, <1>2, BillingInit, BillingStep, BoundsInit, PTL DEF Spec
-----------------------------------------------------------------------------
(* What a tally knew.  Of the rows that were there, those since the start  *)
(* of the period were tallied or said billed already; the others came on   *)
(* its last day or later.                                                  *)
KnownKept(start, end, tallied, known) ==
    /\ end <= day
    /\ \A e \in known :
          /\ created[e] > 0
          /\ created[e] >= start => e \in tallied \cup billed
    /\ \A e \in Events \ known : created[e] > 0 => created[e] >= end

KInv ==
    /\ \A i \in 1..Len(batches) :
          KnownKept(batches[i].start, batches[i].end, batches[i].tallied,
                    batches[i].known)
    /\ \A a \in Admins :
          /\ apc[a] = "tally" => work[a].end <= day
          /\ apc[a] = "insertBatch" =>
                KnownKept(work[a].start, work[a].end, work[a].tallied, work[a].known)

(* Days pass, rows are added today and nothing becomes unbilled.           *)
RowsAge ==
    /\ day' \in Nat /\ day <= day'
    /\ billed \subseteq billed'
    /\ \A e \in Events :
          created'[e] = created[e] \/ (created[e] = 0 /\ created'[e] = day)

LEMMA KnownLasts ==
    ASSUME IInv, RowsAge, NEW start \in Nat, NEW end \in Nat, NEW tallied,
           NEW known \in SUBSET Events, KnownKept(start, end, tallied, known)
    PROVE  KnownKept(start, end, tallied, known)'
<1>1. day \in Nat /\ day' \in Nat /\ day <= day' /\ end <= day
  BY DEF IInv, MeterTypes, RowsAge, KnownKept
<1>2. \A e \in Events : created[e] \in Nat
  BY DEF IInv, MeterTypes
<1>3. ASSUME NEW e \in known
      PROVE  /\ created'[e] > 0
             /\ created'[e] >= start => e \in tallied \cup billed'
  BY <1>3 DEF RowsAge, KnownKept
<1>4. ASSUME NEW e \in Events \ known, created'[e] > 0
      PROVE  created'[e] >= end
  BY <1>1, <1>2, <1>4 DEF RowsAge, KnownKept
<1> QED BY <1>1, <1>3, <1>4 DEF KnownKept

LEMMA KnownInit == Init => KInv
  BY DEF Init, KInv

(* As long as no batch is inserted, what is known of the batches lasts.    *)
LEMMA BatchesKnown ==
    ASSUME IInv, KInv, RowsAge, SamePeriods
    PROVE  \A i \in 1..Len(batches') :
              KnownKept(batches[i].start, batches[i].end, batches[i].tallied,
                        batches[i].known)'
<1> SUFFICES ASSUME NEW i \in 1..Len(batches')
             PROVE  KnownKept(batches[i].start, batches[i].end, batches[i].tallied,
                              batches[i].known)'
  OBVIOUS
<1>1. /\ i \in 1..Len(batches) /\ batches[i].start \in Nat /\ batches[i].end \in Nat
      /\ batches[i].known \in SUBSET Events
  BY BatchFacts DEF SamePeriods, IInv
<1>2. PICK start \in Nat, end \in Nat, tallied \in {batches[i].tallied},
           known \in SUBSET Events :
         start = batches[i].start /\ end = batches[i].end /\ known = batches[i].known
  BY <1>1
<1>3. KnownKept(start, end, tallied, known)'
  BY <1>1, <1>2, KnownLasts DEF KInv
<1>4. /\ batches'[i].start = start /\ batches'[i].end = end
      /\ batches'[i].tallied = tallied /\ batches'[i].known = known
  BY <1>1, <1>2 DEF SamePeriods
<1> QED BY <1>3, <1>4 DEF KnownKept

(* The same of a request that stays where it is.                           *)
LEMMA WorkKnown ==
    ASSUME IInv, KInv, RowsAge, NEW b \in Admins,
           apc'[b] = apc[b], work'[b] = work[b]
    PROVE  /\ apc'[b] = "tally" => work'[b].end <= day'
           /\ apc'[b] = "insertBatch" =>
                 KnownKept(work[b].start, work[b].end, work[b].tallied,
                           work[b].known)'
<1>1. /\ work[b].start \in Nat /\ work[b].end \in Nat
      /\ work[b].known \in SUBSET Events /\ day \in Nat
  BY DEF IInv, BatchTypes, WorkTypes, MeterTypes
<1>2. apc[b] = "tally" => work[b].end <= day'
  BY <1>1 DEF KInv, RowsAge
<1>3. ASSUME apc[b] = "insertBatch"
      PROVE  KnownKept(work[b].start, work[b].end, work[b].tallied, work[b].known)'
  <2>1. PICK start \in Nat, end \in Nat, tallied \in {work[b].tallied},
             known \in SUBSET Events :
           start = work[b].start /\ end = work[b].end /\ known = work[b].known
    BY <1>1
  <2>2. KnownKept(start, end, tallied, known)'
    BY <1>3, <2>1, KnownLasts DEF KInv
  <2> QED BY <2>1, <2>2 DEF KnownKept
<1> QED BY <1>2, <1>3

LEMMA MeterKnown ==
    ASSUME IInv, KInv, NEW e \in Events, Meter(e) \/ MeterFails(e)
    PROVE  KInv'
<1>1. UNCHANGED settleVars /\ day' = day
  BY DEF Meter, MeterFails, Price, ChargePaid, ChargeRefused, InsertUsage, settleVars
<1>2. /\ billed \subseteq billed'
      /\ created' = created \/ (created[e] = 0 /\ created' = [created EXCEPT ![e] = day])
  BY DEF Meter, MeterFails, Price, ChargePaid, ChargeRefused, InsertUsage,
         BilledIfDeducted, IInv, MeterTypes
<1>3. RowsAge
  BY <1>1, <1>2 DEF RowsAge, IInv, MeterTypes
<1>4. Len(batches) \in Nat
  BY BatchFacts DEF IInv
<1>5. SamePeriods
  BY <1>1, <1>4 DEF SamePeriods, settleVars
<1>6. \A b \in Admins : apc'[b] = apc[b] /\ work'[b] = work[b]
  BY <1>1 DEF settleVars
<1> QED BY <1>3, <1>5, <1>6, BatchesKnown, WorkKnown DEF KInv

(* The request reads its rows at the moment it notes which there are.      *)
LEMMA TallyKnows ==
    ASSUME IInv, KInv, NEW a \in Admins, Tally(a), ~Return(a)
    PROVE  /\ apc'[a] = "insertBatch"
           /\ KnownKept(work[a].start, work[a].end, work[a].tallied, work[a].known)'
<1>1. PICK start \in Nat, end \in Nat, saw \in Nat :
         start = work[a].start /\ end = work[a].end /\ saw = work[a].saw
  BY DEF IInv, BatchTypes, WorkTypes
<1>2. PICK w : w = Work(0, start, end, saw, TallyFrom(start), Recorded)
  OBVIOUS
<1>3. /\ apc[a] = "tally" /\ At(a, "insertBatch") /\ work' = [work EXCEPT ![a] = w]
      /\ UNCHANGED <<day, created, billed>>
  BY <1>1, <1>2 DEF Tally, Unsettled, meterVars
<1>4. apc'[a] = "insertBatch" /\ work'[a] = w
  BY <1>3, OneMoves
<1>5. /\ w.start = start /\ w.end = end /\ w.tallied = TallyFrom(start)
      /\ w.known = Recorded
  BY <1>2 DEF Work
<1>6. end <= day
  BY <1>1, <1>3 DEF KInv
<1>7. \A e \in Events : created[e] \in Nat
  BY DEF IInv, MeterTypes
<1>8. KnownKept(start, end, TallyFrom(start), Recorded)
  BY <1>6, <1>7 DEF KnownKept, TallyFrom, Unbilled, Recorded
<1>9. KnownKept(w.start, w.end, w.tallied, w.known)
  BY <1>5, <1>8
<1> QED BY <1>3, <1>4, <1>9 DEF KnownKept

LEMMA SettleKnown ==
    ASSUME IInv, KInv, NEW a \in Admins, Settle(a) \/ AdminFails(a)
    PROVE  KInv'
<1>1. /\ UNCHANGED <<walletVars, day, meterVars>>
      /\ ~InsertBatch(a) => SamePeriods
      /\ Len(batches) \in Nat /\ Len(batches') \in Nat
  BY SettleKeeps
<1>2. billed \subseteq billed'
  BY DEF Settle, AdminFails, Generate, Tally, InsertBatch, InsertItems, Approve,
         Complete, Review, ApproveBatch, MarkBilled, CompleteBatch, CompleteItems
<1>3. RowsAge
  BY <1>1, <1>2 DEF RowsAge, IInv, MeterTypes, meterVars
<1>4. /\ apc \in [Admins -> AdminPlaces] /\ work \in [Admins -> WorkTypes]
  BY DEF IInv, BatchTypes
<1>5. \A b \in Admins : b # a => apc'[b] = apc[b] /\ work'[b] = work[b]
  BY <1>4 DEF Settle, AdminFails, Generate, Tally, InsertBatch, InsertItems, Approve,
              Complete, Review, ApproveBatch, MarkBilled, CompleteBatch,
              CompleteItems, At, Return
<1>6. /\ apc'[a] = "tally" => work'[a].end <= day'
      /\ apc'[a] = "insertBatch" =>
            KnownKept(work[a].start, work[a].end, work[a].tallied, work[a].known)'
  <2>1. CASE Generate(a)
    <3>1. PICK start \in PeriodStart :
             work' = [work EXCEPT ![a] = Work(0, start, day, Len(batches), {}, {})]
      BY <2>1 DEF Generate
    <3>2. PICK w : w = Work(0, start, day, Len(batches), {}, {})
      OBVIOUS
    <3>3. apc'[a] = "tally" /\ work'[a] = w
      BY <2>1, <3>1, <3>2, OneMoves DEF Generate
    <3>4. w.end = day /\ day \in Nat /\ day' = day
      BY <1>1, <3>2 DEF Work, IInv, MeterTypes
    <3> QED BY <3>3, <3>4
  <2>2. CASE Tally(a) /\ ~Return(a)
    BY <2>2, TallyKnows
  <2>3. CASE ~Generate(a) /\ (~Tally(a) \/ Return(a))
    <3>1. apc'[a] \notin {"tally", "insertBatch"}
      BY <1>4, <2>3 DEF Settle, AdminFails, InsertBatch, InsertItems, Approve,
             Complete, Review, ApproveBatch, MarkBilled, CompleteBatch,
             CompleteItems, At, Return
    <3> QED BY <3>1
  <2> QED BY <2>1, <2>2, <2>3
<1>7. \A i \in 1..Len(batches') :
         KnownKept(batches[i].start, batches[i].end, batches[i].tallied,
                   batches[i].known)'
  <2>1. CASE ~InsertBatch(a)
    BY <1>1, <1>3, <2>1, BatchesKnown
  <2>2. CASE InsertBatch(a)
    <3>1. /\ Len(batches') = Len(batches) + 1
          /\ \A i \in 1..Len(batches) : batches'[i] = batches[i]
          /\ batches'[Len(batches) + 1].start = work[a].start
          /\ batches'[Len(batches) + 1].end = work[a].end
          /\ batches'[Len(batches) + 1].tallied = work[a].tallied
          /\ batches'[Len(batches) + 1].known = work[a].known
      BY <2>2, RowInserted
    <3>2. day' = day /\ created' = created /\ billed' = billed
      BY <1>1, <2>2 DEF InsertBatch, meterVars
    <3>3. KnownKept(work[a].start, work[a].end, work[a].tallied, work[a].known)
      BY <2>2 DEF InsertBatch, KInv
    <3>4. ASSUME NEW i \in 1..Len(batches')
          PROVE  KnownKept(batches'[i].start, batches'[i].end, batches'[i].tallied,
                           batches'[i].known)
      <4>1. i \in 1..Len(batches) \/ i = Len(batches) + 1
        BY <1>1, <3>1
      <4> QED BY <3>1, <3>3, <4>1 DEF KInv
    <3> QED BY <3>2, <3>4 DEF KnownKept
  <2> QED BY <2>1, <2>2
<1> QED BY <1>3, <1>5, <1>6, <1>7, WorkKnown DEF KInv

LEMMA RestKnown ==
    ASSUME IInv, KInv, Crash \/ Midnight \/ UNCHANGED vars
    PROVE  KInv'
<1>1. /\ UNCHANGED <<created, billed, batches>>
      /\ day' = day \/ day' = day + 1
  BY DEF Crash, Midnight, vars, meterVars, settleVars
<1>2. RowsAge /\ SamePeriods
  BY <1>1, BatchFacts DEF RowsAge, SamePeriods, IInv, MeterTypes
<1>3. CASE Crash
  <2>1. \A b \in Admins : apc'[b] = "idle"
    BY <1>3 DEF Crash
  <2> QED BY <1>2, <2>1, BatchesKnown DEF KInv
<1>4. CASE Midnight \/ UNCHANGED vars
  <2>1. \A b \in Admins : apc'[b] = apc[b] /\ work'[b] = work[b]
    BY <1>4 DEF Midnight, vars, settleVars
  <2> QED BY <1>2, <2>1, BatchesKnown, WorkKnown DEF KInv
<1> QED BY <1>3, <1>4

LEMMA KnownStep == IInv /\ KInv /\ [Next]_vars => KInv'
  BY MeterKnown, SettleKnown, RestKnown DEF Next
-----------------------------------------------------------------------------
(* What a row says was earned: rows of the wallets are only ever added,    *)
(* and a batch once approved stays approved from its day on.               *)
LEMMA PriceFacts ==
    ASSUME NEW p \in Prices
    PROVE  /\ p.org \in Orgs \cup {NoOrg}
           /\ p.total \in Int /\ (p.total # 0 => p.total \in Amounts)
           /\ p.fee \in Int /\ p.fee \in Amounts \cup {0} /\ p.fee <= p.total
<1>1. p.total \in Amounts \cup {0} /\ p.fee \in Amounts \cup {0}
  BY DEF Prices
<1>2. \A x \in Amounts \cup {0} : x \in Int
  BY BillingNumbers
<1>3. p.total \in Int /\ p.fee \in Int
  BY <1>1, <1>2
<1>4. p.org \in Orgs \cup {NoOrg} /\ p.fee <= p.total
  BY DEF Prices
<1> QED BY <1>1, <1>3, <1>4

LEMMA EarnedInit == Init => PInv
<1> SUFFICES ASSUME Init PROVE PInv
  OBVIOUS
<1>1. Amounts \cup {0} \subseteq Int
  BY BillingNumbers
<1>2. WalletTypes
  <2>1. balance \in [Wallet!Wallets -> Int]
    BY <1>1 DEF Init, Wallet!LedgerInit
  <2>2. ASSUME NEW w \in Wallet!Wallets
        PROVE  ledger[w] \in Seq(WalletRows)
    <3>1. Wallet!OpeningRow(w, balance[w]) \in WalletRows
      BY <2>1 DEF Wallet!OpeningRow, Wallet!Entry, Wallet!Kinds, WalletRows
    <3>2. PICK row \in WalletRows : row = Wallet!OpeningRow(w, balance[w])
      BY <3>1
    <3>3. ledger[w] = <<>> \/ ledger[w] = <<row>>
      BY <3>2 DEF Init, Wallet!LedgerInit
    <3>4. <<>> \in Seq(WalletRows) /\ <<row>> \in Seq(WalletRows)
      OBVIOUS
    <3> QED BY <3>3, <3>4
  <2> QED BY <2>1, <2>2 DEF Init, Wallet!LedgerInit, WalletTypes
<1>3. ChargesOwed
  BY DEF Init, ChargesOwed
<1>4. \A a \in Admins : Reviews(apc[a], work[a])
  BY DEF Init, Reviews
<1> QED BY <1>2, <1>3, <1>4 DEF Init, PInv

(* The rows that were there stay where they are.                           *)
RowsLast ==
    \A w \in Wallet!Wallets :
        /\ Len(ledger[w]) <= Len(ledger'[w])
        /\ \A i \in 1..Len(ledger[w]) : ledger'[w][i] = ledger[w][i]

LEMMA PaidLasts ==
    ASSUME WalletTypes, WalletTypes', RowsLast, event' = event,
           NEW e, Paid(e)
    PROVE  Paid(e)'
<1>1. ASSUME NEW w \in Wallet!Wallets, NEW kind, NEW amount, HasRow(w, kind, amount, e)
      PROVE  HasRow(w, kind, amount, e)'
  <2>1. ledger[w] \in Seq(WalletRows) /\ ledger'[w] \in Seq(WalletRows)
    BY DEF WalletTypes
  <2>2. /\ DOMAIN ledger[w] = 1..Len(ledger[w]) /\ Len(ledger[w]) \in Nat
        /\ DOMAIN ledger'[w] = 1..Len(ledger'[w]) /\ Len(ledger'[w]) \in Nat
    BY <2>1
  <2>3. PICK i \in 1..Len(ledger[w]) :
           /\ ledger[w][i].kind = kind
           /\ ledger[w][i].amount = amount
           /\ ledger[w][i].ref = e
    BY <1>1, <2>2 DEF HasRow
  <2>4. ledger'[w][i] = ledger[w][i] /\ i \in 1..Len(ledger'[w])
    BY <2>2 DEF RowsLast
  <2> QED BY <2>2, <2>3, <2>4 DEF HasRow
<1>2. PICK o : o = event[e].org
  OBVIOUS
<1>3. PICK total, fee : total = -event[e].total /\ fee = event[e].fee
  OBVIOUS
<1>4. PICK p \in PlatformIds : HasRow(p, "platform_fee", fee, e)
  BY <1>3 DEF Paid
<1>5. HasRow(o, "transaction_fee", total, e) /\ o \in Orgs
  BY <1>2, <1>3 DEF Paid
<1>6. o \in Wallet!Wallets /\ p \in Wallet!Wallets
  BY <1>5 DEF Wallet!Wallets
<1>7. HasRow(o, "transaction_fee", total, e)' /\ HasRow(p, "platform_fee", fee, e)'
  BY <1>1, <1>4, <1>5, <1>6
<1> QED BY <1>2, <1>3, <1>5, <1>7 DEF Paid

(* Charging an event appends the payer's row and the platform's.           *)
LEMMA ChargePays ==
    ASSUME PInv, TInv, NEW e \in Events, ChargePaid(e)
    PROVE  WalletTypes' /\ RowsLast /\ Paid(e)'
<1>1. PICK p \in PlatformIds :
         Wallet!Charge(event[e].org, p, event[e].total, event[e].fee, e)
  BY DEF ChargePaid
<1>2. PICK o, total, fee :
         o = event[e].org /\ total = event[e].total /\ fee = event[e].fee
  OBVIOUS
<1>3. o \in Orgs /\ total \in Int /\ fee \in Int /\ event' = event
  BY <1>2, PriceFacts DEF ChargePaid, PInv, ChargesOwed, TInv
<1>4. o \in Wallet!Wallets /\ p \in Wallet!Wallets /\ o # p
  BY <1>3, BillingNames DEF Wallet!Wallets
<1>5. PICK ro, rp :
         /\ ro = Wallet!Entry("transaction_fee", -total, balance[o] + (-total), e)
         /\ rp = Wallet!Entry("platform_fee", fee, balance[p] + fee, e)
  OBVIOUS
<1>6. /\ balance' = [balance EXCEPT ![o] = @ - total, ![p] = @ + fee]
      /\ ledger' = [ledger EXCEPT ![o] = Append(ledger[o], ro),
                                  ![p] = Append(ledger[p], rp)]
  BY <1>1, <1>2, <1>5 DEF Wallet!Charge, Wallet!Posted
<1>7. /\ balance \in [Wallet!Wallets -> Int] /\ ledger \in [Wallet!Wallets -> Seq(WalletRows)]
  BY DEF PInv, WalletTypes
<1>8. ro \in WalletRows /\ rp \in WalletRows
  <2>1. balance[o] + (-total) \in Int /\ balance[p] + fee \in Int /\ -total \in Int
    BY <1>3, <1>4, <1>7
  <2> QED BY <1>3, <1>5, <2>1 DEF Wallet!Entry, WalletRows, Wallet!Kinds
<1>9. balance' \in [Wallet!Wallets -> Int]
  BY <1>3, <1>4, <1>6, <1>7
<1>10. /\ ledger[o] \in Seq(WalletRows) /\ ledger[p] \in Seq(WalletRows)
       /\ ledger'[o] = Append(ledger[o], ro) /\ ledger'[p] = Append(ledger[p], rp)
       /\ \A w \in Wallet!Wallets : w # o /\ w # p => ledger'[w] = ledger[w]
  BY <1>4, <1>6, <1>7
<1>11. Append(ledger[o], ro) \in Seq(WalletRows) /\ Append(ledger[p], rp) \in Seq(WalletRows)
  BY <1>8, <1>10
<1>12. ledger' \in [Wallet!Wallets -> Seq(WalletRows)]
  BY <1>4, <1>6, <1>7, <1>11
<1>13. RowsLast
  <2>1. ASSUME NEW s \in Seq(WalletRows), NEW r \in WalletRows
        PROVE  /\ Len(s) <= Len(Append(s, r))
               /\ \A i \in 1..Len(s) : Append(s, r)[i] = s[i]
    OBVIOUS
  <2>2. ASSUME NEW w \in Wallet!Wallets
        PROVE  /\ Len(ledger[w]) <= Len(ledger'[w])
               /\ \A i \in 1..Len(ledger[w]) : ledger'[w][i] = ledger[w][i]
    <3>1. CASE w = o
      BY <1>8, <1>10, <2>1, <3>1
    <3>2. CASE w = p
      BY <1>8, <1>10, <2>1, <3>2
    <3>3. CASE w # o /\ w # p
      <4>1. ledger'[w] = ledger[w] /\ Len(ledger[w]) \in Nat
        BY <1>7, <1>10, <3>3
      <4> QED BY <4>1
    <3> QED BY <3>1, <3>2, <3>3
  <2> QED BY <2>2 DEF RowsLast
<1>14. Paid(e)'
  <2>1. ASSUME NEW s \in Seq(WalletRows), NEW r \in WalletRows
        PROVE  Len(s) + 1 \in DOMAIN Append(s, r) /\ Append(s, r)[Len(s) + 1] = r
    OBVIOUS
  <2>2. ro.kind = "transaction_fee" /\ ro.amount = -total /\ ro.ref = e
    BY <1>5 DEF Wallet!Entry
  <2>3. rp.kind = "platform_fee" /\ rp.amount = fee /\ rp.ref = e
    BY <1>5 DEF Wallet!Entry
  <2>4. Len(ledger[o]) + 1 \in DOMAIN ledger'[o] /\ ledger'[o][Len(ledger[o]) + 1] = ro
    BY <1>8, <1>10, <2>1
  <2>5. Len(ledger[p]) + 1 \in DOMAIN ledger'[p] /\ ledger'[p][Len(ledger[p]) + 1] = rp
    BY <1>8, <1>10, <2>1
  <2>6. HasRow(o, "transaction_fee", -total, e)'
    BY <2>2, <2>4 DEF HasRow
  <2>7. HasRow(p, "platform_fee", fee, e)'
    BY <2>3, <2>5 DEF HasRow
  <2> QED BY <1>2, <1>3, <2>6, <2>7 DEF Paid
<1> QED BY <1>9, <1>12, <1>13, <1>14 DEF WalletTypes

LEMMA MeterEarns ==
    ASSUME IInv, TInv, PInv, NEW e \in Events, Meter(e) \/ MeterFails(e)
    PROVE  PInv'
<1>1. UNCHANGED settleVars /\ event' = event
  BY DEF Meter, MeterFails, Price, ChargePaid, ChargeRefused, InsertUsage, settleVars
<1>2. WalletTypes' /\ RowsLast
  <2>1. CASE ChargePaid(e)
    BY <2>1, ChargePays
  <2>2. CASE UNCHANGED walletVars
    <3>1. WalletTypes'
      BY <2>2 DEF walletVars, PInv, WalletTypes
    <3>2. \A w \in Wallet!Wallets : Len(ledger[w]) \in Nat
      BY DEF PInv, WalletTypes
    <3> QED BY <2>2, <3>1, <3>2 DEF walletVars, RowsLast
  <2> QED BY <2>1, <2>2 DEF Meter, MeterFails, Price, ChargeRefused, InsertUsage
<1>3. \A f : Paid(f) => Paid(f)'
  BY <1>1, <1>2, PaidLasts DEF PInv
<1>4. \A f \in deducted' : Paid(f)'
  <2>1. CASE ChargePaid(e)
    <3>1. deducted' \subseteq deducted \cup {e} /\ Paid(e)'
      BY <2>1, ChargePays DEF ChargePaid
    <3> QED BY <1>3, <3>1 DEF PInv
  <2>2. CASE deducted' = deducted
    BY <1>3, <2>2 DEF PInv
  <2> QED BY <2>1, <2>2 DEF Meter, MeterFails, Price, ChargeRefused, InsertUsage
<1>5. ChargesOwed'
  <2>1. CASE Price(e)
    <3>1. stage' = [stage EXCEPT ![e] =
             IF event[e].org # NoOrg /\ event[e].total > 0 THEN "charge" ELSE "insert"]
      BY <2>1 DEF Price
    <3>2. \A f \in Events : f # e => stage'[f] = stage[f]
      BY <3>1 DEF IInv, MeterTypes
    <3>3. stage'[e] = "charge" => event[e].org # NoOrg /\ event[e].total > 0
      BY <3>1 DEF IInv, MeterTypes
    <3>4. event[e] \in Prices
      BY DEF TInv
    <3>5. stage'[e] = "charge" => event[e].org \in Orgs /\ event[e].total \in Amounts
      BY <3>3, <3>4, PriceFacts
    <3> QED BY <1>1, <3>2, <3>5 DEF PInv, ChargesOwed
  <2>2. CASE \E s \in {"insert", "done", "lost"} : stage' = [stage EXCEPT ![e] = s]
    BY <1>1, <2>2 DEF IInv, MeterTypes, PInv, ChargesOwed
  <2> QED BY <2>1, <2>2 DEF Meter, MeterFails, ChargePaid, ChargeRefused, InsertUsage
<1>6. ASSUME NEW f \in Events, created'[f] = created[f], ByApproval(f)
      PROVE  ByApproval(f)'
  BY <1>1, <1>6 DEF ByApproval, Approved, Late, settleVars
<1>7. \A a \in Admins : Reviews(apc[a], work[a])'
  BY <1>1 DEF settleVars, PInv, Reviews, Approved
<1>8. \A f \in billed' : Earned(f)'
  <2>1. CASE billed' = billed /\ created' = created
    BY <1>3, <1>6, <2>1 DEF PInv, TInv, Recorded, Earned
  <2>2. CASE InsertUsage(e)
    <3>1. /\ created' = [created EXCEPT ![e] = day] /\ created[e] = 0
          /\ created \in [Events -> Nat]
          /\ billed' \subseteq billed \cup (deducted \cap {e})
      BY <2>2 DEF InsertUsage, BilledIfDeducted, IInv, MeterTypes
    <3>2. \A f \in deducted \cap {e} : Earned(f)'
      BY <1>3 DEF PInv, Earned
    <3>3. ASSUME NEW f \in billed PROVE Earned(f)'
      <4>1. f \in Events /\ created[f] > 0
        BY DEF TInv, Recorded
      <4>2. created'[f] = created[f]
        BY <3>1, <4>1
      <4> QED BY <1>3, <1>6, <4>1, <4>2 DEF PInv, Earned
    <3> QED BY <3>1, <3>2, <3>3
  <2> QED BY <2>1, <2>2 DEF Meter, MeterFails, Price, ChargePaid, ChargeRefused
<1> QED BY <1>2, <1>4, <1>5, <1>7, <1>8 DEF PInv

(* Approving leaves an approved batch whose period is the one that is      *)
(* marked next.                                                            *)
LEMMA ApprovalCovers ==
    ASSUME IInv, PInv, NEW a \in Admins, ApproveBatch(a)
    PROVE  Reviews("markBilled", work[a])'
<1>1. PICK b, start : b = work[a].batch /\ start = work[a].start
  OBVIOUS
<1>2. b \in 1..Len(batches) /\ batches[b].start = start
  BY <1>1 DEF ApproveBatch, PInv, Reviews
<1>3. /\ batches' = [batches EXCEPT ![b].status = "processing"] /\ work' = work
      /\ batches \in Seq(BatchRow) /\ batches[b] \in BatchRow
  BY <1>1, <1>2 DEF ApproveBatch, SetStatus, IInv, BatchTypes
<1> DEFINE row == [batches[b] EXCEPT !.status = "processing"]
<1>4. batches' = [batches EXCEPT ![b] = row]
  BY <1>3
<1>5. row.status = "processing" /\ row.start = start
  BY <1>2, <1>3 DEF BatchRow
<1> HIDE DEF row
<1>6. b \in 1..Len(batches') /\ batches'[b] = row
  BY <1>2, <1>3, <1>4
<1>7. Approved(b)'
  BY <1>5, <1>6 DEF Approved
<1> QED BY <1>1, <1>3, <1>5, <1>6, <1>7 DEF Reviews, Approved

(* What an approval earned stays earned.                                   *)
LEMMA ApprovalLasts ==
    ASSUME BatchesLast, Len(batches) \in Nat, Len(batches') \in Nat,
           created' = created, NEW f, ByApproval(f)
    PROVE  ByApproval(f)'
<1>1. PICK i \in 1..Len(batches) :
         Approved(i) /\ (f \in batches[i].tallied \/ Late(f, i))
  BY DEF ByApproval
<1>2. i \in 1..Len(batches') /\ Approved(i)'
  BY <1>1 DEF BatchesLast
<1>3. (f \in batches[i].tallied \/ Late(f, i))'
  BY <1>1 DEF BatchesLast, Late
<1> QED BY <1>2, <1>3 DEF ByApproval

(* A row that is marked was tallied by the batch, or was not there yet, or *)
(* said billed already.                                                    *)
LEMMA MarkedIsEarned ==
    ASSUME IInv, KInv, PInv, NEW a \in Admins, MarkBilled(a),
           NEW f \in MarkedFrom(work[a].start)
    PROVE  Earned(f)
<1>1. PICK b : b = work[a].batch
  OBVIOUS
<1>2. /\ b \in 1..Len(batches) /\ Approved(b) /\ batches[b].start = work[a].start
  BY <1>1 DEF MarkBilled, PInv, Reviews
<1>3. /\ f \in Events /\ created[f] > 0 /\ created[f] >= batches[b].start
  BY <1>2 DEF MarkedFrom, Recorded
<1>4. KnownKept(batches[b].start, batches[b].end, batches[b].tallied, batches[b].known)
  BY <1>2 DEF KInv
<1>5. CASE f \in batches[b].known
  <2>1. f \in batches[b].tallied \/ f \in billed
    BY <1>3, <1>4, <1>5 DEF KnownKept
  <2> QED BY <1>2, <2>1 DEF PInv, Earned, ByApproval
<1>6. CASE f \notin batches[b].known
  <2>1. created[f] >= batches[b].end
    BY <1>3, <1>4, <1>6 DEF KnownKept
  <2> QED BY <1>2, <1>6, <2>1 DEF Earned, ByApproval, Late
<1> QED BY <1>5, <1>6

LEMMA SettleEarns ==
    ASSUME IInv, TInv, KInv, PInv, NEW a \in Admins, Settle(a) \/ AdminFails(a)
    PROVE  PInv'
<1>1. /\ UNCHANGED <<walletVars, meterVars>>
      /\ BatchesLast /\ Len(batches) \in Nat /\ Len(batches') \in Nat
  BY SettleKeeps
<1>2. WalletTypes' /\ ChargesOwed' /\ \A f : Paid(f) => Paid(f)'
  BY <1>1 DEF PInv, WalletTypes, ChargesOwed, Paid, HasRow, walletVars, meterVars
<1>3. \A f : Earned(f) => Earned(f)'
  BY <1>1, <1>2, ApprovalLasts DEF Earned, meterVars
<1>4. \A f \in deducted' : Paid(f)'
  BY <1>1, <1>2 DEF PInv, meterVars
<1>5. ASSUME NEW b \in Admins, apc'[b] = apc[b], work'[b] = work[b]
      PROVE  Reviews(apc[b], work[b])'
  <2>1. Reviews(apc[b], work[b])
    BY DEF PInv
  <2>2. ASSUME apc[b] \in {"approve", "markBilled"}
        PROVE  /\ work[b].batch \in 1..Len(batches')
               /\ batches'[work[b].batch].start = work[b].start
               /\ apc[b] = "markBilled" => Approved(work[b].batch)'
    <3>1. PICK i : i = work[b].batch
      OBVIOUS
    <3>2. /\ i \in 1..Len(batches) /\ batches[i].start = work[b].start
          /\ apc[b] = "markBilled" => Approved(i)
      BY <2>1, <2>2, <3>1 DEF Reviews
    <3>3. apc[b] = "markBilled" => Approved(i)'
      BY <1>1, <3>2 DEF BatchesLast
    <3> QED BY <1>1, <1>5, <3>1, <3>2, <3>3 DEF BatchesLast, Approved
  <2> QED BY <1>5, <2>2 DEF Reviews, Approved
<1>6. ASSUME NEW place, NEW w, At(a, place), work' = [work EXCEPT ![a] = w],
             Reviews(place, w)'
      PROVE  \A b \in Admins : Reviews(apc[b], work[b])'
  <2>1. /\ apc'[a] = place /\ work'[a] = w
        /\ \A b \in Admins : b # a => apc'[b] = apc[b] /\ work'[b] = work[b]
    BY <1>6, OneMoves
  <2>2. Reviews(apc[a], work[a])'
    BY <1>6, <2>1
  <2> QED BY <1>5, <2>1, <2>2
<1>7. ASSUME NEW place, place \notin {"approve", "markBilled"}, NEW w,
             At(a, place), work' = [work EXCEPT ![a] = w]
      PROVE  \A b \in Admins : Reviews(apc[b], work[b])'
  <2>1. Reviews(place, w)'
    BY <1>7 DEF Reviews
  <2> QED BY <1>6, <1>7, <2>1
<1>8. /\ batches \in Seq(BatchRow) /\ work \in [Admins -> WorkTypes]
  BY DEF IInv, BatchTypes
<1>9. \A b \in Admins : Reviews(apc[b], work[b])'
  <2>1. CASE Return(a)
    <3>1. PICK w : w = Idle
      OBVIOUS
    <3> QED BY <1>7, <2>1, <3>1 DEF Return
  <2>2. CASE Generate(a) \/ Tally(a) \/ InsertBatch(a)
    <3>1. \/ Return(a)
          \/ \E place \in {"tally", "insertBatch", "insertItems"} : At(a, place)
      BY <2>2 DEF Generate, Tally, InsertBatch
    <3>2. Return(a) \/ \E w : work' = [work EXCEPT ![a] = w]
      BY <2>2 DEF Generate, Tally, InsertBatch
    <3> QED BY <1>7, <2>1, <3>1, <3>2
  <2>3. CASE Approve(a)
    <3>1. PICK i \in DOMAIN batches :
             work' = [work EXCEPT ![a] = Work(i, batches[i].start, 0, 0, {}, {})]
      BY <2>3 DEF Approve, Review
    <3>2. PICK w : w = Work(i, batches[i].start, 0, 0, {}, {})
      OBVIOUS
    <3>3. i \in 1..Len(batches')
      BY <1>1, <1>8, <3>1 DEF BatchesLast
    <3>4. w.batch = i /\ w.start = batches'[i].start
      BY <1>1, <1>8, <3>1, <3>2 DEF Work, BatchesLast
    <3>5. Reviews("approve", w)'
      BY <3>3, <3>4 DEF Reviews
    <3> QED BY <1>6, <2>3, <3>1, <3>2, <3>5 DEF Approve, Review
  <2>4. CASE ApproveBatch(a)
    <3>1. PICK w : w = work[a]
      OBVIOUS
    <3>2. work' = [work EXCEPT ![a] = w] /\ work' = work /\ At(a, "markBilled")
      BY <1>8, <2>4, <3>1 DEF ApproveBatch
    <3>3. Reviews("markBilled", w)'
      BY <2>4, <3>1, <3>2, ApprovalCovers DEF Reviews, Approved
    <3> QED BY <1>6, <3>2, <3>3
  <2>5. CASE Complete(a) \/ CompleteBatch(a)
    <3>1. PICK place \in {"complete", "completeItems"} : At(a, place)
      BY <2>5 DEF Complete, Review, CompleteBatch
    <3>2. \E w : work' = [work EXCEPT ![a] = w]
      <4>1. work' = work => work' = [work EXCEPT ![a] = work[a]]
        BY <1>8
      <4> QED BY <2>5, <4>1 DEF Complete, Review, CompleteBatch
    <3> QED BY <1>7, <3>1, <3>2
  <2> QED BY <2>1, <2>2, <2>3, <2>4, <2>5
          DEF Settle, AdminFails, InsertItems, MarkBilled, CompleteItems
<1>10. \A f \in billed' : Earned(f)'
  <2>1. \A f \in billed : Earned(f)'
    BY <1>3 DEF PInv
  <2>2. CASE billed' = billed
    BY <2>1, <2>2
  <2>3. CASE MarkBilled(a)
    <3>1. billed' = billed \cup MarkedFrom(work[a].start)
      BY <2>3 DEF MarkBilled
    <3>2. \A f \in MarkedFrom(work[a].start) : Earned(f)'
      BY <1>3, <2>3, MarkedIsEarned
    <3> QED BY <2>1, <3>1, <3>2
  <2> QED BY <2>2, <2>3
          DEF Settle, AdminFails, Generate, Tally, InsertBatch, InsertItems, Approve,
              Complete, Review, ApproveBatch, CompleteBatch, CompleteItems
<1> QED BY <1>2, <1>4, <1>9, <1>10 DEF PInv

LEMMA RestEarns ==
    ASSUME IInv, TInv, PInv, Crash \/ Midnight \/ UNCHANGED vars
    PROVE  PInv'
<1>1. UNCHANGED <<walletVars, event, deducted, created, billed, batches>>
  BY DEF Crash, Midnight, vars, meterVars, settleVars
<1>2. WalletTypes' /\ (\A f : Paid(f) => Paid(f)') /\ (\A f : Earned(f) => Earned(f)')
  BY <1>1 DEF PInv, WalletTypes, Earned, Paid, HasRow, ByApproval, Late, Approved,
              walletVars
<1>3. ChargesOwed' /\ \A a \in Admins : Reviews(apc[a], work[a])'
  <2>1. CASE Crash
    <3>1. \A e \in Events : stage'[e] # "charge"
      BY <2>1 DEF Crash, InFlight, IInv, MeterTypes
    <3>2. \A a \in Admins : apc'[a] = "idle"
      BY <2>1 DEF Crash
    <3> QED BY <3>1, <3>2 DEF ChargesOwed, Reviews
  <2>2. CASE Midnight \/ UNCHANGED vars
    BY <2>2 DEF Midnight, vars, meterVars, settleVars, PInv, ChargesOwed, Reviews,
                Approved
  <2> QED BY <2>1, <2>2
<1> QED BY <1>1, <1>2, <1>3 DEF PInv

LEMMA EarnedStep == IInv /\ TInv /\ KInv /\ PInv /\ [Next]_vars => TInv' /\ PInv'
  BY MeterBounds, SettleBounds, RestBounds, MeterEarns, SettleEarns, RestEarns DEF Next

(* A usage row says billed only when both ledger rows of its charge are    *)
(* there (usage-metering.ts:144), or a batch that was approved had tallied *)
(* it, or it had come after the tally of one, on the last day of the       *)
(* period or later (routes.ts:13409-13414): a row that was there in time   *)
(* is billed by no approval but that of a batch that tallied it, though    *)
(* charge, row, tally and approval are statements of different requests.   *)
THEOREM BillingIsEarned == Spec => []BilledWasEarned
<1>1. IInv /\ PInv => BilledWasEarned
  <2>1. IInv => DOMAIN batches = 1..Len(batches)
    BY DEF IInv, BatchTypes
  <2> QED BY <2>1 DEF PInv, Earned, ByApproval, BilledWasEarned
<1> QED BY <1>1, BillingInit, BillingStep, BoundsInit, KnownInit, KnownStep,
           EarnedInit, EarnedStep, PTL DEF Spec
=============================================================================
