---------------------------- MODULE UsageBilling ----------------------------
(***************************************************************************)
(* server/usage-metering.ts and the payout batches of server/routes.ts.    *)
(* A billable event is metered in the background of the request that       *)
(* caused it: its price is deducted from the organization's wallet, then a *)
(* usage_metering row records it as billed or not.  Super administrators   *)
(* gather unbilled rows in payout batches, approve them and complete them. *)
(* No statement shares a transaction with the next: others run in between, *)
(* any of them may fail, and the process may die.                          *)
(*                                                                         *)
(* The wallets are those of AtomicLedger, which WalletEngine implements;   *)
(* they come open and funded, and what else moves or opens them shows here *)
(* only as a refusal.                                                      *)
(* Time is a day number: the code compares the createdAt of rows only with *)
(* midnights.                                                              *)
(***************************************************************************)
EXTENDS Integers, Sequences, FiniteSets

CONSTANTS
    Events,        \* billable events
    Orgs, NoOrg,   \* organizations, and the event that names none
    PlatformIds,   \* platform wallets
    Admins,        \* super administrators
    Amounts,       \* prices of an event, in cents
    MaxInt,        \* largest value of an int4 column
    MonthStarts,   \* days that are the first of a month
    LastDay,       \* bound on the days that pass
    MaxBatches     \* bound on the payout batches

ASSUME BillingNames ==
    /\ NoOrg \notin Orgs
    /\ Orgs \cap PlatformIds = {}

ASSUME BillingNumbers ==
    /\ LastDay \in Nat \ {0}
    /\ MaxBatches \in Nat
    /\ MaxInt \in Nat
    /\ Amounts \subseteq 1..MaxInt
    /\ 1 \in MonthStarts /\ MonthStarts \subseteq 1..LastDay

VARIABLES
    open, balance, ledger,  \* the wallets
    day,                    \* today
    stage,                  \* where the metering of each event is
    event,                  \* what each event costs whom
    deducted,               \* events whose caller saw processTransactionFee succeed
    created,                \* day of each usage_metering row, 0 without a row
    billed,                 \* events whose row says billed
    batches,                \* payout_batches, oldest first
    apc,                    \* where each administrator's request is
    work                    \* what that request has read so far

walletVars == <<open, balance, ledger>>
meterVars == <<stage, event, deducted, created>>
settleVars == <<batches, apc, work>>
vars == <<walletVars, day, meterVars, billed, settleVars>>

Wallet == INSTANCE AtomicLedger WITH Refs <- Events

Prices == {e \in [org : Orgs \cup {NoOrg}, total : Amounts \cup {0},
                  fee : Amounts \cup {0}] :
              /\ e.fee <= e.total
              /\ e.org = NoOrg => e.fee = 0}

Recorded == {e \in Events : created[e] > 0}
Unbilled == Recorded \ billed

(* known is history: the rows that were there when the batch was tallied.  *)
Work(batch, start, end, saw, tallied, known) ==
    [batch |-> batch, start |-> start, end |-> end, saw |-> saw,
     tallied |-> tallied, known |-> known]
Idle == Work(0, 0, 0, 0, {}, {})

Init ==
    /\ Wallet!LedgerInit
    /\ day = 1
    /\ stage = [e \in Events |-> "before"]
    /\ event \in [Events -> Prices]
    /\ deducted = {}
    /\ created = [e \in Events |-> 0]
    /\ billed = {}
    /\ batches = <<>>
    /\ apc = [a \in Admins |-> "idle"]
    /\ work = [a \in Admins |-> Idle]

-----------------------------------------------------------------------------
(* recordUsageEvent                                                        *)

(* The price and the split are read from tiers and from the fee percentage *)
(* of the organization.  Only a named organization that owes something is  *)
(* charged.                                                                *)
Price(e) ==
    /\ stage[e] = "before"
    /\ stage' = [stage EXCEPT ![e] =
          IF event[e].org # NoOrg /\ event[e].total > 0 THEN "charge" ELSE "insert"]
    /\ UNCHANGED <<walletVars, day, event, deducted, created, billed, settleVars>>

(* The fee is charged.  A lost answer to COMMIT is caught like a refusal.  *)
ChargePaid(e) ==
    /\ stage[e] = "charge"
    /\ \E p \in PlatformIds :
          Wallet!Charge(event[e].org, p, event[e].total, event[e].fee, e)
    /\ deducted' \in {deducted, deducted \cup {e}}
    /\ stage' = [stage EXCEPT ![e] = "insert"]
    /\ UNCHANGED <<day, event, created, billed, settleVars>>

(* Insufficient funds, a missing wallet or a failure: the event goes on as *)
(* unbilled.                                                               *)
ChargeRefused(e) ==
    /\ stage[e] = "charge"
    /\ stage' = [stage EXCEPT ![e] = "insert"]
    /\ UNCHANGED <<walletVars, day, event, deducted, created, billed, settleVars>>

BilledIfDeducted(e) == IF e \in deducted THEN billed \cup {e} ELSE billed

InsertUsage(e) ==
    /\ stage[e] = "insert"
    /\ created' = [created EXCEPT ![e] = day]
    /\ billed' = BilledIfDeducted(e)
    /\ stage' = [stage EXCEPT ![e] = "done"]
    /\ UNCHANGED <<walletVars, day, event, deducted, settleVars>>

(* A statement outside the charge fails: the error is logged, the event is *)
(* not recorded.                                                           *)
MeterFails(e) ==
    /\ stage[e] \in {"before", "insert"}
    /\ stage' = [stage EXCEPT ![e] = "lost"]
    /\ UNCHANGED <<walletVars, day, event, deducted, created, billed, settleVars>>

-----------------------------------------------------------------------------
(* POST /api/platform/payout-batches/generate                              *)

(* The first of this month, and the batches of the latest period.          *)
ThisMonth == {m \in MonthStarts :
                m <= day /\ \A n \in MonthStarts : n <= day => n <= m}
Latest == {i \in DOMAIN batches :
             \A k \in DOMAIN batches : batches[k].end <= batches[i].end}

StartsOnLastDay ==
    IF batches = <<>> THEN ThisMonth ELSE {batches[i].end : i \in Latest}

PeriodStart ==
    IF batches = <<>> THEN ThisMonth ELSE {batches[i].end + 1 : i \in Latest}

At(a, place) == apc' = [apc EXCEPT ![a] = place]
Return(a) == At(a, "idle") /\ work' = [work EXCEPT ![a] = Idle]
Unsettled == UNCHANGED <<walletVars, day, meterVars>>

(* The last batch is read; the new period runs to the end of today.        *)
Generate(a) ==
    /\ apc[a] = "idle"
    /\ At(a, "tally")
    /\ \E start \in PeriodStart :
          work' = [work EXCEPT ![a] = Work(0, start, day, Len(batches), {}, {})]
    /\ Unsettled /\ UNCHANGED <<billed, batches>>

TallyEverything(start) == {e \in Recorded : created[e] >= start}

TallyFrom(start) == {e \in Unbilled : created[e] >= start}

(* Sums of the unbilled rows since the period began; none is an error.     *)
Tally(a) ==
    /\ apc[a] = "tally"
    /\ \/ /\ TallyFrom(work[a].start) = {}
          /\ Return(a)
       \/ /\ TallyFrom(work[a].start) # {}
          /\ work' = [work EXCEPT ![a] =
                Work(0, @.start, @.end, @.saw, TallyFrom(@.start), Recorded)]
          /\ At(a, "insertBatch")
    /\ Unsettled /\ UNCHANGED <<billed, batches>>

InsertBatch(a) ==
    /\ apc[a] = "insertBatch"
    /\ Len(batches) < MaxBatches
    /\ batches' = Append(batches,
          [start |-> work[a].start, end |-> work[a].end,
           saw |-> work[a].saw, tallied |-> work[a].tallied,
           known |-> work[a].known, status |-> "pending", items |-> "none"])
    /\ work' = [work EXCEPT ![a] = Work(Len(batches) + 1, 0, 0, 0, {}, {})]
    /\ At(a, "insertItems")
    /\ Unsettled /\ UNCHANGED billed

(* A line for each organization, skipping events that name none, and one   *)
(* for the platform, in one INSERT.                                        *)
InsertItems(a) ==
    /\ apc[a] = "insertItems"
    /\ batches' = [batches EXCEPT ![work[a].batch].items = "pending"]
    /\ Return(a)
    /\ Unsettled /\ UNCHANGED billed

-----------------------------------------------------------------------------
(* POST .../:id/approve and POST .../:id/complete                          *)

(* Both read the status and refuse the wrong one before they write.        *)
Review(a, status, place) ==
    /\ apc[a] = "idle"
    /\ \E i \in DOMAIN batches :
          /\ batches[i].status = status
          /\ work' = [work EXCEPT ![a] = Work(i, batches[i].start, 0, 0, {}, {})]
    /\ At(a, place)
    /\ Unsettled /\ UNCHANGED <<billed, batches>>

Approve(a) == Review(a, "pending", "approve")
Complete(a) == Review(a, "processing", "complete")

SetStatus(a, status) ==
    batches' = [batches EXCEPT ![work[a].batch].status = status]

ApprovesByName(a) ==
    /\ apc[a] = "approve"
    /\ SetStatus(a, "approved")
    /\ At(a, "markBilled")
    /\ Unsettled /\ UNCHANGED <<billed, work>>

ApproveBatch(a) ==
    /\ apc[a] = "approve"
    /\ SetStatus(a, "processing")
    /\ At(a, "markBilled")
    /\ Unsettled /\ UNCHANGED <<billed, work>>

MarksEverything(start) == Recorded

MarkedFrom(start) == {e \in Recorded : created[e] >= start}

(* Every unbilled row since the period began is marked, tallied or not.    *)
MarkBilled(a) ==
    /\ apc[a] = "markBilled"
    /\ billed' = billed \cup MarkedFrom(work[a].start)
    /\ Return(a)
    /\ Unsettled /\ UNCHANGED batches

CompleteBatch(a) ==
    /\ apc[a] = "complete"
    /\ SetStatus(a, "completed")
    /\ At(a, "completeItems")
    /\ Unsettled /\ UNCHANGED <<billed, work>>

CompleteItems(a) ==
    /\ apc[a] = "completeItems"
    /\ batches' = [batches EXCEPT ![work[a].batch].items =
          IF @ = "none" THEN @ ELSE "completed"]
    /\ Return(a)
    /\ Unsettled /\ UNCHANGED billed

(* A statement fails: 500, and what was already written stays.             *)
AdminFails(a) ==
    /\ apc[a] # "idle"
    /\ Return(a)
    /\ Unsettled /\ UNCHANGED <<billed, batches>>

-----------------------------------------------------------------------------
InFlight == {"charge", "insert"}

(* The process dies with every request it was serving.                     *)
Crash ==
    /\ stage' = [e \in Events |-> IF stage[e] \in InFlight THEN "lost" ELSE stage[e]]
    /\ apc' = [a \in Admins |-> "idle"]
    /\ work' = [a \in Admins |-> Idle]
    /\ UNCHANGED <<walletVars, day, event, deducted, created, billed, batches>>

Midnight ==
    /\ day < LastDay
    /\ day' = day + 1
    /\ UNCHANGED <<walletVars, meterVars, billed, settleVars>>

Meter(e) == Price(e) \/ ChargePaid(e) \/ ChargeRefused(e) \/ InsertUsage(e)

Settle(a) ==
    \/ Generate(a) \/ Tally(a) \/ InsertBatch(a) \/ InsertItems(a)
    \/ Approve(a) \/ ApproveBatch(a) \/ MarkBilled(a)
    \/ Complete(a) \/ CompleteBatch(a) \/ CompleteItems(a)

Next ==
    \/ \E e \in Events : Meter(e) \/ MeterFails(e)
    \/ \E a \in Admins : Settle(a) \/ AdminFails(a)
    \/ Crash \/ Midnight

Spec == Init /\ [][Next]_vars
-----------------------------------------------------------------------------
Statuses == {"pending", "processing", "completed"}
Batches == [start : 1..LastDay + 1, end : 1..LastDay, saw : 0..MaxBatches,
            tallied : SUBSET Events, known : SUBSET Events, status : Statuses,
            items : {"none", "pending", "completed"}]
AdminPlaces == {"idle", "tally", "insertBatch", "insertItems", "approve",
                "markBilled", "complete", "completeItems"}

(* Only recorded usage is marked billed; rows, batches and what a request  *)
(* holds have their shapes.                                                *)
TypeOK ==
    /\ day \in 1..LastDay
    /\ stage \in [Events -> {"before", "charge", "insert", "done", "lost"}]
    /\ event \in [Events -> Prices]
    /\ deducted \subseteq Events
    /\ created \in [Events -> 0..LastDay]
    /\ billed \subseteq Recorded
    /\ batches \in Seq(Batches)
    /\ Len(batches) <= MaxBatches
    /\ apc \in [Admins -> AdminPlaces]
    /\ work \in [Admins -> [batch : 0..MaxBatches, start : 0..LastDay + 1,
                            end : 0..LastDay, saw : 0..MaxBatches,
                            tallied : SUBSET Events, known : SUBSET Events]]

(* The wallet rows of an event.                                            *)
HasRow(w, kind, amount, e) ==
    \E i \in DOMAIN ledger[w] :
        /\ ledger[w][i].kind = kind
        /\ ledger[w][i].amount = amount
        /\ ledger[w][i].ref = e

Paid(e) ==
    /\ event[e].org \in Orgs
    /\ HasRow(event[e].org, "transaction_fee", -event[e].total, e)
    /\ \E p \in PlatformIds : HasRow(p, "platform_fee", event[e].fee, e)

Approved(i) == batches[i].status # "pending"

(* A row that came after a batch was tallied: on the last day of its       *)
(* period or later.                                                        *)
Late(e, i) == e \notin batches[i].known /\ created[e] >= batches[i].end

(* A row says billed only when the wallets were charged for the event, the *)
(* platform's share included, or when it was tallied by a batch that was   *)
(* approved, or when it came too late for the tally of such a batch and    *)
(* was marked all the same, which routes.ts:13409-13414 leaves open.  A    *)
(* row that was there in time is billed by no approval but its own: not    *)
(* by one of a later period, whatever became of its own batch.             *)
BilledWasEarned ==
    \A e \in billed :
        \/ Paid(e)
        \/ \E i \in DOMAIN batches :
              Approved(i) /\ (e \in batches[i].tallied \/ Late(e, i))

(* An event whose deduction was confirmed never enters a payout batch, so  *)
(* its bureau is not paid for it a second time.                            *)
DeductedIsNotTallied ==
    \A i \in DOMAIN batches : batches[i].tallied \cap deducted = {}

(* A batch generated when another was already there tallies none of the    *)
(* usage of that one's period again, though approval may come much later   *)
(* or never: only the periods keep them apart.  Batches generated at the   *)
(* same time are not kept apart.                                           *)
LaterBatchesTallyLaterUsage ==
    \A i, j \in DOMAIN batches :
        i <= batches[j].saw =>
            \A e \in batches[i].tallied \cap batches[j].tallied :
                created[e] > batches[i].end
=============================================================================
