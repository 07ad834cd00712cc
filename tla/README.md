# Universal Credit Hub: TLA+ models and proofs

This directory models the parts of the Universal Credit Hub in which several
requests, timers or background jobs touch the same rows: prepaid wallets, usage
billing and payout batches, the hash-chained audit log and its anchors, the bulk
job queue, webhook delivery, cases of non-performing loans, maker-checker approvals
and the reminders of the fiscal lottery. TLC checks the models on small instances; TLAPS
proves the results listed below for every value of the constants.

Run, in this directory:

    tlasany M.tla                              # parse
    tlc -workers 2 -config X.cfg M.tla         # one run of the table below
    tlapm WalletEngineProofs.tla               # the proofs of one module

## 1. The system

One Node.js process (`server/index.ts`, started by `deploy/hetzner/*.service`)
serves an Express API over one PostgreSQL database through one connection pool
(`server/db.ts:9-20`: 20 or 30 connections, ten seconds to get one, thirty for a
statement). Nothing runs in parallel in the process; everything interleaves at its
`await`s. Timers (`setInterval`) start retention, backups, anchoring, retries and
draws. The process can die at any `await`, and systemd starts it again.

So the hard behaviour is of one kind: what was read before an `await` is old after
it. PostgreSQL's own guarantees are used in few places (`SELECT ... FOR UPDATE` in
the wallets and the NPL cases, one transaction for each chunk of a bulk job, a handful
of unique columns, foreign keys). Elsewhere each statement is a transaction of its own.

### Components

| component | state | operations | what makes it correct | status |
|---|---|---|---|---|
| wallet engine (`wallet-engine.ts`, `routes/wallet.ts`) | `wallets`, `wallet_transactions`; per request: locks, connections, balances read | top up, withdraw, charge a fee, open bureau or platform wallet | ledgers explain balances, no overdraft, fees whole, every request answered | modelled |
| usage metering and settlement (`usage-metering.ts`, `routes.ts` 13304-13437) | `usage_metering`, `payout_batches`, `payout_items` | record an event; generate, approve, complete a batch | what is billed was charged or came to an approved batch, nothing is paid out twice | partly |
| audit chain (`storage.ts` 1388-1506) | `audit_logs` | append, insert unhashed, verify, repair | an undisturbed log verifies, a repair mends | partly |
| audit anchoring (`blockchain-anchor.ts`) | `blockchain_anchors` | create and verify an anchor | every row is anchored, untouched rows verify | modelled |
| retention (`retention-enforcement.ts`) | every table with a policy | archive or delete expired rows | audit rows only, inside the audit chain | partly |
| batch queue (`batch-queue.ts`) | `activeJobs`, `pendingQueue` in memory; `batch_jobs` | enqueue, take and release a slot, run chunks | slots are accounted for, reports tell the truth, jobs end | modelled |
| webhook delivery (`webhook-delivery.ts`) | `webhook_subscriptions`, `webhook_delivery_logs` | deliver, retry, disable | one chain of attempts, disabling rests on failures | modelled |
| NPL cases (`routes/npl-case-ledger.ts`, `routes/npl-decision-governance.ts`, `npl-case-ledger.ts`, `npl-decision-governance.ts`) | `npl_cases`, `npl_case_events`, `npl_decision_proposals`; per request: locks, rows read | open a case, post an event; submit, review, execute a proposal; waterfall | events explain the exposure, periods reconcile, hands are separate, reviews final, no deadlock | modelled |
| maker-checker approvals (`routes.ts` 4028-4157 and the routes that stage, `export-service.ts`) | `pending_approvals`, the rows a payload changes | submit, review, apply; erase a borrower | applied once, by someone else; a completed erasure is complete | partly |
| Loto scheduler (`services/loto-draw-scheduler.ts`) | `loto_draws`, a busy flag | schedule the next draw, try to run due ones | one unresolved draw for each country | partly |
| Loto notifications (`services/loto-notifications.ts`) | `loto_outbound_messages` | enqueue reminders, send, retry | a reminder arrives once, attempts end | partly |
| Loto draws and payouts (`services/loto-draw-engine.ts`, `loto-payout-adapter.ts`) | draws, winners, payouts | run, verify, pay | run once, paid once, verifiable | not modelled |

They interact through calls and shared tables. A billable request calls
`recordUsageEvent` in the background, which calls `processTransactionFee` of the
wallet engine and notes whether it was paid; settlement reads the same usage rows.
Repairs and most other operations append to the audit log; anchoring reads it;
retention removes its oldest rows. The queue's bulk jobs and the webhooks use the
same pool and share nothing else. Approvals, uploads, payments and the external API
write the same borrowers and accounts; an NPL case reads the account it is opened for
once and then keeps its own exposure. The Loto tick schedules, runs, reminds and sends
in that order, beside the routes of its administrators.

`PROJECT.json` lists every other part of the repository with the reason it is not
modelled. In short: calculation over floating point (scores, provisioning), pure
input and output (mail, PDF, exports, external registries), external protocols
(SAML, OAuth, WebAuthn), routes that are one statement each, and the web client.

## 2. Modules

| module | models | on top of |
|---|---|---|
| `AtomicLedger` | what the wallets promise: each movement of money is one step | |
| `WalletEngine` | the transactions of `wallet-engine.ts` with locks, pool, failures, crashes | `AtomicLedger` (refines it) |
| `UsageBilling` | metering and payout batches | `AtomicLedger` (instantiates it) |
| `AuditChain` | the audit log, repair, retention | |
| `AuditAnchor` | anchors over that log | `AuditChain` (extends it) |
| `BatchQueue` | slots, jobs, chunks, progress | |
| `WebhookDelivery` | attempts, retries, sweeps | |
| `ExposureLedger` | what an NPL case promises: one observation is one step, dates never go back | |
| `NplCase` | cases, events and decision proposals as transactions with row locks | `ExposureLedger` (refines it) |
| `NplWaterfall` | the exposure waterfall between two dates, over all cases | `NplCase` (extends it) |
| `Approvals` | staged changes, their review and application, erasure, and the writers beside them | |
| `LotoScheduler` | the tick: draws, reminders, the outbound queue, and administrators | |
| `MC...` | instances of each for TLC | its component |
| `WalletEngineProofs` | theorems about `AtomicLedger` and `WalletEngine` | `WalletEngine` |
| `NplCaseProofs` | theorems about `ExposureLedger`, `NplCase` and `NplWaterfall` | `NplWaterfall` |
| `AuditProofs` | theorems about `AuditChain` and `AuditAnchor` | `AuditAnchor` |
| `UsageBillingProofs`, `BatchQueueProofs`, `WebhookDeliveryProofs`, `ApprovalsProofs`, `LotoSchedulerProofs` | theorems | its component |

An action is what happens between two `await`s, up to and including the statement
awaited. `PROJECT.json` maps every definition to the lines it stands for.

**WalletEngine.** `open`, `balance` and `ledger` are the committed tables; `held`,
`conns`, `pc` and `seen` are the row locks, connections, position and local
variables of each request. `Connect`, `LockOrg`, `LockPlatform` and `LockWallet`
are `pool.connect()` and the `SELECT ... FOR UPDATE`s; `CommitFee` and `CommitMove`
stand for the checks, the writes and COMMIT, since what a transaction writes is seen
by others only when it commits. The answer to COMMIT may be lost, which the `catch`
takes for a failure. `MissingOrg` and `MissingPlatform` go for a second connection
while the first is held, as the code does. A platform wallet has no unique key, so it
is named by the request that inserted it. `Opened` commits a new wallet, after which the
caller may still be told of a failure: the answer to COMMIT is lost, or the outer ROLLBACK
fails. `FindLockedPlatform` and `AwaitPlatform` wait for the one platform row that
`LIMIT 1 FOR UPDATE` came upon, even if another is free.

**UsageBilling.** `stage` is where `recordUsageEvent` is for each event; `deducted`
holds the events whose fee was confirmed, `created` and `billed` the usage rows. An
administrator's request (`apc`, `work`) takes the steps of the three routes one
statement at a time, and any of them may fail with the earlier ones standing. Time is
a day, since the code compares creation times with midnights only. `tallied` and `known`
of a batch are history: the rows it tallied, and all rows there were then. A deduction
uses `Wallet!Charge`, the abstract operation that `WalletEngine` is proved to
implement; what else happens to the wallets shows here only as a refusal.

**AuditChain.** `log` is the table in the order verification reads it: by time, then by a
random id, so that rows of one millisecond stand in any order. An append is `Read` (latest
hash), `Stamp` (time) and `Insert`. `InsertUnhashed` is the INSERTs of
`backup-service.ts`, `cross-product-gateway.ts`, `index.ts` and `security-hardening.ts`
that give no hash. `RepairRead` and `RepairRow` are `repairAuditChain`, one UPDATE at a
time; `Expunge` and `ArchiveOne` are retention. `AlterRow` is a row changed outside the
program ("system updates that enriched log data", `storage.ts:1480`): its hash no longer
stands for its content, or is gone. A hash is the list of what was hashed. `quiet` is a
history variable for the properties: no append or repair overlapped another and no row was
removed or altered, since the start or since a repair last began. `arrived` is another:
the ids and times of all rows in the order in which they were inserted. `Kept(s, places)`
takes the elements of a sequence at some of its places, which is a selection that can be
reasoned about without recursion.

**AuditAnchor.** `FindLast`, `FindRef`, `Gather` and `InsertAnchor` are the four
statements of `createAnchor`. A Merkle root stands for the list of its leaves. Rows of
one millisecond come in any order (`ByTime`), as `ORDER BY created_at` leaves it open.
A row is `Late` when one of a later time was inserted before it. `NoTimelyRowIsSkipped`
compares times in `arrived`, not in `log`: the row an anchor ends with may have been
archived since, and with it the evidence that another came late. A property that looks in
the log only is false for that reason, beyond the bounds of the run; the theorem covers
the case.

**BatchQueue.** `active` and `waiting` are `activeJobs` and `pendingQueue`. A chunk is
the number of its records that pass and that fail validation. `Finish` writes the
counts once more for a create and not for an update, as the code does; `StatementFails`
and `FailJob` are the outer `catch` and its own failure; `ReleaseSlot` is `finally`.
`committed` counts records whose chunk was committed, which the code cannot see.
`TypeOK` bounds the counts of each job by that job's own records.

**WebhookDelivery.** A worker is a call of `deliverWebhook` or a run of
`processRetries`. An attempt carries the failure count it read (`count`), and `Count`
writes it back plus one. `Take` clears `nextRetryAt` before the attempt, `Log` sets the
next one; `NextRetry` drops a retry beyond `MAX_RETRIES`, which never comes up (section 4).
`overlap` is a history variable: one sweep began while another was under way.

**NplCase.** `cases`, `events` and `proposals` are the tables; `txn` and `held` are what
each request has read and locked. `ReadAccount` is the SELECT before BEGIN of
`POST /api/npl-cases`, `InsertCase` its transaction, which the unique index on the
account decides. `BeginOnCase` and `BeginOnProposal` are BEGIN of the others;
`LockProposal` and `LockCase` their `FOR UPDATE`s, in the order the routes take them, with
the checks in between; `CommitEvent`, `CommitSubmit`, `CommitReview` and `CommitExecution`
the writes and COMMIT. `reviewed_at` is PostgreSQL's `now()`, the time of BEGIN, while
events are dated when they are written, so a review may straddle midnight. `Rollback` is
every `catch`, refusal, lost connection or timeout. The audit entry after COMMIT belongs to
`AuditChain`.

**NplWaterfall.** `Opening`, `Observed` and `Closing` are the queries of the summary route
(`Dated` their condition on the date, `OwedAtEnd` the `DISTINCT ON (case_id)` that takes
the highest sequence), `Movements` and `calculatedClosing` the sums of
`calculateNplExposureWaterfall`; the route's own reconciliation difference is what
`WaterfallReconciles` says is zero.

**Approvals.** The tables of one borrower: its row, its accounts by their unique key,
the payments and guarantors that refer to them. `SubmitBorrower`, `SubmitAccount`,
`RequestErasure` and `StageUpload` stage a row of `pending_approvals`; `SubmitPayload`
(`POST /api/pending-approvals`) stages one of any kind that the client made up, with none
of their look-ups. A checker's request
takes `ReadApproval`, `Decide`, and then the statements of the payload one by one
(`ApplyBorrower`, `ApplyAccount`, or `ReadAccounts` to `ChronicleErasure` for
`cascadeDeleteBorrower`), any of which may fail with the earlier ones standing
(`ApplyFails`). `UploadRow`, `ExternalAccount` and `RecordPayment` write the same tables
without approval. `writes` and `overlapped` are history variables.

**LotoScheduler.** `draws` tells how far off each draw is, `messages` the reminder row of
each draw and player, `tick` where the tick is. Phase 1 is `StartTick` and
`EnsureNextDraw`; phase 2 changes nothing, since `runDraw` refuses every draw the code
schedules (section 4); phase 3 is `ListDraws` to `RecordOutcome` and `Excuse`, the `catch`
that puts a row back. `delivered` counts what reached a player, which the code cannot see,
and `unsure` marks the rows whose answer was lost or whose retry an administrator asked for.

## 3. Runs

| run | configuration | checks | result |
|---|---|---|---|
| `wallet_engine` | `MCWalletEngine`, `WalletEngine.cfg` | `TypeOK`, `LedgerAgrees`, `NeverOverdrawn`, `FeesAreWhole`, `ActsAtomically`, `EveryRequestAnswered` | hold |
| `usage_billing` | `MCUsageBilling`, `UsageBilling.cfg` | `TypeOK`, `BilledWasEarned`, `DeductedIsNotTallied`, `LaterBatchesTallyLaterUsage` | hold |
| `audit_chain` | `MCAuditChain`, `AuditChain.cfg` | `ChainTypeOK`, `QuietLogVerifies`, `RepairMends` | hold |
| `audit_anchor` | `MCAuditAnchor`, `AuditAnchor.cfg` | `TypeOK`, `NoTimelyRowIsSkipped` | hold |
| `batch_queue` | `MCBatchQueue`, `BatchQueue.cfg` | `TypeOK`, `SlotsAreAccounted`, `ClaimsAreCommitted`, `CompletedCreatesAddUp`, `ReportsOnlyGrow`, `AcceptedJobsEnd` | hold |
| `webhook_delivery` | `MCWebhookDelivery`, `WebhookDelivery.cfg` | `TypeOK`, `RetriesFollowFailures`, `OneChainOfAttempts`, `FailuresAreReal` | hold |
| `npl_case` | `MCNplCase`, `NplCase.cfg` | `TypeOK`, `WaterfallReconciles`, `ResolvedWhenPaid`, `DecisionsAreChronicled`, `HandsAreSeparate`, `ProposalsWereCovered`, `SomeoneProceeds`, `ImplementsLedger`, `ReviewsAreFinal` | hold |
| `approvals` | `MCApprovals`, `Approvals.cfg` | `TypeOK`, `ErasureIsComplete`, `ReviewedOnce` | hold |
| `loto_reminders` | `MCLotoScheduler`, `LotoScheduler.cfg` | `TypeOK`, `RemindedOnce`, `MessagesSettle` | hold |
| `audit_intact` | `MCAuditChain`, `AuditIntact.cfg` | `IntactLogVerifies` | violated |
| `anchor_verify` | `MCAuditAnchor`, `AnchorVerify.cfg` | `UntouchedAnchorsVerify` | violated |
| `erasure_live_accounts` | `MCApprovals`, `ErasureLiveAccounts.cfg` | `LiveAccountsAreNotErased` | violated |

Every property that holds is broken by at least one plausible mistake in the code
(`mutants` in `PROJECT.json`): a forgotten lock, a missing check, an off-by-one in a
period, a slot that is not handed over, a retry that is not cleared, a refusal that keeps
its locks, a backdated event, a cascade that goes on after a refusal.

### Bounds

* **Wallets**: three requests, two connections, two organizations, amounts 1 and 2,
  columns up to 3. Two requests suffice for a lost update; the third lets one hold a
  connection while two others wait, and fees of two organizations compete for the
  platform's row while a third request creates it. With two connections two fees can
  hold the pool while each waits for its second. Every multiset of three jobs out of
  nine is checked; requests are interchangeable, so the order of drawing is left out.
* **Billing**: two events (one that an organization's wallet can pay, one that names
  no organization), two administrators, two days, two batches. The second batch is
  enough to relate two periods, the second administrator to overlap two routes.
* **Audit chain**: one append, two repairs (each of which appends a row when it is
  through), one unhashed row, one row that may be altered by hand, four milliseconds, rows
  expire after one. A repair over a repair that stopped half-way, with a row removed or
  altered, fits. `audit_intact` has three appends, and nothing else: no row is altered,
  removed or inserted unhashed.
* **Anchors**: two appends, one unhashed row, two overlapping runs, two anchors, three
  milliseconds, rows expire after one, so the row an anchor continues from can be
  gone. Repairs are left to `audit_chain`: they change hashes, which do not decide what
  is anchored.
* **Queue**: one slot for three jobs, so that two wait in order; the code has three
  slots, and the proof of `SlotsAreAccounted` covers any number. The jobs are a create
  whose last chunk has no valid record, an update of two records, and one more create.
* **Webhooks**: two events, two sweeps, one subscription, three log rows, three
  attempts, a threshold of two (the code's is ten; the count it is compared with is
  unchanged). Subscriptions share nothing, so one is enough; its two events overlap.
* **NPL cases**: one account (cases share nothing but the sum of the waterfall), two
  proposals, two users, two requests at a time, two days, four events, amounts 1 and 2.
  Four events hold an opening, a submission, a review and an execution, or a recovery
  that resolves a case and an inflow that reopens it; two requests overlap any two
  routes. The proofs cover any numbers.
* **Approvals**: two staged changes, two accounts, two HTTP requests at a time, a maker who
  is an administrator and may review as well, and another checker. A batch of two
  accounts can fail half-way; an erasure overlaps a review, an upload or the other
  writers. Account statuses are one in `approvals`, where only their absence decides, and
  two in `erasure_live_accounts`.
* **Loto**: one draw, two players, three attempts (the code's limit is 5, compared the
  same way), two faults, which may fall at any two points. Draws share nothing but the
  tick. A draw starts far off, in its window or due, so that reminders may be early, in
  time or never.

Systems that come to a stop when their requests are through or their bounds are
reached say so in their configuration (`CHECK_DEADLOCK FALSE`). The wallet run keeps
TLC's deadlock check: its only allowed rest is `Finished`, when all are answered.

### Fairness

Liveness is checked in three runs. In the first two it rests on weak fairness of each
request or job and of nothing else. `WF_vars(Step(r))` of a wallet request: the event loop
runs every continuation whose promise is settled, the pool rejects a wait of ten seconds
(`ConnectTimeout`), and a lock is released when its holder's transaction ends. No
fairness is assumed of failures or crashes. `WF_vars(Run(j))` of a job: the same event
loop, and the pool and `statement_timeout` answer every statement. Strong fairness is
not needed, since a request that waits for a lock or a connection cannot be passed over
for ever by the finitely many others.

`LotoScheduler` assumes `WF_vars(TickStep)`, one condition for the whole tick: the interval
timer starts a tick every minute when none is running (`busy` is reset in a `finally`), and
every statement and call of a tick is answered. Which message a tick takes next is up to
the tick, so no message has fairness of its own; that each has its turn is part of what
`MessagesSettle` shows. `WF_vars(BackoffEnds(k))` says that time passes. Faults are finitely
many: with a fault in every tick nothing would be promised.

## 4. Findings

Three are runs that TLC refutes:

* **Concurrent appends break the audit chain** (`audit_intact`, `storage.ts:1389`): the log
  then looks tampered with. Repairing it is the only way out, and rewrites the evidence.
* **Most anchors do not verify** (`anchor_verify`, `blockchain-anchor.ts:142`): `&&` between
  two conditions keeps only the second.
* **Borrowers with live accounts are erased** (`erasure_live_accounts`, `routes.ts:11875`):
  the route refuses an erasure while an account is `"active"`, which is no status an
  account can have, so it refuses none.

Others the models contain, seen in their behaviours or in the code, and not asked of a run:

* Nothing makes the platform wallet's row unique, and the dashboard shows the first one as
  *the* platform wallet (`wallet-engine.ts:45`).
* Approval of a batch marks all unbilled usage since the period began, tallied or not and
  with no upper bound (`routes.ts:13409`), so what was recorded between tally and approval
  says billed and is paid out by no batch, though the client describes approval as what
  marks the events of the batch (`client/src/pages/command-center-settlements.tsx:635`).
  `BilledWasEarned` says what does hold: nothing but usage that came after the tally of an
  approved batch, on the last day of its period or later, is marked that way.
* A batch's period runs to the end of the day it is generated on, its tally to the moment
  (`routes.ts:13306-13324`). What is recorded in between is tallied by no later batch.
* The status of a batch is checked and set in separate statements (`routes.ts:13403`), so a
  second approval can send a completed batch back to processing.
* The branch that gives up a retry beyond `MAX_RETRIES` (`webhook-delivery.ts:170`) is in
  the model and never taken: the last attempt sets no `nextRetryAt` (`TypeOK`).
* A webhook's failure count is written back from before the attempt, so a subscription can
  be disabled right after a success (`webhook-delivery.ts:110`).
* Two checkers who find a request pending at once both apply it (`routes.ts:4069`), and one
  may reject what the other applies. A payload that fails or is cut off half-way leaves
  its row approved (`routes.ts:4131`), and nothing takes it up again.
* A draw's commitment is bound to an id the draw does not get
  (`services/loto-draw-scheduler.ts:52-84`), so `runDraw` refuses every scheduled draw
  (`services/loto-draw-engine.ts:151-160`), and the country never gets another: the
  scheduler waits for the unresolved one.
* The retry route promises that the next tick re-attempts a failed message
  (`routes.ts:21631`), but leaves its attempts at the limit, where the queue no longer
  lists it. The same happens when recording an outcome fails at the last attempt: the
  `catch` sets the row to pending, not to failed (`services/loto-notifications.ts:237`).
* `isoWeek` in `services/loto-notifications.ts:428` is the day of the month divided by
  seven, with no month: a merchant gets no second alert of one such "week" in a year.
* A note or a legal recovery may name the stage `resolved` for a case on which money is
  owed; only a change of stage is refused (`routes/npl-case-ledger.ts:206`). The events
  route also accepts the types `decision_...` that the decision routes write, so the
  chronology shows decisions nobody took; `DecisionsAreChronicled` is about events that
  name their proposal, and the configuration posts none of these types.
* `routes.ts:5513` answers a job's status with an unawaited promise, an empty object.

## 5. Proofs

| theorem | states | argument |
|---|---|---|
| `AtomicLedgerSound` | `[]LedgerSound` of the abstract ledger | each step appends, to the wallets it changes, the row that explains the change |
| `LocksAreKept` | `[]IInv` of `WalletEngine` | see below |
| `TransactionsAreAtomic` | `Spec => ActsAtomically`: `WalletEngine` implements `AtomicLedger` | every commit is a `Charge` or `Move` on the present balances, because of `IInv`; an insert is an `Open`; all else stutters |
| `LedgersAlwaysAgree` | `[]LedgerAgrees` | refinement and `AtomicLedgerSound` |
| `NoWalletIsOverdrawn` | `[]NeverOverdrawn` | the same |
| `TypesAreKept` | `[]TypeOK` of `WalletEngine` | `IInv`, and counting connections as pairs |
| `FeesAreCharged` | `[]FeesAreWhole` | the rows a request left behind: none before its COMMIT, its own after it, and no other request writes rows that name it |
| `BillingTyped` | `[]TypeOK` of `UsageBilling` | with bounds on the work of each administrator |
| `PeriodsAreTalliedOnce` | `[]LaterBatchesTallyLaterUsage` | a batch starts after the end of all that its request saw |
| `DeductedIsNeverTallied` | `[]DeductedIsNotTallied` | an event is deducted before it has a row, and a row of a deducted event is billed from the first |
| `BillingIsEarned` | `[]BilledWasEarned` | a row its approval marks was tallied, or was not there when the batch was tallied, and then it is no older than the period's last day |
| `ChainStaysOrdered` | `[]CInv` of `AuditChain` | inserts keep the order of times, removals and repairs keep ids and times |
| `ChainTyped` | `[]ChainTypeOK` | part of `CInv` |
| `QuietStays` | `[]QInv` of `AuditChain` | see below |
| `UndisturbedLogVerifies` | `[]QuietLogVerifies` | part of `QInv` |
| `RepairsMend` | `ChainSpec => RepairMends` | the last row of a plan completes the chain it was computed from |
| `AnchorsStaySound` | `[]AInv` of `AuditAnchor` | see below |
| `AnchorTyped`, `AnchorsSkipNone` | `[]TypeOK`, `[]NoTimelyRowIsSkipped` | parts of `AInv` |
| `NoSlotIsLost` | `[]SlotsAreAccounted` | a slot changes hands only where a job enters or leaves the running places |
| `CountsStaySound` | `[]RInv` of `BatchQueue` | see below |
| `BatchTyped`, `ClaimsHold` | `[]TypeOK`, `[]ClaimsAreCommitted` | from `RInv` |
| `CreatesAddUp` | `[]CompletedCreatesAddUp` | the counts after a chunk are the sum over the chunks up to it, by induction on the load |
| `ReportsGrow` | `Spec => ReportsOnlyGrow` | what is written is what is counted, and counts grow |
| `AttemptsStayTrue` | `[]IInv` of `WebhookDelivery` | see below |
| `WebhooksTyped`, `RetriesHaveReasons`, `EventsHaveOneChain`, `CountsAreReal` | `[]TypeOK`, `[]RetriesFollowFailures`, `[]OneChainOfAttempts`, `[]FailuresAreReal` | from `IInv` |
| `ExposureLedgerSound` | `[]ChronologySound` of the abstract exposure ledger | an observation starts from the exposure of that moment and is dated no earlier than the last |
| `RequestsKnow` | `[]IInv` of `NplCase` | see below |
| `LedgerIsImplemented` | `Spec => ImplementsLedger`: `NplCase` implements `ExposureLedger` | a commit is an observation of the present exposure, because of `IInv`; all else stutters |
| `CasesAreExplained` | `[]EventsExplainCases` | refinement and `ExposureLedgerSound` |
| `CaseTyped`, `PaidIsResolved`, `SeparateHands` | `[]TypeOK`, `[]ResolvedWhenPaid`, `[]HandsAreSeparate` | parts of `IInv` |
| `NoCircle` | `[]SomeoneProceeds` | who waits for a proposal waits for a request that has it and at most waits for a case; who waits for a case waits for one that holds it, and waits for nothing |
| `FinalReviews` | `Spec => ReviewsAreFinal` | who changes a reviewed proposal holds its lock and found it approved |
| `StoriesStayTrue` | `[]SInv` of `NplCase` | see below |
| `DecisionsTellOneStory`, `AmountsWereOwed` | `[]DecisionsAreChronicled`, `[]ProposalsWereCovered` | parts of `SInv` |
| `WaterfallAddsUp` | `[]WaterfallReconciles` | see below |
| `ApprovalsTyped` | `[]TypeOK` of `Approvals` | with what each request may count on |
| `ErasuresAreComplete` | `[]ErasureIsComplete` | the foreign keys, and that the trail is written only after the borrower's row is gone |
| `ReviewsApplyOnce` | `[]ReviewedOnce` | see below |
| `RowsCountDeliveries` | `[]IInv` of `LotoScheduler` | see below |
| `SchedulerTyped`, `RemindersArriveOnce` | `[]TypeOK`, `[]RemindedOnce` | parts of `IInv` |

`LedgerAgrees` is not inductive: from an arbitrary state in which a request has read a
stale balance, its commit breaks the ledger. The invariant `IInv` of
`WalletEngineProofs` adds what the row locks give: no two requests hold one row
(`LocksHold`), and what a request read under a lock is still the committed balance while
it holds it. With it each transaction maps to one step of `AtomicLedger`, so the
properties of the ledger need to be proved for the abstract module only.

In `UsageBillingProofs` the first invariant says of every request about to insert a batch, and
of every batch, that its period begins after the end of every batch the request saw, and
that what it tallied is no older than the period. That a row says
billed only when it was earned needs more (`PInv`): every event in `deducted` has its row
in the wallet's ledger, and a request between approval and the UPDATE has an approved
batch that begins where its UPDATE does. `KInv` relates the tally to what was known then:
a row of the period that was there was tallied or is billed already, and one that was not
is dated no earlier than the last day of the period. So what an approval newly marks was
tallied or late.

In `BatchQueueProofs` the invariant of the slots (`IInv`) says that the queue lists each
waiting job once and that the counter is the number of running jobs, all of them taken
when someone waits. The one of the reports (`RInv`) says of each job, by its place: the
counts in memory are those of the chunks it has seen, hence within the job's own records;
what was committed is no less than the successes it counts; and its row says no more than
the counts did when it was last written, since the statement that writes it may fail.
Without the place the row of an ended job could be overwritten by what it counted.

In `WebhookDeliveryProofs` the invariant rests on one fact (`Calm`): a row of the log never
changes but for its retry time, which is only ever cleared or passes. So what an attempt was
based on stays true while others append. As long as no sweep overtook another, only the
latest attempt at an event has a retry to come, and a sweep that took one has cleared it.

In `AuditProofs`, `QInv` says what a quiet log owes to the one request in flight: an
append still holds the latest hash, and carrying out the rest of a repair's plan would
make all rows with a hash a chain; with nobody in flight and no two rows of one
millisecond they are one. A row altered by hand ends the quiet (`Altered` says that it
keeps the order and the ids), and the next repair that meets no disturbance restores it:
`RepairsMend` starts from whatever log the repair read. It is not enough that the log
verifies: half-way through a repair it does not. `AInv` says of a run of `createAnchor`
that whatever is older than the row it will end with is in what it gathered, in an anchor
or late, and of each anchor that it covers the row it ends with, so that a run that
continues from it leaves out nothing.

In `NplCaseProofs` the invariant says that no row is locked twice (`LocksHold`), that a
request which holds its case still knows its exposure, its last sequence and its last date,
and that a proposal it holds is still in the state that let it proceed (`TxnOK`); that a
case is resolved exactly while nothing is owed, no event is dated after the last one
(`CaseOK`); and that a proposal names the hands it passed through (`ProposalOK`). Without
`TxnOK` a commit could write an exposure computed from an old one. The same lemma,
`Local`, says of each step that it leaves alone what others have locked. `SInv` adds what
the chronology tells of each proposal: the chapters its row implies, in order, and no event
that names it in another case.

`WaterfallAddsUp` follows from `CasesAreExplained`: dates do not go back, so the events of a
case up to a day come first in its chronology, the events of a period follow them without a
gap, and each starts where the one before it ended. The rest is about sums over finite
sets (`SumSteps` to `SumsAddUp`): the fold of the community modules takes out one member
after another, any member can be the first, and sums of what adds up member by member add
up.

In `ApprovalsProofs`, completeness of an erasure needs little: foreign keys as invariants,
and that a request about to write the trail found the borrower gone. That a payload is
written once needs a count: for a request that no two checkers found pending at once, what
was written and what its one checker has still to write never exceed the payload's items,
and nobody writes while its row is pending or rejected.

In `LotoSchedulerProofs`, a row that can tell (`unsure` is false) was delivered at most
once, and if so it says sent or its outcome is about to be recorded as sent; what waits in
the tick's outbox is still pending; and what was delivered is bounded by attempts and
faults, so that both stay bounded.

Assumptions: the named ones of each module. Names of organizations, platform wallets,
requests, accounts, proposals and users are distinct from the value that stands for none;
there is a finite number of requests, of jobs, of accounts and of workers; amounts are
positive and fit a column; pool and slots are not empty. They hold of the code's tables
and constants, and TLC evaluates them on every run.

There is a theorem for every safety and action property of the runs that hold. Induction
over sequences, sets and recursive functions (`CreatesAddUp`, the hash chain of
`Rehashed`, the sums of the waterfall) does not use the library's induction theorems, which
take an operator as a parameter and cannot be instantiated here: `NatSet` states induction
of a set of numbers (one that holds 0 and with each number the next holds all), and each
proof names its set. A function defined by recursion is, to the prover, a chosen function;
that there is one to choose is shown first (`SomeChain`, `SumExists`).

Only model-checked: liveness (`EveryRequestAnswered`, `AcceptedJobsEnd`, `MessagesSettle`),
which is beyond the prover. The three properties that do not hold are refuted by TLC.

## 6. Abstractions

* One clock serves JavaScript and PostgreSQL, does not run backwards, and has the
  resolution of the comparison the code makes (a day or a millisecond).
* Hashes are injective.
* Prices, fee percentages, records and payloads are inputs or counts.
* The wallet a bureau is charged from is open and funded from the start in
  `UsageBilling`; opening wallets is checked in `WalletEngine`.
* A crash ends every request of the process. A statement that fails may have been
  applied, its answer lost, wherever the statement is a transaction of its own; inside a
  transaction only COMMIT can be so.
* The pool of the wallets is the wallets' own: connections other requests hold show as
  `ConnectTimeout` only through a small `PoolSize`.
* `NplCase`: a request's inputs are chosen when it commits, which allows every input it
  could have had; names of evidence, notes and currencies are left out, and the check that a
  linked collection activity belongs to the account is one more refusal. A lock that is
  waited for too long ends in `Rollback`. In `NplWaterfall` the queries see one state of the
  tables; the code gives each its own snapshot.
* `Approvals`: accounts are named by their unique key, not by row id, and a borrower
  created again is another borrower (so `SubmitPayload` posts no id of its own: a posted
  CREATE that names the id of an erased borrower would insert that row again, which
  `ErasureIsComplete` does not speak of; the client in this repository posts none). What a
  route looks up before it stages a change is checked when it stages it. A payload lists
  an account once; a posted batch may list it twice, and the code then writes it twice. A
  posted payload that is no JSON, or empty, applies nothing and is left out. Disputes,
  inquiries, judgments and cheques behave as `payments` in the cascade. Alerts, consents,
  report logs and the consumer's own account (`consumer_accounts`) do not: a DELETE of
  theirs that fails is logged and passed over (`export-service.ts:626-645`), so
  `ErasureIsComplete` says nothing of them. The audit row and notification after a review
  change nothing here. `POST /api/data-management/cascade-erasure/:borrowerId`
  (`routes.ts:16244`), by which a super administrator runs the cascade of an approved
  request again, is not modelled.
* `LotoScheduler`: who holds tickets and has not opted out, whether a telephone number can
  be written to, and the provider's answer are inputs. Looking for earlier rows and
  loading the recipients is one step, since only the tick inserts reminders; reading the
  next number and inserting the draw is one step, since a unique index refuses the second of
  two. The limits of the queries (50 and 500 rows) do not bind.

## 7. Not modelled, and plan

What lies behind `runDraw`'s check of the commitment is not modelled, since no draw the code
schedules passes it: a model of winners and payouts would describe behaviour the program
does not have. USSD sessions, scores, provisioning, classification and exports compute from
what they read and leave no state between requests. Authentication, identity, registries,
mail and backups are decided by programs outside the repository. Most of the remaining
routes are one statement each. Merchant, winner and claim messages enter the outbound queue
from elsewhere and take the same way through it as reminders.

Open, in this order:

1. **Proofs**: what liveness rests on, as safety (no request of the wallets without a step
   it can take but for those that wait for a connection); the shape of `recordUsageEvent`'s
   amounts once they are modelled.
2. **Pricing**: tiers, percentages and rounding of `usage-metering.ts` as functions
   against a reference, and the amounts of batches and items in `UsageBilling`.
3. The verification cache of the audit log; webhook subscriptions that are edited,
   reactivated or deleted under way; the cascade-erasure route and merges of borrowers
   beside approvals.

Hazards with no property are listed with the reason in `PROJECT.json`, under `hazards`.
