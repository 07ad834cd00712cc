---------------------------- MODULE WalletEngine ----------------------------
(***************************************************************************)
(* server/wallet-engine.ts behind server/routes/wallet.ts: prepaid wallets *)
(* in PostgreSQL, moved by requests that each run a transaction of their   *)
(* own on a connection of a bounded pool.  SELECT ... FOR UPDATE holds the *)
(* row until the transaction ends, what a transaction wrote is seen by     *)
(* others when it commits, and any statement may fail.                     *)
(*                                                                         *)
(* A bureau wallet is named by its organization (organization_id is        *)
(* unique).  A platform wallet has no such key: it is named by the request *)
(* that inserted it, or Platform0 when it was there at boot.               *)
(***************************************************************************)
EXTENDS Integers, Sequences, FiniteSets

CONSTANTS
    Orgs,        \* organizations
    Requests,    \* requests in flight, each with one job
    Platform0,   \* the platform wallet found at boot, if any
    Amounts,     \* amounts of money a request can name, in cents
    MaxInt,      \* largest value of an int4 column (2147483647 in the code)
    PoolSize     \* connections of the pool (20 or 30 in the code)

PlatformIds == Requests \cup {Platform0}
Wallets == Orgs \cup PlatformIds

ASSUME NamesAssumption ==
    /\ Orgs \cap PlatformIds = {}
    /\ Platform0 \notin Requests

ASSUME NumbersAssumption ==
    /\ MaxInt \in Nat
    /\ PoolSize \in Nat \ {0}
    /\ Amounts \subseteq 1..MaxInt

ASSUME FiniteAssumption == IsFiniteSet(Requests)

VARIABLES
    open,      \* wallets that have a committed row
    balance,   \* their committed balance_cents
    ledger,    \* their committed wallet_transactions, oldest first
    held,      \* rows each request has locked
    conns,     \* pool connections each request holds
    pc,        \* where each request is
    job,       \* what each request asks for
    seen       \* balances each request read under its locks

vars == <<open, balance, ledger, held, conns, pc, job, seen>>

-----------------------------------------------------------------------------
(* Jobs: the arguments the routes and usage metering let through.          *)

FeeJobs == {j \in [op : {"fee"}, w : Orgs, amount : Amounts,
                   fee : Amounts \cup {0}] : j.fee <= j.amount}
MoveJobs == [op : {"topup", "withdrawal"}, w : Wallets, amount : Amounts,
             fee : {0}]
OpenJobs == [op : {"bureau"}, w : Orgs, amount : {0}, fee : {0}]
              \cup [op : {"platform"}, w : {Platform0}, amount : {0}, fee : {0}]
Jobs == FeeJobs \cup MoveJobs \cup OpenJobs

Answers == {"ok", "insufficient", "failed"}
InTransaction == {"lockOrg", "lockPlatform", "lockWallet", "decide",
                  "connectBureau", "connectPlatform",
                  "findBureau", "findPlatform", "awaitPlatform",
                  "insertBureau", "insertPlatform"}
Places == {"connect"} \cup InTransaction \cup Answers

(* The request's own wallet, the platform wallet it found, and its balance. *)
Read(own, to, plat) == [own |-> own, to |-> to, plat |-> plat]
Unread == Read(0, Platform0, 0)

NeverLocked(w) == FALSE

(* Another transaction holds the row: SELECT ... FOR UPDATE waits.         *)
Locked(w) == \E r \in Requests : w \in held[r]

Platforms == open \cap PlatformIds
InUse == {x \in Requests \X {1, 2} : x[2] <= conns[x[1]]}

UnboundedPool == TRUE

FreeConnection == Cardinality(InUse) < PoolSize

Entry(kind, amount, after, r) ==
    [kind |-> kind, amount |-> amount, after |-> after, ref |-> r]

(* The abstract ledger, over the same three tables.                        *)
Ledger == INSTANCE AtomicLedger WITH Refs <- Requests

-----------------------------------------------------------------------------
Init ==
    /\ Ledger!LedgerInit
    /\ Platforms \subseteq {Platform0}
    /\ held = [r \in Requests |-> {}]
    /\ conns = [r \in Requests |-> 0]
    /\ pc = [r \in Requests |-> "connect"]
    /\ job \in [Requests -> Jobs]
    /\ seen = [r \in Requests |-> Unread]

(* COMMIT or ROLLBACK, then release(): locks and connections go back.      *)
Leave(r, answer) ==
    /\ pc' = [pc EXCEPT ![r] = answer]
    /\ held' = [held EXCEPT ![r] = {}]
    /\ conns' = [conns EXCEPT ![r] = 0]
    /\ seen' = [seen EXCEPT ![r] = Unread]
    /\ UNCHANGED job

Abort(r, answer) ==
    /\ Leave(r, answer)
    /\ UNCHANGED <<open, balance, ledger>>

Goto(r, place) == pc' = [pc EXCEPT ![r] = place]

FirstPlace(j) ==
    CASE j.op = "fee" -> "lockOrg"
      [] j.op = "bureau" -> "findBureau"
      [] j.op = "platform" -> "findPlatform"
      [] OTHER -> "lockWallet"

AfterConnect(r) ==
    CASE pc[r] = "connect" -> FirstPlace(job[r])
      [] pc[r] = "connectBureau" -> "findBureau"
      [] pc[r] = "connectPlatform" -> "findPlatform"

Connecting == {"connect", "connectBureau", "connectPlatform"}

(* pool.connect() and BEGIN: the request's own connection, or a second one *)
(* for a wallet created on behalf of a fee.                                *)
Connect(r) ==
    /\ pc[r] \in Connecting
    /\ FreeConnection
    /\ conns' = [conns EXCEPT ![r] = @ + 1]
    /\ Goto(r, AfterConnect(r))
    /\ UNCHANGED <<open, balance, ledger, held, job, seen>>

WaitsForever(r) == FALSE

(* connectionTimeoutMillis: pool.connect() rejects when none comes free.   *)
ConnectTimeout(r) ==
    /\ pc[r] \in Connecting
    /\ ~FreeConnection
    /\ Abort(r, "failed")

-----------------------------------------------------------------------------
(* processTransactionFee: the organization's row, then the platform's.     *)

LockOrg(r) ==
    LET o == job[r].w IN
    /\ pc[r] = "lockOrg"
    /\ o \in open
    /\ ~Locked(o)
    /\ held' = [held EXCEPT ![r] = {o}]
    /\ seen' = [seen EXCEPT ![r] = Read(balance[o], Platform0, 0)]
    /\ Goto(r, "lockPlatform")
    /\ UNCHANGED <<open, balance, ledger, conns, job>>

(* No wallet yet: one is created on a second connection while the first    *)
(* transaction stays open, and the fee is answered as unpaid.              *)
MissingOrg(r) ==
    /\ pc[r] = "lockOrg"
    /\ job[r].w \notin open
    /\ Goto(r, "connectBureau")
    /\ UNCHANGED <<open, balance, ledger, held, conns, job, seen>>

ForgetsOrgLock(r) ==
    /\ pc[r] = "lockPlatform"
    /\ Platforms # {}
    /\ \A p \in Platforms : ~Locked(p)
    /\ held' = [held EXCEPT ![r] = Platforms]
    /\ \E p \in Platforms :
          seen' = [seen EXCEPT ![r] = Read(seen[r].own, p, balance[p])]
    /\ Goto(r, "decide")
    /\ UNCHANGED <<open, balance, ledger, conns, job>>

(* No LIMIT: every platform row is locked and the first one is used.       *)
LockPlatform(r) ==
    /\ pc[r] = "lockPlatform"
    /\ Platforms # {}
    /\ \A p \in Platforms : ~Locked(p)
    /\ held' = [held EXCEPT ![r] = @ \cup Platforms]
    /\ \E p \in Platforms :
          seen' = [seen EXCEPT ![r] = Read(seen[r].own, p, balance[p])]
    /\ Goto(r, "decide")
    /\ UNCHANGED <<open, balance, ledger, conns, job>>

(* ROLLBACK lets go of the organization's row, but the connection is kept  *)
(* while a platform wallet is created on a second one.                     *)
MissingPlatform(r) ==
    /\ pc[r] = "lockPlatform"
    /\ Platforms = {}
    /\ held' = [held EXCEPT ![r] = {}]
    /\ seen' = [seen EXCEPT ![r] = Unread]
    /\ Goto(r, "connectPlatform")
    /\ UNCHANGED <<open, balance, ledger, conns, job>>

Write(w, kind, amount, new, r) ==
    Append(ledger[w], Entry(kind, amount, new, r))

AffordsAnything(r) == TRUE

Affords(r) == seen[r].own >= job[r].amount

PlatformRowForgotten(p, new, r) == ledger[p]

PlatformRow(p, new, r) == Write(p, "platform_fee", job[r].fee, new, r)

(* Both updates and both rows are computed from what was read under the    *)
(* locks.  The answer to COMMIT can be lost: the caller then sees a        *)
(* failure of a transaction that took place.                               *)
CommitFee(r) ==
    LET j == job[r]
        p == seen[r].to
        newOrg == seen[r].own - j.amount
        newPlatform == seen[r].plat + j.fee
    IN  /\ pc[r] = "decide"
        /\ j.op = "fee"
        /\ Affords(r)
        /\ newPlatform <= MaxInt
        /\ balance' = [balance EXCEPT ![j.w] = newOrg, ![p] = newPlatform]
        /\ ledger' = [ledger EXCEPT
              ![j.w] = Write(j.w, "transaction_fee", -j.amount, newOrg, r),
              ![p] = PlatformRow(p, newPlatform, r)]
        /\ \E answer \in {"ok", "failed"} : Leave(r, answer)
        /\ UNCHANGED open

-----------------------------------------------------------------------------
(* topupWallet and withdrawFromWallet.                                     *)

LockWallet(r) ==
    LET w == job[r].w IN
    /\ pc[r] = "lockWallet"
    /\ w \in open
    /\ ~Locked(w)
    /\ held' = [held EXCEPT ![r] = {w}]
    /\ seen' = [seen EXCEPT ![r] = Read(balance[w], Platform0, 0)]
    /\ Goto(r, "decide")
    /\ UNCHANGED <<open, balance, ledger, conns, job>>

MissingWallet(r) ==
    /\ pc[r] = "lockWallet"
    /\ job[r].w \notin open
    /\ Abort(r, "failed")

CommitMove(r) ==
    LET j == job[r]
        amount == IF j.op = "topup" THEN j.amount ELSE -j.amount
        new == seen[r].own + amount
    IN  /\ pc[r] = "decide"
        /\ j.op \in {"topup", "withdrawal"}
        /\ j.op = "withdrawal" => Affords(r)
        /\ new <= MaxInt
        /\ balance' = [balance EXCEPT ![j.w] = new]
        /\ ledger' = [ledger EXCEPT ![j.w] = Write(j.w, j.op, amount, new, r)]
        /\ \E answer \in {"ok", "failed"} : Leave(r, answer)
        /\ UNCHANGED open

(* The checks before the writes.                                           *)
Insufficient(r) ==
    /\ pc[r] = "decide"
    /\ job[r].op \in {"fee", "withdrawal"}
    /\ ~Affords(r)
    /\ Abort(r, "insufficient")

(* A balance that does not fit its int4 column fails the UPDATE.           *)
Overflow(r) ==
    /\ pc[r] = "decide"
    /\ \/ job[r].op = "topup" /\ seen[r].own + job[r].amount > MaxInt
       \/ /\ job[r].op = "fee"
          /\ Affords(r)
          /\ seen[r].plat + job[r].fee > MaxInt
    /\ Abort(r, "failed")

-----------------------------------------------------------------------------
(* getOrCreateWallet and getPlatformWallet, called by a route or by a fee. *)

AnswerOfOpening(r) == IF job[r].op = "fee" THEN "insufficient" ELSE "ok"

FindBureau(r) ==
    /\ pc[r] = "findBureau"
    /\ \/ /\ job[r].w \in open
          /\ ~Locked(job[r].w)
          /\ Abort(r, AnswerOfOpening(r))
       \/ /\ job[r].w \notin open
          /\ Goto(r, "insertBureau")
          /\ UNCHANGED <<open, balance, ledger, held, conns, job, seen>>

(* COMMIT on the second connection and, for a fee that found no wallet,    *)
(* ROLLBACK on the first: the caller may see either fail although the new  *)
(* wallet stands.                                                          *)
Opened(r, w) ==
    /\ open' = open \cup {w}
    /\ \E answer \in {AnswerOfOpening(r), "failed"} : Leave(r, answer)
    /\ UNCHANGED <<balance, ledger>>

(* organization_id is unique: the second of two INSERTs fails.             *)
InsertBureau(r) ==
    /\ pc[r] = "insertBureau"
    /\ \/ /\ job[r].w \notin open
          /\ Opened(r, job[r].w)
       \/ /\ job[r].w \in open
          /\ Abort(r, "failed")

(* LIMIT 1: the row that the query came upon, whichever it was.            *)
FindPlatform(r) ==
    /\ pc[r] = "findPlatform"
    /\ \/ /\ \E p \in Platforms : ~Locked(p)
          /\ Abort(r, AnswerOfOpening(r))
       \/ /\ Platforms = {}
          /\ Goto(r, "insertPlatform")
          /\ UNCHANGED <<open, balance, ledger, held, conns, job, seen>>

(* FOR UPDATE waits for that row, though another platform row be free.     *)
FindLockedPlatform(r) ==
    /\ pc[r] = "findPlatform"
    /\ \E p \in Platforms :
          /\ Locked(p)
          /\ seen' = [seen EXCEPT ![r] = Read(0, p, 0)]
    /\ Goto(r, "awaitPlatform")
    /\ UNCHANGED <<open, balance, ledger, held, conns, job>>

AwaitPlatform(r) ==
    /\ pc[r] = "awaitPlatform"
    /\ ~Locked(seen[r].to)
    /\ Abort(r, AnswerOfOpening(r))

(* Nothing makes a platform row unique, so ON CONFLICT DO NOTHING never    *)
(* applies and the INSERT always adds a row.                               *)
InsertPlatform(r) ==
    /\ pc[r] = "insertPlatform"
    /\ Opened(r, r)

-----------------------------------------------------------------------------
(* A statement that fails (a dropped connection, statement_timeout) ends   *)
(* in the catch block: ROLLBACK, and the error goes to the caller.         *)
StatementFails(r) ==
    /\ pc[r] \in InTransaction \ Connecting
    /\ Abort(r, "failed")

(* The process dies: PostgreSQL rolls back whatever had not committed.     *)
Crash ==
    /\ \E r \in Requests : pc[r] \in InTransaction
    /\ pc' = [r \in Requests |->
                IF pc[r] \in InTransaction THEN "failed" ELSE pc[r]]
    /\ held' = [r \in Requests |-> {}]
    /\ conns' = [r \in Requests |-> 0]
    /\ seen' = [r \in Requests |-> Unread]
    /\ UNCHANGED <<open, balance, ledger, job>>

Step(r) ==
    \/ Connect(r) \/ ConnectTimeout(r)
    \/ LockOrg(r) \/ MissingOrg(r) \/ LockPlatform(r) \/ MissingPlatform(r)
    \/ LockWallet(r) \/ MissingWallet(r)
    \/ CommitFee(r) \/ CommitMove(r) \/ Insufficient(r) \/ Overflow(r)
    \/ FindBureau(r) \/ InsertBureau(r)
    \/ FindPlatform(r) \/ FindLockedPlatform(r) \/ AwaitPlatform(r) \/ InsertPlatform(r)

Answered == \A r \in Requests : pc[r] \in Answers

Finished == Answered /\ UNCHANGED vars

Next ==
    \/ \E r \in Requests : Step(r) \/ StatementFails(r)
    \/ Crash
    \/ Finished

Spec == Init /\ [][Next]_vars

(* The event loop runs every request whose await can resolve, and the pool *)
(* rejects a wait of ten seconds: no step of a request is put off forever. *)
FairSpec == Spec /\ \A r \in Requests : WF_vars(Step(r))
-----------------------------------------------------------------------------
(* The pool never hands out more connections than it has, and every        *)
(* variable has its type.                                                  *)
TypeOK ==
    /\ open \subseteq Wallets
    /\ balance \in [Wallets -> Int]
    /\ ledger \in [Wallets -> Seq([kind : Ledger!Kinds, amount : Int,
                                   after : Int, ref : Wallets])]
    /\ held \in [Requests -> SUBSET Wallets]
    /\ conns \in [Requests -> 0..2]
    /\ pc \in [Requests -> Places]
    /\ job \in [Requests -> Jobs]
    /\ seen \in [Requests -> [own : Int, to : PlatformIds, plat : Int]]
    /\ Cardinality(InUse) <= PoolSize

(* No movement of money is lost: the ledger of every wallet explains its   *)
(* balance row by row, however requests interleave and fail.  It is the    *)
(* row locks of wallet-engine.ts that it rests on, because the UPDATE      *)
(* writes a number computed in JavaScript from an earlier SELECT.          *)
LedgerAgrees == \A w \in Wallets : Ledger!LedgerExplains(w)

(* No wallet was ever below zero, not even between two rows of its ledger. *)
NeverOverdrawn ==
    \A w \in Wallets :
        \A i \in 1..Len(ledger[w]) : ledger[w][i].after \in 0..MaxInt

FeeRows(r) ==
    {x \in UNION {{w} \X (1..Len(ledger[w])) : w \in Wallets} :
        LET row == ledger[x[1]][x[2]]
        IN  row.ref = r /\ row.kind \in {"transaction_fee", "platform_fee"}}

(* What a charged fee leaves behind: the whole charge on the organization  *)
(* and the platform's share on one platform wallet.                        *)
ChargedInFull(r) ==
    \E p \in PlatformIds :
        \E i \in 1..Len(ledger[job[r].w]), k \in 1..Len(ledger[p]) :
            /\ FeeRows(r) = {<<job[r].w, i>>, <<p, k>>}
            /\ ledger[job[r].w][i].amount = -job[r].amount
            /\ ledger[p][k].amount = job[r].fee

(* A fee is charged once and in full or not at all, and the caller is told *)
(* the truth unless it is told of a failure: processTransactionFee's       *)
(* success flag decides whether the usage counts as billed.                *)
FeesAreWhole ==
    \A r \in Requests :
        /\ FeeRows(r) = {} \/ ChargedInFull(r)
        /\ pc[r] = "ok" /\ job[r].op = "fee" => ChargedInFull(r)
        /\ pc[r] \notin {"ok", "failed"} => FeeRows(r) = {}

(* The transactions, locks and lost answers behave as the atomic ledger.   *)
ActsAtomically == Ledger!LedgerSpec

(* Every request is answered, also when the fees in flight hold the whole  *)
(* pool while each waits for a second connection to create a wallet.       *)
EveryRequestAnswered == \A r \in Requests : <>(pc[r] \in Answers)
=============================================================================
